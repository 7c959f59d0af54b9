---------------------------- MODULE XRoads_proof ----------------------------
(***************************************************************************)
(* Proofs about XRoads, for every finite set of threads and any number of  *)
(* them entering: the directions exclude each other, no assertion of the   *)
(* code fails and no wakeup is lost.                                       *)
(***************************************************************************)
EXTENDS XRoads, FiniteSetTheorems, TLAPS

\* Whoever crosses, or is about to after its wait, goes the way of the traffic.
Flow == \A t \in Threads : pc[t] \in Across \cup {"leavequeue"} => dir = way[t]

Waits(t, d)   == way[t] = d /\ pc[t] \in Queued
Resets(t, d)  == way[t] = d /\ pc[t] \in {"reset", "resetevent"}
Signals(t, d) == way[t] # d /\ pc[t] \in Leaving

\* The event of a direction is set only while the traffic flows that way and
\* somebody is still to wake up or to reset it.
EventUsed(d) == event[d] => dir = d /\ \E t \in Threads : Waits(t, d) \/ Resets(t, d)

\* One thread at a time is about to signal it, somebody waits for that, and
\* the flag is set first.
SignalAwaited(d) ==
    \A s \in Threads : Signals(s, d) =>
        /\ dir = d /\ ~event[d]
        /\ \E t \in Threads : Waits(t, d)
        /\ \A r \in Threads : Signals(r, d) => r = s
        /\ needReset[d] <=> pc[s] = "signal"

\* One thread at a time is about to reset it, nobody waits any more, and the
\* flag is cleared first.
ResetAlone(d) ==
    \A t \in Threads : Resets(t, d) =>
        /\ event[d]
        /\ \A u \in Threads : ~Waits(u, d) /\ (Resets(u, d) => u = t)
        /\ needReset[d] <=> pc[t] = "reset"

\* Who waits while the traffic flows its way is signalled, or will be; the flag
\* says that somebody who wakes up has to reset the event.
WaitersTold(d) ==
    /\ needReset[d] => event[d] \/ \E s \in Threads : Signals(s, d)
    /\ \A t \in Threads : Waits(t, d) =>
         /\ pc[t] # "wait" => event[d]
         /\ event[d] => needReset[d]
         /\ dir = d => event[d] \/ \E s \in Threads : Signals(s, d)

\* Who has switched the direction was alone: nobody waits to go its way.
SwitchedAlone(d) ==
    \A t, u \in Threads : pc[t] = "switched" /\ way[t] = d => ~Waits(u, d) /\ ~Resets(u, d)

EventInv ==
    \A d \in Dirs : EventUsed(d) /\ SignalAwaited(d) /\ ResetAlone(d) /\ WaitersTold(d)
                    /\ SwitchedAlone(d)

CrossInv == CountsExact /\ Flow /\ EventInv

-----------------------------------------------------------------------------
(* The counts.                                                             *)

\* There are two directions, each the other of the other.
LEMMA TwoDirs ==
    /\ \A d \in Dirs : Other(d) \in Dirs /\ Other(d) # d
    /\ \A d, e, f \in Dirs : e # d /\ f # d => e = f
BY DEF Dirs, Other

\* A set that changes by one element.
LEMMA CardinalityStep ==
    ASSUME NEW S, NEW T, IsFiniteSet(S), IsFiniteSet(T), NEW x, S \ {x} = T \ {x}
    PROVE  /\ (x \in S <=> x \in T) => Cardinality(T) = Cardinality(S)
           /\ x \notin S /\ x \in T => Cardinality(T) = Cardinality(S) + 1
           /\ x \in S /\ x \notin T => Cardinality(T) = Cardinality(S) - 1
<1>1. (x \in S <=> x \in T) => S = T
  OBVIOUS
<1>2. x \notin S /\ x \in T => T = S \cup {x}
  OBVIOUS
<1>3. x \in S /\ x \notin T => T = S \ {x}
  OBVIOUS
<1>4. x \notin S => Cardinality(S \cup {x}) = Cardinality(S) + 1
  BY FS_AddElement
<1>5. x \in S => Cardinality(S \ {x}) = Cardinality(S) - 1
  BY FS_RemoveElement
<1> QED  BY <1>1, <1>2, <1>3, <1>4, <1>5

\* The crowds are finite, since the threads are.
LEMMA FiniteCrowds ==
    \A d \in Dirs : /\ IsFiniteSet(Users(d)) /\ Cardinality(Users(d)) \in Nat
                    /\ IsFiniteSet(Waiters(d)) /\ Cardinality(Waiters(d)) \in Nat
<1> SUFFICES ASSUME NEW d \in Dirs
    PROVE  /\ IsFiniteSet(Users(d)) /\ Cardinality(Users(d)) \in Nat
           /\ IsFiniteSet(Waiters(d)) /\ Cardinality(Waiters(d)) \in Nat
  OBVIOUS
<1>1. Users(d) \subseteq Threads /\ Waiters(d) \subseteq Threads
  BY DEF Users, Waiters
<1> QED  BY <1>1, ThreadsAssumption, FS_Subset, FS_CardinalityType

\* What the word tells of the crowds it counts.
LEMMA CountsTell ==
    ASSUME CountsExact, NEW d \in Dirs
    PROVE  /\ count[d] \in Nat /\ waiting[d] \in Nat /\ waiting[d] <= count[d]
           /\ count[d] = 0 <=> Users(d) = {}
           /\ waiting[d] = 0 <=> Waiters(d) = {}
           /\ \A t \in Users(d) : count[d] = 1 => Users(d) = {t}
<1>1. /\ count[d] = Cardinality(Users(d)) /\ waiting[d] = Cardinality(Waiters(d))
      /\ IsFiniteSet(Users(d)) /\ IsFiniteSet(Waiters(d))
      /\ count[d] \in Nat /\ waiting[d] \in Nat
  BY FiniteCrowds DEF CountsExact
<1>2. Waiters(d) \subseteq Users(d)
  BY DEF Waiters, Users
<1>3. waiting[d] <= count[d]
  BY <1>1, <1>2, FS_Subset
<1>4. (count[d] = 0 <=> Users(d) = {}) /\ (waiting[d] = 0 <=> Waiters(d) = {})
  BY <1>1, FS_EmptySet
<1>5. ASSUME NEW t \in Users(d), count[d] = 1 PROVE Users(d) = {t}
  <2>1. PICK u : Users(d) = {u}
    BY <1>1, <1>5, FS_Singleton
  <2> QED  BY <2>1, <1>5
<1> QED  BY <1>1, <1>3, <1>4, <1>5

OthersStay(t) == \A u \in Threads \ {t} : pc'[u] = pc[u] /\ way'[u] = way[u]
One(b) == IF b THEN 1 ELSE 0

\* The counts stay exact when they change with the one thread that moves.
LEMMA CountsStep ==
    ASSUME CountsExact, NEW t \in Threads, OthersStay(t),
           \A d \in Dirs :
             /\ count'[d] = count[d] + One(t \in Users(d)') - One(t \in Users(d))
             /\ waiting'[d] = waiting[d] + One(t \in Waiters(d)') - One(t \in Waiters(d))
    PROVE  CountsExact'
<1> SUFFICES ASSUME NEW d \in Dirs
    PROVE  count'[d] = Cardinality(Users(d)') /\ waiting'[d] = Cardinality(Waiters(d)')
  BY DEF CountsExact
<1>1. Users(d) \ {t} = Users(d)' \ {t} /\ Waiters(d) \ {t} = Waiters(d)' \ {t}
  BY DEF OthersStay, Users, Waiters
<1>2. /\ IsFiniteSet(Users(d)) /\ IsFiniteSet(Waiters(d))
      /\ Cardinality(Users(d)) \in Nat /\ Cardinality(Waiters(d)) \in Nat
  BY FiniteCrowds
<1>3. IsFiniteSet(Users(d)') /\ IsFiniteSet(Waiters(d)')
  <2>1. Users(d)' \subseteq Threads /\ Waiters(d)' \subseteq Threads
    BY DEF Users, Waiters
  <2> QED  BY <2>1, ThreadsAssumption, FS_Subset
<1>4. count[d] = Cardinality(Users(d)) /\ waiting[d] = Cardinality(Waiters(d))
  BY DEF CountsExact
<1>5. count'[d] = Cardinality(Users(d)')
  <2>1. /\ (t \in Users(d) <=> t \in Users(d)') => Cardinality(Users(d)') = Cardinality(Users(d))
        /\ t \notin Users(d) /\ t \in Users(d)' => Cardinality(Users(d)') = Cardinality(Users(d)) + 1
        /\ t \in Users(d) /\ t \notin Users(d)' => Cardinality(Users(d)') = Cardinality(Users(d)) - 1
    BY <1>1, <1>2, <1>3, CardinalityStep
  <2> QED  BY <1>2, <1>4, <2>1 DEF One
<1>6. waiting'[d] = Cardinality(Waiters(d)')
  <2>1. /\ (t \in Waiters(d) <=> t \in Waiters(d)') => Cardinality(Waiters(d)') = Cardinality(Waiters(d))
        /\ t \notin Waiters(d) /\ t \in Waiters(d)' => Cardinality(Waiters(d)') = Cardinality(Waiters(d)) + 1
        /\ t \in Waiters(d) /\ t \notin Waiters(d)' => Cardinality(Waiters(d)') = Cardinality(Waiters(d)) - 1
    BY <1>1, <1>2, <1>3, CardinalityStep
  <2> QED  BY <1>2, <1>4, <2>1 DEF One
<1> QED  BY <1>5, <1>6

-----------------------------------------------------------------------------
(* The initial state.                                                      *)

\* At first nobody is there and no event is set.
LEMMA InitCross == Init => TypeOK /\ CrossInv
<1> SUFFICES ASSUME Init PROVE TypeOK /\ CrossInv
  OBVIOUS
<1>1. TypeOK
  BY EntersAssumption DEF Init, TypeOK, Dirs, Queued, Across, Leaving
<1>2. \A d \in Dirs : Users(d) = {} /\ Waiters(d) = {}
  BY DEF Init, Users, Waiters, Queued, Across
<1>3. CountsExact
  BY <1>2, FS_EmptySet DEF Init, CountsExact
<1>4. Flow
  BY DEF Init, Flow, Across
<1>5. EventInv
  BY DEF Init, EventInv, EventUsed, SignalAwaited, ResetAlone, WaitersTold, SwitchedAlone,
         Waits, Resets, Signals, Queued, Leaving
<1> QED  BY <1>1, <1>3, <1>4, <1>5 DEF CrossInv

-----------------------------------------------------------------------------
(* A step: types, counts and direction.                                    *)

Pcs == Queued \cup Across \cup Leaving \cup {"out"}

\* What a thread that moves on changes of the crowds.
LEMMA Moved ==
    ASSUME TypeOK, NEW t \in Threads, NEW label \in Pcs, NEW d \in Dirs,
           Goto(t, label), way' = [way EXCEPT ![t] = d]
    PROVE  /\ pc' \in [Threads -> Pcs] /\ way' \in [Threads -> Dirs]
           /\ OthersStay(t) /\ pc'[t] = label /\ way'[t] = d
           /\ \A e : /\ t \in Users(e)   <=> way[t] = e /\ pc[t] \in Queued \cup Across
                     /\ t \in Waiters(e) <=> way[t] = e /\ pc[t] \in Queued
                     /\ t \in Users(e)'   <=> d = e /\ label \in Queued \cup Across
                     /\ t \in Waiters(e)' <=> d = e /\ label \in Queued
<1>1. /\ pc' \in [Threads -> Pcs] /\ way' \in [Threads -> Dirs]
      /\ OthersStay(t) /\ pc'[t] = label /\ way'[t] = d
  BY DEF TypeOK, Pcs, Goto, OthersStay
<1> QED  BY <1>1 DEF Users, Waiters

\* A thread that keeps its way moves in the sense of Moved.
LEMMA MovedOn ==
    ASSUME TypeOK, NEW t \in Threads, NEW label \in Pcs, Goto(t, label), UNCHANGED way
    PROVE  way[t] \in Dirs /\ way' = [way EXCEPT ![t] = way[t]]
BY DEF TypeOK

\* Exact counts are numbers, and hence of the right type.
LEMMA TypeStep ==
    ASSUME CountsExact', count' \in [Dirs -> Int], waiting' \in [Dirs -> Int],
           dir' \in Dirs, event' \in [Dirs -> BOOLEAN], needReset' \in [Dirs -> BOOLEAN],
           pc' \in [Threads -> Pcs], way' \in [Threads -> Dirs], enters' \in 0 .. MaxEnters
    PROVE  TypeOK'
<1>1. \A d \in Dirs : count'[d] = Cardinality(Users(d)') /\ waiting'[d] = Cardinality(Waiters(d)')
  BY DEF CountsExact
<1>2. \A d \in Dirs : Cardinality(Users(d)') \in Nat /\ Cardinality(Waiters(d)') \in Nat
  <2> SUFFICES ASSUME NEW d \in Dirs
      PROVE  Cardinality(Users(d)') \in Nat /\ Cardinality(Waiters(d)') \in Nat
    OBVIOUS
  <2>1. Users(d)' \subseteq Threads /\ Waiters(d)' \subseteq Threads
    BY DEF Users, Waiters
  <2> QED  BY <2>1, ThreadsAssumption, FS_Subset, FS_CardinalityType
<1>3. count' \in [Dirs -> Nat] /\ waiting' \in [Dirs -> Nat]
  BY <1>1, <1>2
<1> QED  BY <1>3 DEF TypeOK, Pcs

\* Nobody is counted: nobody is there.
LEMMA AloneNobody ==
    ASSUME TypeOK, CountsExact, Alone
    PROVE  \A u \in Threads : pc[u] \notin Queued \cup Across
<1> SUFFICES ASSUME NEW u \in Threads, pc[u] \in Queued \cup Across PROVE FALSE
  OBVIOUS
<1>1. way[u] \in Dirs /\ u \in Users(way[u])
  BY DEF TypeOK, Users
<1>2. count[way[u]] = 0
  BY <1>1 DEF Alone, Dirs
<1> QED  BY <1>1, <1>2, CountsTell

\* The last one across leaves only such who wait to go the other way.
LEMMA LastLeaves ==
    ASSUME TypeOK, CrossInv, NEW t \in Threads, pc[t] = "in", LastAcross(way[t])
    PROVE  /\ dir = way[t]
           /\ \A u \in Threads : way[u] = way[t] /\ pc[u] \in Queued \cup Across => u = t
           /\ \A u \in Threads : pc[u] \in Queued => way[u] # way[t] /\ pc[u] = "wait"
           /\ \E u \in Threads : way[u] = Other(way[t]) /\ pc[u] = "wait"
<1>1. /\ way[t] \in Dirs /\ t \in Users(way[t]) /\ dir = way[t]
      /\ Other(way[t]) \in Dirs /\ Other(way[t]) # way[t]
  BY TwoDirs DEF TypeOK, Users, CrossInv, Flow, Across
<1>2. Users(way[t]) = {t} /\ Users(Other(way[t])) # {}
  BY <1>1, CountsTell DEF LastAcross, CrossInv
<1>3. \A u \in Threads : way[u] = way[t] /\ pc[u] \in Queued \cup Across => u = t
  BY <1>2 DEF Users
<1>4. ASSUME NEW u \in Threads, pc[u] \in Queued PROVE way[u] # way[t] /\ pc[u] = "wait"
  <2>1. way[u] # way[t] /\ way[u] \in Dirs
    BY <1>3, <1>4 DEF Queued, TypeOK
  <2>2. Waits(u, way[u])
    BY <1>4 DEF Waits
  <2>3. pc[u] # "wait" => event[way[u]]
    BY <2>1, <2>2 DEF CrossInv, EventInv, WaitersTold
  <2>4. event[way[u]] => dir = way[u]
    BY <2>1 DEF CrossInv, EventInv, EventUsed
  <2> QED  BY <1>1, <2>1, <2>3, <2>4
<1>5. PICK u \in Threads : way[u] = Other(way[t]) /\ pc[u] \in Queued \cup Across
  BY <1>2 DEF Users
<1>6. pc[u] \notin Across
  BY <1>1, <1>5 DEF CrossInv, Flow
<1> QED  BY <1>1, <1>3, <1>4, <1>5, <1>6

\* Who arrives is counted, and waits unless the traffic flows its way.
LEMMA ArriveFlows ==
    ASSUME TypeOK, CrossInv, NEW t \in Threads, NEW d \in Dirs,
           EnterSimple(t, d) \/ EnterSwitch(t, d) \/ EnterWait(t, d)
    PROVE  TypeOK' /\ CountsExact' /\ Flow'
<1> USE DEF Pcs, Queued, Across, Leaving
<1>1. /\ pc[t] = "out" /\ way' = [way EXCEPT ![t] = d] /\ Add(1, d)
      /\ enters' \in 0 .. MaxEnters /\ UNCHANGED sems
  BY EntersAssumption DEF EnterSimple, EnterSwitch, EnterWait, Enters, TypeOK
<1>2. /\ count' \in [Dirs -> Int] /\ waiting \in [Dirs -> Int]
      /\ \A e \in Dirs : count'[e] = count[e] + One(e = d)
  BY <1>1 DEF TypeOK, Add, One
<1>3. CASE EnterSimple(t, d)
  <2>1. Goto(t, "in") /\ dir = d /\ UNCHANGED <<waiting, dir>>
    BY <1>3 DEF EnterSimple
  <2>2. /\ pc' \in [Threads -> Pcs] /\ way' \in [Threads -> Dirs]
        /\ OthersStay(t) /\ pc'[t] = "in" /\ way'[t] = d
        /\ \A e \in Dirs : /\ t \notin Users(e) /\ t \notin Waiters(e)
                           /\ (t \in Users(e)' <=> d = e) /\ t \notin Waiters(e)'
    BY <1>1, <2>1, Moved
  <2>3. CountsExact'
    BY <1>2, <2>1, <2>2, CountsStep DEF One, TypeOK, CrossInv
  <2>4. Flow'
    BY <2>1, <2>2 DEF Flow, CrossInv, OthersStay
  <2>5. TypeOK'
    BY <1>1, <1>2, <2>1, <2>2, <2>3, TypeStep DEF TypeOK, sems
  <2> QED  BY <2>3, <2>4, <2>5
<1>4. CASE EnterSwitch(t, d)
  <2>1. Goto(t, "switched") /\ dir' = d /\ Alone /\ UNCHANGED waiting
    BY <1>4 DEF EnterSwitch
  <2>2. /\ pc' \in [Threads -> Pcs] /\ way' \in [Threads -> Dirs]
        /\ OthersStay(t) /\ pc'[t] = "switched" /\ way'[t] = d
        /\ \A e \in Dirs : /\ t \notin Users(e) /\ t \notin Waiters(e)
                           /\ (t \in Users(e)' <=> d = e) /\ t \notin Waiters(e)'
    BY <1>1, <2>1, Moved
  <2>3. CountsExact'
    BY <1>2, <2>1, <2>2, CountsStep DEF One, TypeOK, CrossInv
  <2>4. Flow'
    BY <2>1, <2>2, AloneNobody DEF Flow, CrossInv, OthersStay
  <2>5. TypeOK'
    BY <1>1, <1>2, <2>1, <2>2, <2>3, TypeStep DEF TypeOK, sems
  <2> QED  BY <2>3, <2>4, <2>5
<1>5. CASE EnterWait(t, d)
  <2>1. Goto(t, "wait") /\ waiting' = [waiting EXCEPT ![d] = @ + 1] /\ UNCHANGED dir
    BY <1>5 DEF EnterWait
  <2>2. /\ pc' \in [Threads -> Pcs] /\ way' \in [Threads -> Dirs]
        /\ OthersStay(t) /\ pc'[t] = "wait" /\ way'[t] = d
        /\ \A e \in Dirs : /\ t \notin Users(e) /\ t \notin Waiters(e)
                           /\ (t \in Users(e)' <=> d = e) /\ (t \in Waiters(e)' <=> d = e)
    BY <1>1, <2>1, Moved
  <2>3. waiting' \in [Dirs -> Int] /\ \A e \in Dirs : waiting'[e] = waiting[e] + One(e = d)
    BY <2>1, <1>2 DEF One, TypeOK
  <2>4. CountsExact'
    BY <1>2, <2>2, <2>3, CountsStep DEF One, TypeOK, CrossInv
  <2>5. Flow'
    BY <2>1, <2>2 DEF Flow, CrossInv, OthersStay
  <2>6. TypeOK'
    BY <1>1, <1>2, <2>1, <2>2, <2>3, <2>4, TypeStep DEF TypeOK, sems
  <2> QED  BY <2>4, <2>5, <2>6
<1> QED  BY <1>3, <1>4, <1>5

\* A step that moves a thread within the crowd it is counted with.
LEMMA StaysCounted ==
    ASSUME TypeOK, CrossInv, NEW t \in Threads, NEW label \in Pcs, Goto(t, label),
           UNCHANGED <<word, way, enters>>,
           pc[t] \in Queued <=> label \in Queued, pc[t] \in Across <=> label \in Across,
           label \in Across \cup {"leavequeue"} => dir = way[t],
           event' \in [Dirs -> BOOLEAN], needReset' \in [Dirs -> BOOLEAN]
    PROVE  TypeOK' /\ CountsExact' /\ Flow'
<1>1. /\ pc' \in [Threads -> Pcs] /\ way' \in [Threads -> Dirs]
      /\ OthersStay(t) /\ pc'[t] = label /\ way'[t] = way[t]
      /\ \A e \in Dirs : /\ t \in Users(e) <=> t \in Users(e)'
                         /\ t \in Waiters(e) <=> t \in Waiters(e)'
  BY Moved, MovedOn
<1>2. CountsExact'
  BY <1>1, CountsStep DEF One, TypeOK, CrossInv, word
<1>3. Flow'
  BY <1>1 DEF Flow, CrossInv, OthersStay, word
<1>4. TypeOK'
  BY <1>1, <1>2, TypeStep DEF TypeOK, word
<1> QED  BY <1>2, <1>3, <1>4

\* Every step of a thread that has arrived keeps the counts, and turns the
\* traffic only when nobody is left who crosses.
LEMMA CrossFlows ==
    ASSUME TypeOK, CrossInv, NEW t \in Threads, Cross(t)
    PROVE  TypeOK' /\ CountsExact' /\ Flow'
<1> USE DEF Pcs, Queued, Across, Leaving
<1>1. way[t] \in Dirs /\ event \in [Dirs -> BOOLEAN] /\ needReset \in [Dirs -> BOOLEAN]
  BY DEF TypeOK
<1>2. CASE Switched(t)
  BY <1>1, <1>2, StaysCounted DEF Switched, sems, Flow, CrossInv
<1>3. CASE Wakeup(t)
  BY <1>1, <1>3, StaysCounted DEF Wakeup, sems
<1>4. CASE TestDirection(t)
  <2>1. CASE dir = way[t]
    BY <1>1, <1>4, <2>1, StaysCounted DEF TestDirection, sems
  <2>2. CASE dir # way[t]
    BY <1>1, <1>4, <2>2, StaysCounted DEF TestDirection, sems
  <2> QED  BY <2>1, <2>2
<1>5. CASE LeaveQueue(t)
  <2>1. PICK label \in {"reset", "in"} : Goto(t, label)
    BY <1>5 DEF LeaveQueue, Goto
  <2>2. waiting' = [waiting EXCEPT ![way[t]] = @ - 1] /\ pc[t] = "leavequeue"
        /\ UNCHANGED <<count, dir, sems, way, enters>>
    BY <1>5 DEF LeaveQueue
  <2>3. /\ pc' \in [Threads -> Pcs] /\ way' \in [Threads -> Dirs]
        /\ OthersStay(t) /\ pc'[t] = label /\ way'[t] = way[t]
        /\ \A e \in Dirs : /\ t \in Users(e) <=> t \in Users(e)'
                           /\ t \in Waiters(e) <=> way[t] = e
                           /\ t \notin Waiters(e)'
    BY <2>1, <2>2, Moved, MovedOn
  <2>4. waiting' \in [Dirs -> Int] /\ \A e \in Dirs : waiting'[e] = waiting[e] - One(e = way[t])
    BY <2>2 DEF One, TypeOK
  <2>5. CountsExact'
    BY <2>2, <2>3, <2>4, CountsStep DEF One, TypeOK, CrossInv
  <2>6. Flow'
    BY <2>2, <2>3 DEF Flow, CrossInv, OthersStay
  <2>7. TypeOK'
    BY <2>2, <2>3, <2>4, <2>5, TypeStep DEF TypeOK, sems
  <2> QED  BY <2>5, <2>6, <2>7
<1>6. CASE ClearNeedReset(t)
  <2>1. PICK label \in {"resetevent", "in"} : Goto(t, label)
    BY <1>6 DEF ClearNeedReset, Goto
  <2> QED  BY <1>1, <1>6, <2>1, StaysCounted DEF ClearNeedReset, Flow, CrossInv
<1>7. CASE ResetEvent(t)
  BY <1>1, <1>7, StaysCounted DEF ResetEvent, Flow, CrossInv
<1>8. CASE LeaveSimple(t) \/ LeaveReverse(t)
  <2>1. PICK label \in {"out", "needreset"} : Goto(t, label)
    BY <1>8 DEF LeaveSimple, LeaveReverse
  <2>2. /\ pc[t] = "in" /\ Add(-1, way[t]) /\ UNCHANGED <<waiting, sems, way, enters>>
        /\ dir' \in Dirs
    BY <1>1, <1>8, TwoDirs DEF LeaveSimple, LeaveReverse, TypeOK
  <2>3. /\ pc' \in [Threads -> Pcs] /\ way' \in [Threads -> Dirs]
        /\ OthersStay(t) /\ pc'[t] = label /\ way'[t] = way[t]
        /\ \A e \in Dirs : /\ t \in Users(e) <=> way[t] = e
                           /\ t \notin Users(e)'
                           /\ t \notin Waiters(e) /\ t \notin Waiters(e)'
    BY <2>1, <2>2, Moved, MovedOn
  <2>4. count' \in [Dirs -> Int] /\ \A e \in Dirs : count'[e] = count[e] - One(e = way[t])
    BY <2>2 DEF One, TypeOK, Add
  <2>5. CountsExact'
    BY <2>2, <2>3, <2>4, CountsStep DEF One, TypeOK, CrossInv
  <2>6. Flow'
    <3>1. CASE LeaveSimple(t)
      BY <2>3, <3>1 DEF LeaveSimple, Flow, CrossInv, OthersStay
    <3>2. CASE LeaveReverse(t)
      <4>1. \A u \in Threads \ {t} : pc[u] \notin Across \cup {"leavequeue"}
        BY <2>2, <3>2, LastLeaves DEF LeaveReverse, Flow, CrossInv
      <4> QED  BY <2>3, <4>1 DEF Flow, OthersStay
    <3> QED  BY <1>8, <3>1, <3>2
  <2>7. TypeOK'
    BY <2>2, <2>3, <2>4, <2>5, TypeStep DEF TypeOK, sems
  <2> QED  BY <2>5, <2>6, <2>7
<1>9. CASE SetNeedReset(t)
  BY <1>1, <1>9, StaysCounted DEF SetNeedReset
<1>10. CASE Signal(t)
  BY <1>1, <1>10, StaysCounted DEF Signal
<1> QED  BY <1>2, <1>3, <1>4, <1>5, <1>6, <1>7, <1>8, <1>9, <1>10 DEF Cross

-----------------------------------------------------------------------------
(* The events.                                                             *)

\* One thread moves on, the others stay where they are.
Moves(t, label) ==
    /\ pc'[t] = label /\ \A u \in Threads \ {t} : pc'[u] = pc[u]
    /\ \A u \in Threads \ {t} : way'[u] = way[u]

\* Goto is such a move, also for a thread that has just chosen its way.
LEMMA GotoMoves ==
    ASSUME TypeOK, NEW t \in Threads, NEW label, Goto(t, label), NEW d,
           way' = [way EXCEPT ![t] = d] \/ UNCHANGED way
    PROVE  Moves(t, label)
BY DEF TypeOK, Goto, Moves

\* Who arrives finds the events as their invariant says and leaves them so.
LEMMA ArriveEvents ==
    ASSUME TypeOK, CrossInv, NEW t \in Threads, NEW d \in Dirs,
           EnterSimple(t, d) \/ EnterSwitch(t, d) \/ EnterWait(t, d)
    PROVE  EventInv'
<1> USE DEF Queued, Across, Leaving, Waits, Resets, Signals, Moves
<1>1. pc[t] = "out" /\ way'[t] = d /\ UNCHANGED sems
  BY DEF EnterSimple, EnterSwitch, EnterWait, Enters, TypeOK
<1>2. \A u \in Threads : way[u] \in Dirs
  BY DEF TypeOK
<1>3. ASSUME NEW e \in Dirs
      PROVE  EventUsed(e) /\ SignalAwaited(e) /\ ResetAlone(e) /\ WaitersTold(e) /\ SwitchedAlone(e)
  BY <1>3 DEF CrossInv, EventInv
<1> SUFFICES ASSUME NEW e \in Dirs
    PROVE  (EventUsed(e) /\ SignalAwaited(e) /\ ResetAlone(e) /\ WaitersTold(e) /\ SwitchedAlone(e))'
  BY DEF EventInv
<1>4. CASE EnterSimple(t, d)
  <2>1. Moves(t, "in") /\ dir = d /\ UNCHANGED dir
    BY <1>4, GotoMoves DEF EnterSimple, Enters
  <2>2. EventUsed(e)'      BY <1>1, <1>3, <2>1 DEF EventUsed, sems
  <2>3. SignalAwaited(e)'  BY <1>1, <1>3, <2>1 DEF SignalAwaited, sems
  <2>4. ResetAlone(e)'     BY <1>1, <1>3, <2>1 DEF ResetAlone, sems
  <2>5. WaitersTold(e)'    BY <1>1, <1>3, <2>1 DEF WaitersTold, sems
  <2>6. SwitchedAlone(e)'  BY <1>1, <1>3, <2>1 DEF SwitchedAlone, sems
  <2> QED  BY <2>2, <2>3, <2>4, <2>5, <2>6
<1>5. CASE EnterSwitch(t, d)
  <2>1. /\ Moves(t, "switched") /\ dir' = d
        /\ \A u \in Threads : pc[u] \notin Queued \cup Across
    BY <1>5, GotoMoves, AloneNobody DEF EnterSwitch, Enters, CrossInv
  <2>2. ~event[e] /\ ~needReset[e] /\ \A u \in Threads : ~Signals(u, e)
    BY <1>3, <2>1 DEF EventUsed, SignalAwaited, WaitersTold
  <2>3. EventUsed(e)'      BY <1>1, <2>1, <2>2 DEF EventUsed, sems
  <2>4. SignalAwaited(e)'  BY <1>1, <2>1, <2>2 DEF SignalAwaited, sems
  <2>5. ResetAlone(e)'     BY <1>1, <2>1, <2>2 DEF ResetAlone, sems
  <2>6. WaitersTold(e)'    BY <1>1, <2>1, <2>2 DEF WaitersTold, sems
  <2>7. SwitchedAlone(e)'  BY <1>1, <2>1, <2>2 DEF SwitchedAlone, sems
  <2> QED  BY <2>3, <2>4, <2>5, <2>6, <2>7
<1>6. CASE EnterWait(t, d)
  <2>1. Moves(t, "wait") /\ dir # d /\ UNCHANGED dir
    BY <1>6, GotoMoves DEF EnterWait, Enters
  <2>2. EventUsed(e)'      BY <1>1, <1>3, <2>1 DEF EventUsed, sems
  <2>3. SignalAwaited(e)'  BY <1>1, <1>3, <2>1 DEF SignalAwaited, sems
  <2>4. ResetAlone(e)'     BY <1>1, <1>3, <2>1 DEF ResetAlone, EventUsed, sems
  <2>5. WaitersTold(e)'    BY <1>1, <1>3, <2>1 DEF WaitersTold, EventUsed, sems
  <2>6. SwitchedAlone(e)'
    BY <1>1, <1>3, <2>1 DEF SwitchedAlone, CrossInv, Flow, sems
  <2> QED  BY <2>2, <2>3, <2>4, <2>5, <2>6
<1> QED  BY <1>4, <1>5, <1>6

\* So does every step of a thread that has arrived.
LEMMA CrossEvents ==
    ASSUME TypeOK, CrossInv, NEW t \in Threads, Cross(t)
    PROVE  EventInv'
<1> USE DEF Queued, Across, Leaving, Waits, Resets, Signals, Moves
<1>1. /\ \A u \in Threads : way[u] \in Dirs /\ Other(way[u]) \in Dirs /\ Other(way[u]) # way[u]
      /\ \A u \in Threads, f, g \in Dirs : way[u] # f /\ way[u] # g => f = g
      /\ dir \in Dirs /\ event \in [Dirs -> BOOLEAN] /\ needReset \in [Dirs -> BOOLEAN]
  BY TwoDirs DEF TypeOK
<1>2. UNCHANGED way
  BY DEF Cross, Switched, Wakeup, TestDirection, LeaveQueue, ClearNeedReset, ResetEvent,
         LeaveSimple, LeaveReverse, SetNeedReset, Signal
<1>3. ASSUME NEW e \in Dirs
      PROVE  EventUsed(e) /\ SignalAwaited(e) /\ ResetAlone(e) /\ WaitersTold(e) /\ SwitchedAlone(e)
  BY <1>3 DEF CrossInv, EventInv
<1>4. \A u \in Threads : pc[u] \in Across \cup {"leavequeue"} => dir = way[u]
  BY DEF CrossInv, Flow
<1> SUFFICES ASSUME NEW e \in Dirs
    PROVE  (EventUsed(e) /\ SignalAwaited(e) /\ ResetAlone(e) /\ WaitersTold(e) /\ SwitchedAlone(e))'
  BY DEF EventInv
<1>5. CASE Switched(t)
  <2>1. pc[t] = "switched" /\ Moves(t, "in") /\ UNCHANGED <<dir, event, needReset>>
    BY <1>2, <1>5, GotoMoves DEF Switched, word, sems
  <2>2. EventUsed(e)'
    BY <1>3, <2>1 DEF EventUsed
  <2>3. SignalAwaited(e)'
    BY <1>3, <2>1 DEF SignalAwaited
  <2>4. ResetAlone(e)'
    BY <1>3, <2>1 DEF ResetAlone
  <2>5. WaitersTold(e)'
    BY <1>3, <2>1 DEF WaitersTold
  <2>6. SwitchedAlone(e)'
    BY <1>3, <2>1 DEF SwitchedAlone
  <2> QED  BY <2>2, <2>3, <2>4, <2>5, <2>6
<1>6. CASE Wakeup(t)
  <2>1. pc[t] = "wait" /\ event[way[t]] /\ Moves(t, "woken") /\ UNCHANGED <<dir, event, needReset>>
    BY <1>2, <1>6, GotoMoves DEF Wakeup, word, sems
  <2>2. EventUsed(e)'
    BY <1>2, <1>3, <2>1 DEF EventUsed
  <2>3. SignalAwaited(e)'
    BY <1>3, <2>1 DEF SignalAwaited
  <2>4. ResetAlone(e)'
    BY <1>2, <1>3, <2>1 DEF ResetAlone
  <2>5. WaitersTold(e)'
    BY <1>2, <1>3, <2>1 DEF WaitersTold
  <2>6. SwitchedAlone(e)'
    BY <1>2, <1>3, <2>1 DEF SwitchedAlone
  <2> QED  BY <2>2, <2>3, <2>4, <2>5, <2>6
<1>7. CASE TestDirection(t)
  <2>1. /\ pc[t] = "woken" /\ UNCHANGED <<dir, event, needReset>>
        /\ Moves(t, IF dir = way[t] THEN "leavequeue" ELSE "wait")
    BY <1>2, <1>7, GotoMoves DEF TestDirection, word, sems
  <2>2. EventUsed(e)'
    BY <1>2, <1>3, <2>1 DEF EventUsed
  <2>3. SignalAwaited(e)'
    BY <1>2, <1>3, <2>1 DEF SignalAwaited
  <2>4. ResetAlone(e)'
    BY <1>2, <1>3, <2>1 DEF ResetAlone
  <2>5. WaitersTold(e)'
    BY <1>2, <1>3, <2>1 DEF WaitersTold
  <2>6. SwitchedAlone(e)'
    BY <1>2, <1>3, <2>1 DEF SwitchedAlone
  <2> QED  BY <2>2, <2>3, <2>4, <2>5, <2>6
<1>8. CASE LeaveQueue(t)
  <2>1. /\ pc[t] = "leavequeue" /\ UNCHANGED <<dir, event, needReset>>
        /\ \/ Moves(t, "reset") /\ \A u \in Threads \ {t} : ~Waits(u, way[t])
           \/ Moves(t, "in") /\ \E u \in Threads \ {t} : Waits(u, way[t])
    <3>1. pc[t] = "leavequeue" /\ UNCHANGED <<dir, event, needReset>>
      BY <1>8 DEF LeaveQueue, sems
    <3>2. waiting'[way[t]] = 0 <=> Waiters(way[t])' = {}
      <4>1. CountsExact' /\ way[t] \in Dirs
        BY <1>1, CrossFlows
      <4>2. Waiters(way[t])' \subseteq Threads
        BY DEF Waiters
      <4>3. IsFiniteSet(Waiters(way[t])')
        BY <4>2, ThreadsAssumption, FS_Subset
      <4> QED  BY <1>2, <4>1, <4>3, FS_EmptySet DEF CountsExact
    <3>3. CASE waiting'[way[t]] = 0
      <4>1. Moves(t, "reset")
        BY <1>2, <1>8, <3>3, GotoMoves DEF LeaveQueue
      <4>2. \A u \in Threads \ {t} : ~Waits(u, way[t])
        BY <1>2, <3>2, <3>3, <4>1 DEF Waiters
      <4> QED  BY <3>1, <4>1, <4>2
    <3>4. CASE waiting'[way[t]] # 0
      <4>1. Moves(t, "in")
        BY <1>2, <1>8, <3>4, GotoMoves DEF LeaveQueue
      <4>2. \E u \in Threads \ {t} : Waits(u, way[t])
        BY <1>2, <3>2, <3>4, <4>1 DEF Waiters
      <4> QED  BY <3>1, <4>1, <4>2
    <3> QED  BY <3>3, <3>4
  <2>2. EventUsed(e)'
    BY <1>2, <1>3, <2>1 DEF EventUsed
  <2>3. SignalAwaited(e)'
    BY <1>3, <2>1 DEF SignalAwaited, WaitersTold
  <2>4. ResetAlone(e)'
    BY <1>2, <1>3, <2>1 DEF ResetAlone, WaitersTold
  <2>5. WaitersTold(e)'
    BY <1>3, <2>1 DEF WaitersTold
  <2>6. SwitchedAlone(e)'
    BY <1>3, <1>4, <2>1 DEF SwitchedAlone
  <2> QED  BY <2>2, <2>3, <2>4, <2>5, <2>6
<1>9. CASE ClearNeedReset(t)
  <2>1. /\ pc[t] = "reset" /\ Moves(t, "resetevent") /\ UNCHANGED <<dir, event>>
        /\ needReset' = [needReset EXCEPT ![way[t]] = FALSE]
    BY <1>1, <1>2, <1>3, <1>9, GotoMoves DEF ClearNeedReset, word, ResetAlone
  <2>2. EventUsed(e)'
    BY <1>2, <1>3, <2>1 DEF EventUsed
  <2>3. SignalAwaited(e)'
    BY <1>3, <2>1 DEF SignalAwaited, ResetAlone
  <2>4. ResetAlone(e)'
    BY <1>1, <1>2, <1>3, <2>1 DEF ResetAlone
  <2>5. WaitersTold(e)'
    BY <1>3, <2>1 DEF ResetAlone, WaitersTold
  <2>6. SwitchedAlone(e)'
    BY <1>3, <1>4, <2>1 DEF SwitchedAlone
  <2> QED  BY <2>2, <2>3, <2>4, <2>5, <2>6
<1>10. CASE ResetEvent(t)
  <2>1. /\ pc[t] = "resetevent" /\ Moves(t, "in") /\ UNCHANGED <<dir, needReset>>
        /\ event' = [event EXCEPT ![way[t]] = FALSE]
    BY <1>2, <1>10, GotoMoves DEF ResetEvent, word
  <2>2. EventUsed(e)'
    BY <1>1, <1>3, <2>1 DEF EventUsed
  <2>3. SignalAwaited(e)'
    BY <1>3, <2>1 DEF SignalAwaited
  <2>4. ResetAlone(e)'
    BY <1>3, <2>1 DEF ResetAlone
  <2>5. WaitersTold(e)'
    BY <1>3, <2>1 DEF ResetAlone, WaitersTold
  <2>6. SwitchedAlone(e)'
    BY <1>3, <2>1 DEF SwitchedAlone
  <2> QED  BY <2>2, <2>3, <2>4, <2>5, <2>6
<1>11. CASE LeaveSimple(t)
  <2>1. pc[t] = "in" /\ Moves(t, "out") /\ UNCHANGED <<dir, event, needReset>>
    BY <1>2, <1>11, GotoMoves DEF LeaveSimple, sems
  <2>2. EventUsed(e)'
    BY <1>3, <2>1 DEF EventUsed
  <2>3. SignalAwaited(e)'
    BY <1>3, <2>1 DEF SignalAwaited
  <2>4. ResetAlone(e)'
    BY <1>3, <2>1 DEF ResetAlone
  <2>5. WaitersTold(e)'
    BY <1>3, <2>1 DEF WaitersTold
  <2>6. SwitchedAlone(e)'
    BY <1>3, <2>1 DEF SwitchedAlone
  <2> QED  BY <2>2, <2>3, <2>4, <2>5, <2>6
<1>12. CASE LeaveReverse(t)
  <2>1. /\ pc[t] = "in" /\ Moves(t, "needreset") /\ dir' = Other(way[t])
        /\ UNCHANGED <<event, needReset>>
        /\ \A u \in Threads : way[u] = way[t] /\ pc[u] \in Queued \cup Across => u = t
        /\ \A u \in Threads : pc[u] \in Queued => way[u] # way[t] /\ pc[u] = "wait"
        /\ \E u \in Threads : way[u] = Other(way[t]) /\ pc[u] = "wait"
    BY <1>2, <1>12, GotoMoves, LastLeaves DEF LeaveReverse, sems
  <2>2. EventUsed(e)'
    BY <1>3, <1>4, <2>1 DEF EventUsed
  <2>3. SignalAwaited(e)'
    BY <1>1, <1>2, <1>3, <1>4, <2>1 DEF EventUsed, SignalAwaited, WaitersTold
  <2>4. ResetAlone(e)'
    BY <1>3, <2>1 DEF ResetAlone
  <2>5. WaitersTold(e)'
    BY <1>2, <1>3, <2>1 DEF WaitersTold
  <2>6. SwitchedAlone(e)'
    BY <1>3, <2>1 DEF SwitchedAlone
  <2> QED  BY <2>2, <2>3, <2>4, <2>5, <2>6
<1>13. CASE SetNeedReset(t)
  <2>1. /\ pc[t] = "needreset" /\ Moves(t, "signal") /\ UNCHANGED <<dir, event>>
        /\ needReset' = [needReset EXCEPT ![Other(way[t])] = TRUE]
    BY <1>2, <1>13, GotoMoves DEF SetNeedReset, word
  <2>2. EventUsed(e)'
    BY <1>3, <2>1 DEF EventUsed
  <2>3. SignalAwaited(e)'
    BY <1>1, <1>2, <1>3, <2>1 DEF SignalAwaited
  <2>4. ResetAlone(e)'
    BY <1>1, <1>3, <2>1 DEF SignalAwaited, ResetAlone
  <2>5. WaitersTold(e)'
    BY <1>1, <1>2, <1>3, <2>1 DEF WaitersTold
  <2>6. SwitchedAlone(e)'
    BY <1>3, <2>1 DEF SwitchedAlone
  <2> QED  BY <2>2, <2>3, <2>4, <2>5, <2>6
<1>14. CASE Signal(t)
  <2>1. /\ pc[t] = "signal" /\ Moves(t, "out") /\ UNCHANGED <<dir, needReset>>
        /\ event' = [event EXCEPT ![Other(way[t])] = TRUE]
    BY <1>2, <1>14, GotoMoves DEF Signal, word
  <2>2. EventUsed(e)'
    BY <1>1, <1>3, <2>1 DEF EventUsed, SignalAwaited
  <2>3. SignalAwaited(e)'
    BY <1>1, <1>3, <2>1 DEF SignalAwaited
  <2>4. ResetAlone(e)'
    BY <1>3, <2>1 DEF ResetAlone
  <2>5. WaitersTold(e)'
    BY <1>1, <1>3, <2>1 DEF SignalAwaited, WaitersTold
  <2>6. SwitchedAlone(e)'
    BY <1>3, <2>1 DEF SwitchedAlone
  <2> QED  BY <2>2, <2>3, <2>4, <2>5, <2>6
<1> QED  BY <1>5, <1>6, <1>7, <1>8, <1>9, <1>10, <1>11, <1>12, <1>13, <1>14 DEF Cross

-----------------------------------------------------------------------------
(* The theorems.                                                           *)

\* The word, the direction and the events tell who is where, whoever comes and
\* goes: the invariant that the others follow from.
THEOREM CrossInvCorrect == Spec => [](TypeOK /\ CrossInv)
<1>1. Init => TypeOK /\ CrossInv
  BY InitCross
<1>2. TypeOK /\ CrossInv /\ [Next]_vars => TypeOK' /\ CrossInv'
  <2> SUFFICES ASSUME TypeOK, CrossInv, [Next]_vars PROVE TypeOK' /\ CrossInv'
    OBVIOUS
  <2>1. CASE UNCHANGED vars
    <3>1. TypeOK'
      BY <2>1 DEF vars, TypeOK
    <3>2. CountsExact' /\ Flow'
      BY <2>1 DEF vars, CrossInv, CountsExact, Users, Waiters, Flow
    <3>3. EventInv'
      BY <2>1 DEF vars, CrossInv, EventInv, EventUsed, SignalAwaited, ResetAlone, WaitersTold,
                  SwitchedAlone, Waits, Resets, Signals
    <3> QED  BY <3>1, <3>2, <3>3 DEF CrossInv
  <2>2. ASSUME NEW t \in Threads, NEW d \in Dirs,
               EnterSimple(t, d) \/ EnterSwitch(t, d) \/ EnterWait(t, d)
        PROVE  TypeOK' /\ CrossInv'
    BY <2>2, ArriveFlows, ArriveEvents DEF CrossInv
  <2>3. ASSUME NEW t \in Threads, Cross(t) PROVE TypeOK' /\ CrossInv'
    BY <2>3, CrossFlows, CrossEvents DEF CrossInv
  <2> QED  BY <2>1, <2>2, <2>3 DEF Next, Arrive
<1> QED  BY <1>1, <1>2, PTL DEF Spec

\* Threads that are on the crossing at one time go the same way.
THEOREM ExclusionCorrect == Spec => []Exclusion
<1>1. CrossInv => Exclusion
  BY DEF CrossInv, Flow, Exclusion
<1> QED  BY <1>1, CrossInvCorrect, PTL

\* No Assert of rtSemXRoadsEnter and rtSemXRoadsLeave fails.
THEOREM AssertionsCorrect == Spec => []Assertions
<1>1. TypeOK /\ CrossInv => Assertions
  <2> SUFFICES ASSUME TypeOK, CrossInv PROVE Assertions
    OBVIOUS
  <2>1. \A d \in Dirs : waiting[d] <= count[d]
    BY CountsTell DEF CrossInv
  <2>2. ASSUME NEW t \in Threads
        PROVE  /\ pc[t] = "in" => dir = way[t] /\ count[way[t]] > 0
               /\ pc[t] = "leavequeue" => waiting[way[t]] > 0
               /\ pc[t] = "switched"  => ~needReset[way[t]]
               /\ pc[t] = "needreset" => ~needReset[Other(way[t])]
               /\ pc[t] = "woken"     => needReset[way[t]] /\ dir = way[t]
    <3>1. way[t] \in Dirs /\ Other(way[t]) \in Dirs /\ Other(way[t]) # way[t]
      BY TwoDirs DEF TypeOK
    <3>2. /\ pc[t] = "in" => t \in Users(way[t])
          /\ pc[t] = "leavequeue" => t \in Waiters(way[t])
      BY DEF Users, Waiters, Across, Queued
    <3>3. pc[t] = "in" => dir = way[t] /\ count[way[t]] > 0
      BY <3>1, <3>2, CountsTell DEF CrossInv, Flow, Across
    <3>4. pc[t] = "leavequeue" => waiting[way[t]] > 0
      BY <3>1, <3>2, CountsTell DEF CrossInv
    <3>5. pc[t] = "switched" => ~needReset[way[t]]
      BY <3>1 DEF CrossInv, EventInv, EventUsed, SignalAwaited, WaitersTold, SwitchedAlone
    <3>6. pc[t] = "needreset" => ~needReset[Other(way[t])]
      BY <3>1 DEF CrossInv, EventInv, SignalAwaited, Signals, Leaving
    <3>7. pc[t] = "woken" => needReset[way[t]] /\ dir = way[t]
      BY <3>1 DEF CrossInv, EventInv, EventUsed, WaitersTold, Waits, Queued
    <3> QED  BY <3>3, <3>4, <3>5, <3>6, <3>7
  <2> QED  BY <2>1, <2>2 DEF Assertions
<1> QED  BY <1>1, CrossInvCorrect, PTL

\* Who waits while the traffic flows its way has been signalled or will be.
THEOREM NoLostWakeupCorrect == Spec => []NoLostWakeup
<1>1. TypeOK /\ CrossInv => NoLostWakeup
  BY DEF TypeOK, CrossInv, EventInv, WaitersTold, Waits, Signals, Queued, NoLostWakeup
<1> QED  BY <1>1, CrossInvCorrect, PTL
=============================================================================
