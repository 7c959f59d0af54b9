--------------------------- MODULE TMTimer_proof ----------------------------
(***************************************************************************)
(* Proofs about TMTimer, for all timers, threads, times and calls: the     *)
(* types, the schedule list, and that the timers implement the alarm.      *)
(***************************************************************************)
EXTENDS TMTimer, FiniteSetTheorems, TLAPS

\* TypeOK is not inductive: a step about the timer of a call, a walk or a run
\* needs that there is one.
CallsTyped == /\ call \in [Threads -> ApiCalls]
              /\ \A th \in Threads : call[th].pc # "idle" => call[th].t \in Timers

WalkTyped == walk \in Walks /\ (walk.pc \notin {"none", "pop"} => walk.t \in Timers)

RunTyped == run \in Runs /\ (run.pc \in {"crit", "fire", "unlink", "callback"} => run.t \in Timers)

ListsTyped == sched \in Seq(Timers) /\ active \in Seq(Timers) /\ qexpire \in Times \cup {Never}

StateTyped == state \in [Timers -> States] /\ expire \in [Timers -> Times]

FlagsTyped == /\ ff \in BOOLEAN /\ running \in BOOLEAN
              /\ lock \in Threads \cup {NULL} /\ crit \in Threads \cup {NULL}
              /\ now \in Times /\ calls \in 0 .. MaxCalls

TypeInv == CallsTyped /\ WalkTyped /\ RunTyped /\ ListsTyped /\ StateTyped /\ FlagsTyped

\* The states that the code computes from another one are states.
LEMMA StateTypes ==
    ASSUME NEW s \in States
    PROVE  /\ OffList(s) \in States /\ SetTarget(s) \in States
           /\ Published(s) \in States /\ StopTarget(s) \in States
           /\ Delivered(s) \in States
           /\ Handler(s) \in {"unlink", "settle", "postpone", "pop"}
BY DEF OffList, SetTarget, Published, StopTarget, Delivered, Handler, States, Pending, Setting

LEMMA ZeroTime == 0 \in Times /\ Never \notin Times
BY BoundsAssumption DEF Times, Never

\* Initially every variable has its type.
LEMMA InitType == Init => TypeInv
<1> SUFFICES ASSUME Init PROVE TypeInv
  OBVIOUS
<1>1. /\ state \in [Timers -> States] /\ expire \in [Timers -> Times]
  BY ZeroTime DEF Init, States
<1>2. Idle \in ApiCalls /\ NoWalk \in Walks /\ NoRun \in Runs
  BY ZeroTime DEF Idle, NoWalk, NoRun, ApiCalls, Walks, Runs, CallPcs, WalkPcs, RunPcs, States,
     cRetries
<1>3. call \in [Threads -> ApiCalls] /\ walk \in Walks /\ run \in Runs
  BY <1>2 DEF Init
<1>4. sched \in Seq(Timers) /\ active \in Seq(Timers) /\ qexpire = Never
  BY DEF Init
<1>5. calls \in 0 .. MaxCalls /\ now \in Times
  BY ZeroTime, BoundsAssumption DEF Init
<1>6. /\ ff \in BOOLEAN /\ running \in BOOLEAN
      /\ lock \in Threads \cup {NULL} /\ crit \in Threads \cup {NULL}
  BY DEF Init
<1>7. CallsTyped /\ WalkTyped /\ RunTyped
  BY <1>3 DEF Init, CallsTyped, WalkTyped, RunTyped, Idle, NoWalk, NoRun
<1> QED  BY <1>1, <1>4, <1>5, <1>6, <1>7 DEF TypeInv, ListsTyped, StateTyped, FlagsTyped

\* Linking and unlinking keep the active list a sequence of timers and the
\* cached expire time a time or INT64_MAX.
LEMMA AheadBounded ==
    ASSUME TypeInv, NEW e \in Times
    PROVE  Cardinality(Ahead(e)) \in 0 .. Len(active)
<1>1. Len(active) \in Nat
  BY DEF TypeInv, ListsTyped, StateTyped
<1>2. IsFiniteSet(1 .. Len(active)) /\ Cardinality(1 .. Len(active)) = Len(active)
  <2>1. \A m \in Nat : IF 1 > m THEN m = 0 ELSE m - 1 + 1 = m
    OBVIOUS
  <2>2. \A m \in Nat : IsFiniteSet(1 .. m) /\ Cardinality(1 .. m) = IF 1 > m THEN 0 ELSE m - 1 + 1
    BY FS_Interval
  <2> QED  BY <1>1, <2>1, <2>2
<1>3. Ahead(e) \subseteq 1 .. Len(active)
  BY DEF Ahead
<1>4. IsFiniteSet(Ahead(e)) /\ Cardinality(Ahead(e)) <= Len(active)
  BY <1>2, <1>3, FS_Subset
<1>5. Cardinality(Ahead(e)) \in Nat
  BY <1>4, FS_CardinalityType
<1> QED  BY <1>1, <1>4, <1>5

LEMMA LinkActiveType ==
    ASSUME TypeInv, NEW t \in Timers, NEW e \in Times, LinkActive(t, e)
    PROVE  active' \in Seq(Timers) /\ qexpire' \in Times \cup {Never}
<1> DEFINE n == Cardinality(Ahead(e))
<1>1. n \in 0 .. Len(active)
  BY AheadBounded
<1>2. /\ active' = SubSeq(active, 1, n) \o <<t>> \o SubSeq(active, n + 1, Len(active))
      /\ qexpire' = IF n = 0 THEN e ELSE qexpire
  BY DEF LinkActive
<1> HIDE DEF n
<1>3. active \in Seq(Timers) /\ qexpire \in Times \cup {Never}
  BY DEF TypeInv, ListsTyped, StateTyped
<1>4. SubSeq(active, 1, n) \in Seq(Timers) /\ SubSeq(active, n + 1, Len(active)) \in Seq(Timers)
  BY <1>1, <1>3
<1>5. <<t>> \in Seq(Timers)
  OBVIOUS
<1> QED  BY <1>2, <1>3, <1>4, <1>5

LEMMA WithoutType ==
    ASSUME TypeInv, NEW t \in Timers
    PROVE  Without(t) \in Seq(Timers)
<1>1. active \in Seq(Timers)
  BY DEF TypeInv, ListsTyped, StateTyped
<1>2. CASE ~Linked(t)
  BY <1>2 DEF Without
<1>3. CASE Linked(t)
  <2>1. Place(t) \in 1 .. Len(active)
    BY <1>3 DEF Linked, Place
  <2>2. /\ SubSeq(active, 1, Place(t) - 1) \in Seq(Timers)
        /\ SubSeq(active, Place(t) + 1, Len(active)) \in Seq(Timers)
    BY <1>1, <2>1
  <2> QED  BY <1>3, <2>2 DEF Without
<1> QED  BY <1>2, <1>3

LEMMA UnlinkActiveType ==
    ASSUME TypeInv, NEW t \in Timers, UnlinkActive(t)
    PROVE  active' \in Seq(Timers) /\ qexpire' \in Times \cup {Never}
<1>1. Without(t) \in Seq(Timers)
  BY WithoutType
<1>2. Without(t) # <<>> => Head(Without(t)) \in Timers
  BY <1>1
<1>3. expire \in [Timers -> Times] /\ qexpire \in Times \cup {Never}
  BY DEF TypeInv, ListsTyped, StateTyped
<1> QED  BY <1>1, <1>2, <1>3 DEF UnlinkActive

-----------------------------------------------------------------------------
\* What the parts of a step do to the types.
LEMMA GotoType ==
    ASSUME TypeInv, NEW th \in Threads, NEW label \in CallPcs,
           call[th].pc # "idle", Goto(th, label)
    PROVE  CallsTyped'
BY DEF TypeInv, CallsTyped, Goto, ApiCalls

LEMMA IdleType == Idle \in ApiCalls
BY ZeroTime DEF Idle, ApiCalls, CallPcs, States

LEMMA ReturnType ==
    ASSUME TypeInv, NEW th \in Threads, Return(th)
    PROVE  CallsTyped' /\ crit' \in Threads \cup {NULL}
<1>1. call' = [call EXCEPT ![th] = Idle] /\ crit' \in {crit, NULL}
  BY DEF Return, CritAfter
<1>2. CallsTyped'
  BY <1>1, IdleType DEF TypeInv, CallsTyped, Idle
<1> QED  BY <1>1, <1>2 DEF TypeInv, FlagsTyped

LEMMA NoWalkType ==
    /\ NoWalk \in Walks /\ NoWalk.pc = "none"
    /\ \A s \in Seq(Timers) :
          /\ [NoWalk EXCEPT !.pc = "pop", !.todo = s] \in Walks
          /\ [NoWalk EXCEPT !.pc = "pop", !.todo = s].pc = "pop"
<1>1. "FREE" \in States /\ 0 \in 0 .. cRetries /\ {"none", "pop"} \subseteq WalkPcs
  BY DEF States, cRetries, WalkPcs
<1>2. <<>> \in Seq(Timers)
  OBVIOUS
<1>3. NoWalk \in Walks /\ NoWalk.pc = "none"
  BY <1>1, <1>2 DEF NoWalk, Walks
<1>4. ASSUME NEW s \in Seq(Timers)
      PROVE  /\ [NoWalk EXCEPT !.pc = "pop", !.todo = s] \in Walks
             /\ [NoWalk EXCEPT !.pc = "pop", !.todo = s].pc = "pop"
  BY <1>1, <1>3 DEF Walks
<1> QED  BY <1>3, <1>4

LEMMA TakeScheduleType ==
    ASSUME TypeInv, TakeSchedule
    PROVE  WalkTyped' /\ sched' \in Seq(Timers)
<1>1. walk' \in Walks /\ walk'.pc = "pop" /\ sched' = <<>>
  BY NoWalkType DEF TakeSchedule, TypeInv, ListsTyped
<1> QED  BY <1>1 DEF WalkTyped

LEMMA NoWalkTyped ==
    ASSUME walk' = NoWalk
    PROVE  WalkTyped'
BY NoWalkType DEF WalkTyped

LEMMA WalkOnType ==
    ASSUME TypeInv, NEW label \in WalkPcs, walk.t \in Timers, WalkOn(label)
    PROVE  WalkTyped'
BY DEF TypeInv, WalkTyped, WalkOn, Walks

LEMMA RunOnType ==
    ASSUME TypeInv, NEW label \in RunPcs, RunOn(label),
           label \in {"crit", "fire", "unlink", "callback"} => run.t \in Timers
    PROVE  RunTyped'
BY DEF TypeInv, RunTyped, RunOn, Runs

LEMMA SetStateType ==
    ASSUME TypeInv, NEW t \in Timers, NEW s \in States, state' = [state EXCEPT ![t] = s]
    PROVE  state' \in [Timers -> States]
BY DEF TypeInv, StateTyped

LEMMA LockAfterType ==
    ASSUME TypeInv, NEW th \in Threads, lock' = LockAfter(th)
    PROVE  lock' \in Threads \cup {NULL}
BY DEF LockAfter

LEMMA LinkScheduleType ==
    ASSUME TypeInv, NEW t \in Timers, LinkSchedule(t)
    PROVE  sched' \in Seq(Timers)
<1>1. sched \in Seq(Timers) /\ <<t>> \in Seq(Timers)
  BY DEF TypeInv, ListsTyped
<1> QED  BY <1>1 DEF LinkSchedule

-----------------------------------------------------------------------------
\* The steps of tmTimerQueueSchedule keep the types.
LEMMA RetryType ==
    ASSUME TypeInv, walk.t \in Timers, Retry
    PROVE  WalkTyped'
<1>1. walk.tries \in 0 .. 2 /\ walk \in Walks
  BY DEF TypeInv, WalkTyped, Walks, cRetries
<1>2. CASE walk.tries > 0
  <2>1. walk.tries - 1 \in 0 .. 2
    BY <1>1, <1>2
  <2>2. ASSUME NEW n \in 0 .. 2, walk' = [walk EXCEPT !.pc = "read", !.tries = n]
        PROVE  WalkTyped'
    BY <1>1, <2>2 DEF WalkTyped, Walks, WalkPcs, cRetries
  <2> QED  BY <1>2, <2>1, <2>2 DEF Retry
<1>3. CASE ~(walk.tries > 0)
  BY <1>1, <1>3 DEF Retry, WalkTyped, Walks, WalkPcs, cRetries
<1> QED  BY <1>2, <1>3

LEMMA WalkOldType ==
    ASSUME TypeInv, walk.t \in Timers, NEW label \in WalkPcs, NEW s \in States,
           walk' = [walk EXCEPT !.pc = label, !.old = s]
    PROVE  WalkTyped'
BY DEF TypeInv, WalkTyped, Walks

LEMMA WalkKeepsType == ASSUME TypeInv, Walk PROVE TypeInv'
<1>1. UNCHANGED <<expire, ff, running, lock, crit, now, call, run, calls>>
  BY DEF Walk
<1>2. CallsTyped' /\ RunTyped' /\ FlagsTyped' /\ expire' \in [Timers -> Times]
  BY <1>1 DEF TypeInv, CallsTyped, RunTyped, FlagsTyped, StateTyped
<1>3. /\ state \in [Timers -> States] /\ ListsTyped
      /\ walk \in Walks
      /\ walk.pc \notin {"none", "pop"} => walk.t \in Timers
  BY DEF TypeInv, StateTyped, WalkTyped
<1>4. WalkTyped' /\ ListsTyped' /\ state' \in [Timers -> States]
  <2>1. CASE WalkPop
    <3>1. walk.todo \in Seq(Timers) /\ walk.todo # <<>>
      BY <1>3, <2>1 DEF WalkPop, Walks
    <3>2. Head(walk.todo) \in Timers /\ Tail(walk.todo) \in Seq(Timers)
      BY <3>1
    <3>3. state[Head(walk.todo)] \in States
      BY <1>3, <3>2
    <3>4. Handler(state[Head(walk.todo)]) \in WalkPcs
      BY <3>3, StateTypes DEF WalkPcs
    <3>5. walk' \in Walks /\ walk'.t \in Timers
      BY <2>1, <3>2, <3>3, <3>4 DEF WalkPop, Walks, cRetries
    <3> QED  BY <1>3, <2>1, <3>5 DEF WalkPop, WalkTyped, ListsTyped, queue
  <2>2. CASE WalkReread
    <3>1. walk.t \in Timers /\ state[walk.t] \in States
      BY <1>3, <2>2 DEF WalkReread
    <3>2. Handler(state[walk.t]) \in WalkPcs
      BY <3>1, StateTypes DEF WalkPcs
    <3>3. WalkTyped'
      BY <2>2, <3>1, <3>2, WalkOldType DEF WalkReread
    <3> QED  BY <1>3, <2>2, <3>3 DEF WalkReread, ListsTyped, queue
  <2>3. CASE WalkUnlink
    <3>1. walk.t \in Timers /\ walk.old \in States /\ sched' \in Seq(Timers)
      BY <1>3, <2>3 DEF WalkUnlink, Walks, ListsTyped
    <3>2. OffList(walk.old) \in States
      BY <3>1, StateTypes
    <3>3. CASE /\ Cas(walk.t, walk.old, OffList(walk.old))
               /\ UnlinkActive(walk.t)
               /\ walk' = [walk EXCEPT !.pc = "settle", !.old = OffList(walk.old)]
      <4>1. active' \in Seq(Timers) /\ qexpire' \in Times \cup {Never}
        BY <3>1, <3>3, UnlinkActiveType
      <4>2. state' \in [Timers -> States]
        BY <3>1, <3>2, <3>3, SetStateType DEF Cas
      <4>3. WalkTyped'
        BY <3>1, <3>2, <3>3, WalkOldType DEF WalkPcs
      <4> QED  BY <3>1, <4>1, <4>2, <4>3 DEF ListsTyped
    <3>4. CASE Retry /\ UNCHANGED <<state, active, qexpire>>
      BY <1>3, <3>1, <3>4, RetryType DEF ListsTyped
    <3> QED  BY <2>3, <3>3, <3>4 DEF WalkUnlink
  <2>4. CASE WalkSettle
    <3>1. walk.t \in Timers
      BY <1>3, <2>4 DEF WalkSettle
    <3>2. ListsTyped'
      BY <1>3, <2>4 DEF WalkSettle, ListsTyped, queue
    <3>3. CASE Cas(walk.t, walk.old, "ACTIVE") /\ WalkOn("insert")
      BY <3>1, <3>2, <3>3, SetStateType, WalkOnType DEF Cas, States, WalkPcs
    <3>4. CASE Cas(walk.t, walk.old, "STOPPED") /\ WalkOn("pop")
      BY <3>1, <3>2, <3>4, SetStateType, WalkOnType DEF Cas, States, WalkPcs
    <3>5. CASE Retry /\ UNCHANGED state
      BY <1>3, <3>1, <3>2, <3>5, RetryType
    <3> QED  BY <2>4, <3>3, <3>4, <3>5 DEF WalkSettle
  <2>5. CASE WalkInsert
    <3>1. walk.t \in Timers /\ expire[walk.t] \in Times
      BY <1>3, <2>5 DEF WalkInsert, TypeInv, StateTyped
    <3>2. active' \in Seq(Timers) /\ qexpire' \in Times \cup {Never}
      BY <2>5, <3>1, LinkActiveType DEF WalkInsert
    <3>3. WalkTyped'
      BY <2>5, <3>1, WalkOnType DEF WalkInsert, WalkPcs
    <3> QED  BY <1>3, <2>5, <3>2, <3>3 DEF WalkInsert, ListsTyped
  <2>6. CASE WalkPostpone
    <3>1. walk.t \in Timers
      BY <1>3, <2>6 DEF WalkPostpone
    <3>2. sched' \in Seq(Timers)
      BY <2>6, <3>1, LinkScheduleType DEF WalkPostpone
    <3>3. WalkTyped'
      BY <2>6, <3>1, WalkOnType DEF WalkPostpone, WalkPcs
    <3> QED  BY <1>3, <2>6, <3>2, <3>3 DEF WalkPostpone, ListsTyped
  <2> QED  BY <2>1, <2>2, <2>3, <2>4, <2>5, <2>6 DEF Walk
<1> QED  BY <1>2, <1>4 DEF TypeInv, StateTyped

-----------------------------------------------------------------------------
\* The calls of the API keep the types.
LEMMA NewCallType ==
    ASSUME TypeInv, NEW th \in Threads, NEW c \in ApiCalls, c.t \in Timers,
           call' = [call EXCEPT ![th] = c]
    PROVE  CallsTyped'
BY DEF TypeInv, CallsTyped

LEMMA MarkType ==
    ASSUME TypeInv, NEW th \in Threads, NEW label \in CallPcs, NEW s \in States,
           call[th].pc # "idle", call' = [call EXCEPT ![th].pc = label, ![th].old = s]
    PROVE  CallsTyped'
<1> DEFINE c == [call[th] EXCEPT !.pc = label, !.old = s]
<1>1. call \in [Threads -> ApiCalls] /\ call[th].t \in Timers
  BY DEF TypeInv, CallsTyped
<1>2. c \in ApiCalls /\ c.t \in Timers
  BY <1>1 DEF ApiCalls
<1>3. call' = [call EXCEPT ![th] = c]
  BY <1>1
<1> HIDE DEF c
<1> QED  BY <1>2, <1>3, NewCallType

LEMMA BeginType ==
    ASSUME TypeInv, NEW th \in Threads, NEW t \in Timers, Begin(th, t), CallsTyped'
    PROVE  TypeInv'
<1>1. /\ crit' \in {crit, th} /\ calls' = calls + 1 /\ calls < MaxCalls
      /\ UNCHANGED <<state, expire, queue, ff, running, lock, now, walk, run>>
  BY DEF Begin
<1>2. calls' \in 0 .. MaxCalls
  BY <1>1, BoundsAssumption DEF TypeInv, FlagsTyped
<1>3. FlagsTyped'
  BY <1>1, <1>2 DEF TypeInv, FlagsTyped
<1> QED  BY <1>1, <1>3 DEF TypeInv, WalkTyped, RunTyped, ListsTyped, StateTyped, queue

LEMMA ClientKeepsType ==
    ASSUME TypeInv, NEW th \in Threads, Client(th)
    PROVE  TypeInv'
<1>1. ASSUME NEW t \in Timers, NEW e \in Times, TMTimerSet(th, t, e)
      PROVE  TypeInv'
  <2> DEFINE c == [pc |-> IF Optimised(t) THEN "try" ELSE "cas",
                   op |-> "set", t |-> t, e |-> e, old |-> state[t]]
  <2>1. state[t] \in States
    BY DEF TypeInv, StateTyped
  <2>2. c \in ApiCalls /\ c.t \in Timers
    BY <2>1 DEF ApiCalls, CallPcs
  <2>3. call' = [call EXCEPT ![th] = c] /\ Begin(th, t)
    BY <1>1 DEF TMTimerSet
  <2> HIDE DEF c
  <2> QED  BY <2>2, <2>3, NewCallType, BeginType
<1>2. ASSUME NEW t \in Stops, TMTimerStop(th, t)
      PROVE  TypeInv'
  <2> DEFINE c == [Idle EXCEPT !.pc = "read", !.op = "stop", !.t = t]
  <2>1. t \in Timers
    BY TimersAssumption
  <2>2. c \in ApiCalls /\ c.t \in Timers
    BY <2>1, IdleType DEF ApiCalls, CallPcs
  <2>3. call' = [call EXCEPT ![th] = c] /\ Begin(th, t)
    BY <1>2 DEF TMTimerStop
  <2> HIDE DEF c
  <2> QED  BY <2>1, <2>2, <2>3, NewCallType, BeginType
<1>3. ASSUME NEW t \in Mortal, TMR3TimerDestroy(th, t)
      PROVE  TypeInv'
  <2> DEFINE c == [Idle EXCEPT !.pc = "destroy", !.op = "destroy", !.t = t]
  <2>1. t \in Timers
    BY TimersAssumption
  <2>2. c \in ApiCalls /\ c.t \in Timers
    BY <2>1, IdleType DEF ApiCalls, CallPcs
  <2>3. call' = [call EXCEPT ![th] = c] /\ Begin(th, t)
    BY <1>3 DEF TMR3TimerDestroy
  <2> HIDE DEF c
  <2> QED  BY <2>1, <2>2, <2>3, NewCallType, BeginType
<1> QED  BY <1>1, <1>2, <1>3 DEF Client

LEMMA CallKeepsType ==
    ASSUME TypeInv, NEW th \in Threads, CallStep(th)
    PROVE  TypeInv'
<1> DEFINE t == call[th].t
<1>1. /\ call[th] \in ApiCalls /\ call[th].old \in States /\ call[th].e \in Times
      /\ call[th].pc # "idle" => t \in Timers
  BY DEF TypeInv, CallsTyped, ApiCalls
<1>2. /\ UNCHANGED <<running, now, run, calls>>
      /\ running \in BOOLEAN /\ now \in Times /\ calls \in 0 .. MaxCalls
      /\ ff \in BOOLEAN /\ lock \in Threads \cup {NULL} /\ crit \in Threads \cup {NULL}
  BY DEF CallStep, TypeInv, FlagsTyped
<1>3. /\ state \in [Timers -> States] /\ expire \in [Timers -> Times]
      /\ sched \in Seq(Timers) /\ active \in Seq(Timers) /\ qexpire \in Times \cup {Never}
      /\ WalkTyped
  BY DEF TypeInv, StateTyped, ListsTyped
<1>4. RunTyped'
  BY <1>2 DEF TypeInv, RunTyped
<1> SUFFICES /\ CallsTyped' /\ WalkTyped'
             /\ state' \in [Timers -> States] /\ expire' \in [Timers -> Times]
             /\ sched' \in Seq(Timers) /\ active' \in Seq(Timers)
             /\ qexpire' \in Times \cup {Never}
             /\ ff' \in BOOLEAN
             /\ lock' \in Threads \cup {NULL} /\ crit' \in Threads \cup {NULL}
  BY <1>2, <1>4 DEF TypeInv, StateTyped, ListsTyped, FlagsTyped
<1>5. (UNCHANGED walk) => WalkTyped'
  BY <1>3 DEF WalkTyped
<1>6. CASE TryStart(th)
  <2>1. t \in Timers
    BY <1>1, <1>6 DEF TryStart
  <2>2. UNCHANGED <<expire, queue, ff, crit, walk>>
    BY <1>6 DEF TryStart
  <2>3. CASE Cas(t, call[th].old, "ACTIVE") /\ lock' = th /\ Goto(th, "start")
    BY <1>2, <1>3, <1>5, <1>6, <2>1, <2>2, <2>3, SetStateType, GotoType
       DEF Cas, States, CallPcs, TryStart, queue
  <2>4. CASE Goto(th, "cas") /\ UNCHANGED <<state, lock>>
    BY <1>2, <1>3, <1>5, <1>6, <2>2, <2>4, GotoType DEF CallPcs, TryStart, queue
  <2> QED  BY <1>6, <2>3, <2>4 DEF TryStart
<1>7. CASE StartExpire(th) \/ SetExpire(th)
  <2>1. t \in Timers /\ call[th].pc # "idle"
    BY <1>1, <1>7 DEF StartExpire, SetExpire
  <2>2. expire' = [expire EXCEPT ![t] = call[th].e] /\ UNCHANGED <<state, queue, ff, lock, crit, walk>>
    BY <1>7 DEF StartExpire, SetExpire
  <2>3. CallsTyped'
    BY <1>7, <2>1, GotoType DEF StartExpire, SetExpire, CallPcs
  <2> QED  BY <1>1, <1>2, <1>3, <1>5, <2>1, <2>2, <2>3 DEF queue
<1>8. CASE StartLink(th)
  <2>1. t \in Timers
    BY <1>1, <1>8 DEF StartLink
  <2>2. active' \in Seq(Timers) /\ qexpire' \in Times \cup {Never}
    BY <1>1, <1>8, <2>1, LinkActiveType DEF StartLink
  <2>3. lock' \in Threads \cup {NULL}
    BY <1>8, LockAfterType DEF StartLink
  <2>4. CallsTyped' /\ crit' \in Threads \cup {NULL}
    BY <1>8, ReturnType DEF StartLink
  <2> QED  BY <1>2, <1>3, <1>5, <1>8, <2>2, <2>3, <2>4 DEF StartLink
<1>9. CASE SetCas(th)
  <2>1. t \in Timers /\ SetTarget(state[t]) \in States
    BY <1>1, <1>3, <1>9, StateTypes DEF SetCas
  <2>2. state' \in [Timers -> States]
    BY <1>9, <2>1, SetStateType DEF SetCas
  <2>3. ASSUME NEW label \in CallPcs,
               call' = [call EXCEPT ![th].pc = label, ![th].old = SetTarget(state[t])]
        PROVE  CallsTyped'
    BY <1>9, <2>1, <2>3, MarkType DEF SetCas
  <2>4. CallsTyped'
    BY <1>9, <2>3 DEF SetCas, CallPcs
  <2> QED  BY <1>2, <1>3, <1>5, <1>9, <2>2, <2>4 DEF SetCas, queue
<1>10. CASE Link(th)
  <2>1. t \in Timers
    BY <1>1, <1>10 DEF Link
  <2>2. sched' \in Seq(Timers)
    BY <1>10, <2>1, LinkScheduleType DEF Link
  <2>3. CallsTyped'
    BY <1>10, GotoType DEF Link, CallPcs
  <2> QED  BY <1>2, <1>3, <1>5, <1>10, <2>2, <2>3 DEF Link
<1>11. CASE Publish(th)
  <2>1. t \in Timers /\ Published(call[th].old) \in States
    BY <1>1, <1>11, StateTypes DEF Publish
  <2>2. state' \in [Timers -> States]
    BY <1>11, <2>1, SetStateType DEF Publish
  <2>3. CallsTyped'
    BY <1>11, GotoType DEF Publish, CallPcs
  <2> QED  BY <1>2, <1>3, <1>5, <1>11, <2>2, <2>3 DEF Publish, queue
<1>12. CASE StopRead(th)
  <2>1. UNCHANGED <<state, expire, queue, ff, lock, walk>>
    BY <1>12 DEF StopRead
  <2>2. CASE Return(th)
    BY <1>2, <1>3, <1>5, <2>1, <2>2, ReturnType DEF queue
  <2>3. CASE call' = [call EXCEPT ![th].pc = "stop", ![th].old = state[t]] /\ UNCHANGED crit
    <3>1. t \in Timers /\ state[t] \in States
      BY <1>1, <1>3, <1>12 DEF StopRead
    <3>2. CallsTyped'
      BY <1>12, <2>3, <3>1, MarkType DEF StopRead, CallPcs
    <3> QED  BY <1>2, <1>3, <1>5, <2>1, <2>3, <3>2 DEF queue
  <2> QED  BY <1>12, <2>2, <2>3 DEF StopRead
<1>13. CASE StopCas(th) \/ StopFallThru(th)
  <2>1. t \in Timers /\ call[th].pc # "idle" /\ StopTarget(call[th].old) \in States
    BY <1>1, <1>13, StateTypes DEF StopCas, StopFallThru
  <2>2. UNCHANGED <<expire, queue, ff, lock, crit, walk>>
    BY <1>13 DEF StopCas, StopFallThru
  <2>3. state' \in [Timers -> States]
    <3>1. \/ UNCHANGED state
          \/ state' = [state EXCEPT ![t] = StopTarget(call[th].old)]
          \/ state' = [state EXCEPT ![t] = "PENDING_STOP"]
      BY <1>13 DEF StopCas, StopFallThru, Cas
    <3>2. "PENDING_STOP" \in States
      BY DEF States, Pending
    <3> QED  BY <1>3, <2>1, <3>1, <3>2, SetStateType
  <2>4. CallsTyped'
    <3>1. \E label \in CallPcs : Goto(th, label)
      BY <1>13 DEF StopCas, StopFallThru, CallPcs
    <3> QED  BY <2>1, <3>1, GotoType
  <2> QED  BY <1>2, <1>3, <1>5, <2>2, <2>3, <2>4 DEF queue
<1>14. CASE Schedule(th)
  <2>1. UNCHANGED <<state, expire, active, qexpire>>
    BY <1>14 DEF Schedule
  <2>2. CASE lock' = th /\ TakeSchedule /\ Goto(th, "walk") /\ UNCHANGED <<ff, crit>>
    BY <1>2, <1>3, <1>14, <2>1, <2>2, TakeScheduleType, GotoType DEF Schedule, CallPcs
  <2>3. CASE /\ ff' = (ff \/ Notifies(t))
             /\ Return(th)
             /\ UNCHANGED <<sched, lock, walk>>
    <3>1. ff' \in BOOLEAN
      BY <2>3 DEF Notifies
    <3> QED  BY <1>2, <1>3, <1>5, <2>1, <2>3, <3>1, ReturnType
  <2> QED  BY <1>14, <2>2, <2>3 DEF Schedule
<1>15. CASE Scheduled(th)
  BY <1>2, <1>3, <1>15, NoWalkTyped, LockAfterType, ReturnType DEF Scheduled, queue
<1>16. CASE Destroy(th)
  <2>1. t \in Timers /\ UNCHANGED <<expire, ff, crit>> /\ lock' = th
    BY <1>1, <1>16 DEF Destroy
  <2>2. state' \in [Timers -> States]
    BY <1>16, <2>1, SetStateType DEF Destroy, States
  <2>3. active' \in Seq(Timers) /\ qexpire' \in Times \cup {Never}
    BY <1>3, <1>16, <2>1, UnlinkActiveType DEF Destroy
  <2>4. WalkTyped' /\ sched' \in Seq(Timers)
    BY <1>3, <1>5, <1>16, TakeScheduleType DEF Destroy
  <2>5. CallsTyped'
    BY <1>16, GotoType DEF Destroy, CallPcs
  <2> QED  BY <1>2, <1>3, <2>1, <2>2, <2>3, <2>4, <2>5
<1>17. CASE Free(th)
  <2>1. t \in Timers
    BY <1>1, <1>17 DEF Free
  <2>2. state' \in [Timers -> States]
    BY <1>17, <2>1, SetStateType DEF Free, States
  <2> QED  BY <1>2, <1>3, <1>17, <2>2, NoWalkTyped, LockAfterType, ReturnType DEF Free, queue
<1> QED  BY <1>6, <1>7, <1>8, <1>9, <1>10, <1>11, <1>12, <1>13, <1>14, <1>15, <1>16, <1>17
         DEF CallStep

-----------------------------------------------------------------------------
\* The steps of TMR3TimerQueuesDo keep the types.
LEMMA RunLeaveType ==
    ASSUME TypeInv, RunLeave
    PROVE  RunTyped' /\ crit' \in Threads \cup {NULL}
<1>1. RunTyped'
  BY RunOnType DEF RunLeave, RunPcs
<1>2. crit' \in {crit, NULL}
  BY DEF RunLeave
<1> QED  BY <1>1, <1>2 DEF TypeInv, FlagsTyped

LEMMA NextOfType ==
    ASSUME TypeInv, NEW t \in Timers
    PROVE  NextOf(t) \in Timers \cup {NULL}
<1>1. CASE Linked(t) /\ Place(t) < Len(active)
  <2>1. Place(t) \in 1 .. Len(active)
    BY <1>1 DEF Linked, Place
  <2>2. Place(t) + 1 \in 1 .. Len(active) /\ active \in Seq(Timers)
    BY <1>1, <2>1 DEF TypeInv, ListsTyped
  <2>3. active[Place(t) + 1] \in Timers
    BY <2>2
  <2> QED  BY <1>1, <2>3 DEF NextOf
<1>2. CASE ~(Linked(t) /\ Place(t) < Len(active))
  BY <1>2 DEF NextOf
<1> QED  BY <1>1, <1>2

LEMMA RunKeepsType ==
    ASSUME TypeInv, RunStep \/ StartRun
    PROVE  TypeInv'
<1>1. UNCHANGED <<expire, now, call, calls>>
  BY DEF RunStep, StartRun
<1>2. CallsTyped' /\ expire' \in [Timers -> Times] /\ now' \in Times /\ calls' \in 0 .. MaxCalls
  BY <1>1 DEF TypeInv, CallsTyped, StateTyped, FlagsTyped
<1>3. /\ state \in [Timers -> States]
      /\ sched \in Seq(Timers) /\ active \in Seq(Timers) /\ qexpire \in Times \cup {Never}
      /\ ff \in BOOLEAN /\ running \in BOOLEAN /\ now \in Times
      /\ lock \in Threads \cup {NULL} /\ crit \in Threads \cup {NULL}
      /\ WalkTyped /\ TimerCpu \in Threads
  BY ThreadsAssumption DEF TypeInv, StateTyped, ListsTyped, FlagsTyped
<1>4. /\ run \in Runs
      /\ run.pc \in {"crit", "fire", "unlink", "callback"} => run.t \in Timers
  BY DEF TypeInv, RunTyped
<1> SUFFICES /\ RunTyped' /\ WalkTyped'
             /\ state' \in [Timers -> States]
             /\ sched' \in Seq(Timers) /\ active' \in Seq(Timers)
             /\ qexpire' \in Times \cup {Never}
             /\ ff' \in BOOLEAN /\ running' \in BOOLEAN
             /\ lock' \in Threads \cup {NULL} /\ crit' \in Threads \cup {NULL}
  BY <1>2 DEF TypeInv, StateTyped, ListsTyped, FlagsTyped
<1>5. (UNCHANGED walk) => WalkTyped'
  BY <1>3 DEF WalkTyped
<1>6. NoRun \in Runs /\ NoRun.pc = "idle"
  BY ZeroTime DEF NoRun, Runs, RunPcs
<1>7. CASE StartRun
  BY <1>3, <1>5, <1>7, RunOnType DEF StartRun, RunQueues, RunPcs, queue
<1>8. CASE RunLock
  BY <1>3, <1>5, <1>8, RunOnType DEF RunLock, RunPcs, queue
<1>9. CASE RunSchedule
  <2>1. RunTyped'
    BY <1>9, RunOnType DEF RunSchedule, RunPcs
  <2>2. WalkTyped' /\ sched' \in Seq(Timers)
    BY <1>3, <1>5, <1>9, TakeScheduleType DEF RunSchedule
  <2> QED  BY <1>3, <1>9, <2>1, <2>2 DEF RunSchedule
<1>10. CASE RunHead
  <2>1. ASSUME NEW u \in Timers \cup {NULL},
               run' = [NoRun EXCEPT !.pc = "loop", !.now = now, !.next = u]
        PROVE  RunTyped'
    BY <1>3, <1>6, <2>1 DEF Runs, RunPcs, RunTyped
  <2>2. (IF active = <<>> THEN NULL ELSE Head(active)) \in Timers \cup {NULL}
    BY <1>3
  <2>3. RunTyped'
    BY <1>10, <2>1, <2>2 DEF RunHead
  <2> QED  BY <1>3, <1>10, <2>3, NoWalkTyped DEF RunHead, queue
<1>11. CASE RunNext
  <2>1. run.next \in Timers
    BY <1>4, <1>11 DEF RunNext, Expired, Runs
  <2>2. NextOf(run.next) \in Timers \cup {NULL}
    BY <2>1, NextOfType
  <2>3. RunTyped'
    BY <1>4, <1>11, <2>1, <2>2 DEF RunNext, Runs, RunPcs, RunTyped
  <2> QED  BY <1>3, <1>5, <1>11, <2>3 DEF RunNext, queue
<1>12. CASE RunDone
  BY <1>3, <1>5, <1>6, <1>12 DEF RunDone, RunTyped, queue
<1>13. CASE RunCrit
  <2>1. RunTyped'
    BY <1>4, <1>13, RunOnType DEF RunCrit, RunPcs
  <2> QED  BY <1>3, <1>5, <1>13, <2>1 DEF RunCrit, queue
<1>14. CASE RunFire
  <2>1. run.t \in Timers /\ UNCHANGED <<queue, ff, running, lock, walk>>
    BY <1>4, <1>14 DEF RunFire
  <2>2. CASE Cas(run.t, "ACTIVE", "EXPIRED_GET_UNLINK") /\ RunOn("unlink") /\ UNCHANGED crit
    <3>1. state' \in [Timers -> States]
      BY <2>1, <2>2, SetStateType DEF Cas, States
    <3>2. RunTyped'
      BY <2>1, <2>2, RunOnType DEF RunPcs
    <3> QED  BY <1>3, <1>5, <2>1, <2>2, <3>1, <3>2 DEF queue
  <2>3. CASE RunLeave /\ UNCHANGED state
    BY <1>3, <1>5, <2>1, <2>3, RunLeaveType DEF queue
  <2> QED  BY <1>14, <2>2, <2>3 DEF RunFire
<1>15. CASE RunUnlink
  <2>1. run.t \in Timers
    BY <1>4, <1>15 DEF RunUnlink
  <2>2. active' \in Seq(Timers) /\ qexpire' \in Times \cup {Never}
    BY <1>15, <2>1, UnlinkActiveType DEF RunUnlink
  <2>3. state' \in [Timers -> States]
    BY <1>15, <2>1, SetStateType DEF RunUnlink, States
  <2>4. RunTyped'
    BY <1>15, <2>1, RunOnType DEF RunUnlink, RunPcs
  <2> QED  BY <1>3, <1>5, <1>15, <2>2, <2>3, <2>4 DEF RunUnlink
<1>16. CASE RunReturn
  <2>1. run.t \in Timers /\ Delivered(state[run.t]) \in States
    BY <1>3, <1>4, <1>16, StateTypes DEF RunReturn
  <2>2. state' \in [Timers -> States]
    BY <1>16, <2>1, SetStateType DEF RunReturn
  <2> QED  BY <1>3, <1>5, <1>16, <2>2, RunLeaveType DEF RunReturn, queue
<1> QED  BY <1>7, <1>8, <1>9, <1>10, <1>11, <1>12, <1>13, <1>14, <1>15, <1>16 DEF RunStep

LEMMA StutterType == TypeInv /\ UNCHANGED vars => TypeInv'
BY DEF vars, TypeInv, CallsTyped, WalkTyped, RunTyped, ListsTyped, StateTyped, FlagsTyped

\* No step breaks the types.
LEMMA NextType == TypeInv /\ [Next]_vars => TypeInv'
<1> SUFFICES ASSUME TypeInv, [Next]_vars PROVE TypeInv'
  OBVIOUS
<1>1. CASE Tick \/ Poll
  <2>1. now' \in Times /\ ff' \in BOOLEAN
    <3>1. now \in 0 .. MaxTime /\ ff \in BOOLEAN
      BY DEF TypeInv, FlagsTyped, Times
    <3>2. CASE Tick
      <4>1. now' = now + 1 /\ now < MaxTime /\ ff' = ff
        BY <3>2 DEF Tick
      <4> QED  BY <3>1, <4>1, BoundsAssumption DEF Times
    <3>3. CASE Poll
      BY <3>1, <3>3 DEF Poll, Times
    <3> QED  BY <1>1, <3>2, <3>3
  <2>2. UNCHANGED <<state, expire, queue, running, lock, crit, call, walk, run, calls>>
    BY <1>1 DEF Tick, Poll
  <2> QED  BY <2>1, <2>2 DEF TypeInv, CallsTyped, WalkTyped, RunTyped, ListsTyped, StateTyped,
              FlagsTyped, queue
<1>2. CASE UNCHANGED vars
  BY <1>2, StutterType
<1> QED  BY <1>1, <1>2, WalkKeepsType, RunKeepsType, ClientKeepsType, CallKeepsType DEF Next

\* Every variable of the timer queue keeps its type: the states stay within
\* TMTIMERSTATE, the lists hold timers, the scheduler's retries are counted
\* down to 0 and not below.
THEOREM TypeCorrect == Spec => []TypeOK
<1>1. TypeInv => TypeOK
  BY DEF TypeInv, CallsTyped, WalkTyped, RunTyped, ListsTyped, StateTyped, FlagsTyped, TypeOK
<1> QED  BY InitType, NextType, <1>1, PTL DEF Spec

-----------------------------------------------------------------------------
(***************************************************************************)
(* A timer is on the schedule list at most once, and only while its state  *)
(* says so.                                                                *)
(*                                                                         *)
(* LinkedOnce is not inductive: it rests on who owns the TM lock, on what  *)
(* each call has read and changed so far, and on a timer being set by one  *)
(* thread at a time.                                                       *)
(***************************************************************************)
\* Who owns the TM lock.
LockPcs == {"start", "insert", "walk", "free"}

LockInv ==
    /\ \A th \in Threads : call[th].pc \in LockPcs => lock = th
    /\ RunOwnsLock => lock = TimerCpu
    /\ call[TimerCpu].pc # "idle" => run.pc \in {"idle", "callback"}

\* Who walks over the schedule list, and what it has read of a timer's state.
Walker == run.pc = "head" \/ \E th \in Threads : call[th].pc \in {"walk", "free"}

ReadInv ==
    /\ walk.pc = "unlink" => walk.old \in {"PENDING_RESCHEDULE", "PENDING_STOP"}
    /\ walk.pc = "settle" => walk.old \in {"PENDING_SCHEDULE", "PENDING_STOP_SCHEDULE"}

WalkInv ==
    /\ walk.pc = "none" => walk.todo = <<>>
    /\ walk.pc # "none" => Walker
    /\ ReadInv

\* What each call is about.
CallOk(pc, op, old) ==
    /\ pc \in {"try", "start", "insert", "cas", "expire", "publish"} => op = "set"
    /\ pc \in {"read", "stop", "stop2"} => op = "stop"
    /\ op = "destroy" <=> pc \in {"destroy", "free"}
    /\ pc = "try" => old \in {"EXPIRED_DELIVER", "STOPPED"}
    /\ pc \in {"stop", "stop2"} => old \in {"PENDING_SCHEDULE", "PENDING_RESCHEDULE", "ACTIVE"}
    /\ pc = "stop2" => old = "PENDING_SCHEDULE"

CallInv == \A th \in Threads : CallOk(call[th].pc, call[th].op, call[th].old)

\* Nobody else calls about a timer that is being destroyed.
AloneInv ==
    \A th \in Threads : call[th].op = "destroy" => \A u \in Threads \ {th} : call[u].t # call[th].t

\* A timer in a SET_EXPIRE state is being set by exactly one thread.
Sets(th) == call[th].pc \in {"expire", "publish"} \/ (call[th].pc = "link" /\ call[th].op = "set")

SetInv ==
    /\ \A th \in Threads : Sets(th) => /\ call[th].old \in Setting
                                        /\ state[call[th].t] = call[th].old
    /\ \A th, u \in Threads : Sets(th) /\ Sets(u) /\ call[th].t = call[u].t => th = u
    /\ \A t \in Timers : state[t] \in Setting => \E th \in Threads : Sets(th) /\ call[th].t = t

RunInv == run.pc = "unlink" => state[run.t] = "EXPIRED_GET_UNLINK"

\* A destroyed timer is on no list but the one being walked over.
DestroyOk(th) ==
    /\ call[th].pc = "destroy" => state[call[th].t] \notin {"DESTROY", "FREE"}
    /\ call[th].pc = "free" => /\ state[call[th].t] = "DESTROY"
                               /\ ~Pushed(call[th].t) /\ ~Settling(call[th].t)

DestroyInv == \A th \in Threads : DestroyOk(th)

LinkInv == LockInv /\ WalkInv /\ CallInv /\ AloneInv /\ SetInv /\ RunInv /\ DestroyInv /\ LinkedOnce

-----------------------------------------------------------------------------
\* The TM lock.
LEMMA LockCall ==
    ASSUME TypeInv, LockInv, NEW th \in Threads, CallStep(th)
    PROVE  LockInv'
<1>1. call \in [Threads -> ApiCalls] /\ TimerCpu \in Threads /\ NULL \notin Threads /\ UNCHANGED run
  BY ThreadsAssumption DEF TypeInv, CallsTyped, CallStep
<1> USE <1>1 DEF LockInv, LockPcs, RunOwnsLock, ApiCalls, Goto, Return, MayLock, LockAfter, Idle
<1>2. CASE TryStart(th)
  BY <1>2 DEF TryStart
<1>3. CASE StartExpire(th)
  BY <1>3 DEF StartExpire
<1>4. CASE StartLink(th)
  BY <1>4 DEF StartLink
<1>5. CASE SetCas(th)
  BY <1>5 DEF SetCas
<1>6. CASE Link(th)
  BY <1>6 DEF Link
<1>7. CASE Publish(th) \/ SetExpire(th)
  BY <1>7 DEF Publish, SetExpire
<1>8. CASE StopRead(th)
  BY <1>8 DEF StopRead
<1>9. CASE StopCas(th) \/ StopFallThru(th)
  BY <1>9 DEF StopCas, StopFallThru
<1>10. CASE Schedule(th)
  BY <1>10 DEF Schedule
<1>11. CASE Scheduled(th)
  BY <1>11 DEF Scheduled
<1>12. CASE Destroy(th)
  BY <1>12 DEF Destroy
<1>13. CASE Free(th)
  BY <1>13 DEF Free
<1> QED  BY <1>2, <1>3, <1>4, <1>5, <1>6, <1>7, <1>8, <1>9, <1>10, <1>11, <1>12, <1>13
         DEF CallStep

\* What a client begins: a call of its own, about one timer.
Begun(th, t, c) ==
    /\ Begin(th, t) /\ c.t = t /\ call' = [call EXCEPT ![th] = c]
    /\ CallOk(c.pc, c.op, c.old) /\ c.pc \in {"try", "cas", "read", "destroy"}
    /\ c.op = "destroy" => \A u \in Threads : call[u].t # t

LEMMA ClientBegins ==
    ASSUME TypeInv, NEW th \in Threads, Client(th)
    PROVE  \E t \in Timers, c \in ApiCalls : Begun(th, t, c)
<1>1. state \in [Timers -> States]
  BY DEF TypeInv, StateTyped
<1>2. ASSUME NEW t \in Timers, NEW e \in Times, TMTimerSet(th, t, e)
      PROVE  \E c \in ApiCalls : Begun(th, t, c)
  <2> DEFINE c == [pc |-> IF Optimised(t) THEN "try" ELSE "cas",
                   op |-> "set", t |-> t, e |-> e, old |-> state[t]]
  <2>1. c \in ApiCalls
    BY <1>1 DEF ApiCalls, CallPcs
  <2>2. CallOk(c.pc, c.op, c.old) /\ c.op = "set" /\ c.pc \in {"try", "cas"}
    BY DEF CallOk, Optimised
  <2>3. Begin(th, t) /\ c.t = t /\ call' = [call EXCEPT ![th] = c]
    BY <1>2 DEF TMTimerSet
  <2> QED  BY <2>1, <2>2, <2>3 DEF Begun
<1>3. ASSUME NEW t \in Timers, TMTimerStop(th, t)
      PROVE  \E c \in ApiCalls : Begun(th, t, c)
  <2> DEFINE c == [Idle EXCEPT !.pc = "read", !.op = "stop", !.t = t]
  <2>1. c \in ApiCalls /\ c.pc = "read" /\ c.op = "stop" /\ c.t = t
    BY IdleType DEF ApiCalls, CallPcs
  <2>2. CallOk(c.pc, c.op, c.old)
    BY <2>1 DEF CallOk
  <2> QED  BY <1>3, <2>1, <2>2 DEF Begun, TMTimerStop
<1>4. ASSUME NEW t \in Timers, TMR3TimerDestroy(th, t)
      PROVE  \E c \in ApiCalls : Begun(th, t, c)
  <2> DEFINE c == [Idle EXCEPT !.pc = "destroy", !.op = "destroy", !.t = t]
  <2>1. c \in ApiCalls /\ c.pc = "destroy" /\ c.op = "destroy" /\ c.t = t
    BY IdleType DEF ApiCalls, CallPcs
  <2>2. CallOk(c.pc, c.op, c.old)
    BY <2>1 DEF CallOk
  <2> QED  BY <1>4, <2>1, <2>2 DEF Begun, TMR3TimerDestroy
<1> QED  BY <1>2, <1>3, <1>4, TimersAssumption DEF Client

LEMMA LockClient ==
    ASSUME TypeInv, LockInv, NEW th \in Threads, Client(th)
    PROVE  LockInv'
<1>1. PICK t \in Timers, c \in ApiCalls : Begun(th, t, c)
  BY ClientBegins
<1>2. call \in [Threads -> ApiCalls] /\ TimerCpu \in Threads
  BY ThreadsAssumption DEF TypeInv, CallsTyped
<1> QED  BY <1>1, <1>2 DEF Begun, Begin, LockInv, LockPcs, RunOwnsLock

\* While the queue run owns the lock the timer EMT makes no call but from a
\* callback.
LEMMA LockRun ==
    ASSUME TypeInv, LockInv, RunStep \/ StartRun
    PROVE  LockInv'
<1>1. call \in [Threads -> ApiCalls] /\ TimerCpu \in Threads /\ NULL \notin Threads
      /\ UNCHANGED call
  BY ThreadsAssumption DEF TypeInv, CallsTyped, RunStep, StartRun
<1>2. run \in Runs /\ NoRun.pc = "idle"
  BY DEF TypeInv, RunTyped, NoRun
<1> USE <1>1, <1>2 DEF LockInv, LockPcs, RunOwnsLock, Runs, RunOn, RunLeave
<1>3. CASE StartRun
  BY <1>3 DEF StartRun, RunQueues
<1>4. CASE RunLock
  BY <1>4 DEF RunLock
<1>5. CASE RunSchedule
  BY <1>5 DEF RunSchedule
<1>6. CASE RunHead
  <2>1. NoRun \in Runs
    BY ZeroTime DEF NoRun, RunPcs
  <2> QED  BY <1>6, <2>1 DEF RunHead
<1>7. CASE RunNext
  BY <1>7 DEF RunNext
<1>8. CASE RunDone
  BY <1>8 DEF RunDone
<1>9. CASE RunCrit
  BY <1>9 DEF RunCrit
<1>10. CASE RunFire
  BY <1>10 DEF RunFire
<1>11. CASE RunUnlink
  BY <1>11 DEF RunUnlink
<1>12. CASE RunReturn
  BY <1>12 DEF RunReturn
<1> QED  BY <1>3, <1>4, <1>5, <1>6, <1>7, <1>8, <1>9, <1>10, <1>11, <1>12 DEF RunStep

LEMMA LockNext == TypeInv /\ LockInv /\ [Next]_vars => LockInv'
<1> SUFFICES ASSUME TypeInv, LockInv, [Next]_vars PROVE LockInv'
  OBVIOUS
<1>1. CASE Tick \/ Poll \/ Walk \/ UNCHANGED vars
  BY <1>1 DEF Tick, Poll, Walk, vars, LockInv, RunOwnsLock
<1> QED  BY <1>1, LockCall, LockClient, LockRun DEF Next

-----------------------------------------------------------------------------
\* A call in progress stays the same call until it returns.
Follows(d, c) == d = Idle \/ (d.op = c.op /\ d.t = c.t)

LEMMA CallCall ==
    ASSUME TypeInv, CallInv, NEW th \in Threads, CallStep(th)
    PROVE  CallInv' /\ \A u \in Threads : Follows(call'[u], call[u])
<1> DEFINE Kept == \A u \in Threads : Follows(call'[u], call[u])
<1>1. call \in [Threads -> ApiCalls] /\ CallOk(Idle.pc, Idle.op, Idle.old)
  BY DEF TypeInv, CallsTyped, CallOk, Idle
<1>2. ASSUME Return(th) PROVE CallInv' /\ Kept
  BY <1>1, <1>2 DEF Return, CallInv, Follows
<1>3. ASSUME NEW label, Goto(th, label), CallOk(label, call[th].op, call[th].old)
      PROVE  CallInv' /\ Kept
  BY <1>1, <1>3 DEF Goto, CallInv, ApiCalls, Follows
<1>4. CallOk(call[th].pc, call[th].op, call[th].old) /\ call[th] \in ApiCalls
  BY <1>1 DEF CallInv
<1>5. ASSUME NEW label, NEW s, call' = [call EXCEPT ![th].pc = label, ![th].old = s],
             CallOk(label, call[th].op, s)
      PROVE  CallInv' /\ Kept
  BY <1>1, <1>5 DEF CallInv, ApiCalls, Follows
<1>6. CASE TryStart(th)
  BY <1>3, <1>4, <1>6 DEF TryStart, CallOk, ApiCalls
<1>7. CASE StartExpire(th)
  BY <1>3, <1>4, <1>7 DEF StartExpire, CallOk, ApiCalls
<1>8. CASE StartLink(th) \/ Scheduled(th) \/ Free(th)
  BY <1>2, <1>8 DEF StartLink, Scheduled, Free
<1>9. CASE SetCas(th)
  <2>1. PICK label \in {"link", "expire"}, s \in {SetTarget(state[call[th].t])} :
          call' = [call EXCEPT ![th].pc = label, ![th].old = s]
    BY <1>9 DEF SetCas
  <2>2. CallOk(label, call[th].op, s)
    BY <1>4, <1>9 DEF SetCas, CallOk, ApiCalls
  <2> QED  BY <1>5, <2>1, <2>2
<1>10. CASE Link(th)
  BY <1>3, <1>4, <1>10 DEF Link, CallOk, ApiCalls
<1>11. CASE Publish(th) \/ SetExpire(th)
  BY <1>3, <1>4, <1>11 DEF Publish, SetExpire, CallOk, ApiCalls
<1>12. CASE StopRead(th)
  <2>1. CASE Return(th)
    BY <1>2, <2>1
  <2>2. CASE state[call[th].t] \in {"PENDING_SCHEDULE", "PENDING_RESCHEDULE", "ACTIVE"}
             /\ call' = [call EXCEPT ![th].pc = "stop", ![th].old = state[call[th].t]]
    <3>1. CallOk("stop", call[th].op, state[call[th].t])
      BY <1>4, <1>12, <2>2 DEF StopRead, CallOk, ApiCalls
    <3> QED  BY <1>5, <2>2, <3>1
  <2> QED  BY <1>12, <2>1, <2>2 DEF StopRead
<1>13. CASE StopCas(th) \/ StopFallThru(th)
  BY <1>3, <1>4, <1>13 DEF StopCas, StopFallThru, CallOk, ApiCalls
<1>14. CASE Schedule(th)
  BY <1>2, <1>3, <1>4, <1>14 DEF Schedule, CallOk, ApiCalls
<1>15. CASE Destroy(th)
  BY <1>3, <1>4, <1>15 DEF Destroy, CallOk, ApiCalls
<1> QED
  BY <1>6, <1>7, <1>8, <1>9, <1>10, <1>11, <1>12, <1>13, <1>14, <1>15 DEF CallStep

LEMMA CallNext == TypeInv /\ CallInv /\ [Next]_vars => CallInv'
<1> SUFFICES ASSUME TypeInv, CallInv, [Next]_vars PROVE CallInv'
  OBVIOUS
<1>1. CASE UNCHANGED call
  BY <1>1 DEF CallInv
<1>2. ASSUME NEW th \in Threads, Client(th) PROVE CallInv'
  <2>1. PICK t \in Timers, c \in ApiCalls : Begun(th, t, c)
    BY <1>2, ClientBegins
  <2>2. call \in [Threads -> ApiCalls]
    BY DEF TypeInv, CallsTyped
  <2> QED  BY <2>1, <2>2 DEF Begun, CallInv
<1>3. Tick \/ Poll \/ Walk \/ StartRun \/ RunStep \/ UNCHANGED vars => UNCHANGED call
  BY DEF Tick, Poll, Walk, StartRun, RunStep, vars
<1> QED  BY <1>1, <1>2, <1>3, CallCall DEF Next

\* Nobody begins a call about a timer that is being destroyed, and a timer is
\* destroyed only when there is none.
LEMMA AloneNext == TypeInv /\ CallInv /\ AloneInv /\ [Next]_vars => AloneInv'
<1> SUFFICES ASSUME TypeInv, CallInv, AloneInv, [Next]_vars PROVE AloneInv'
  OBVIOUS
<1>1. CASE UNCHANGED call
  BY <1>1 DEF AloneInv
<1>2. ASSUME NEW th \in Threads, Client(th) PROVE AloneInv'
  <2>1. PICK t \in Timers, c \in ApiCalls : Begun(th, t, c)
    BY <1>2, ClientBegins
  <2>2. call \in [Threads -> ApiCalls]
    BY DEF TypeInv, CallsTyped
  <2> QED  BY <2>1, <2>2 DEF Begun, Begin, AloneInv
<1>3. ASSUME NEW th \in Threads, CallStep(th) PROVE AloneInv'
  <2>1. \A u \in Threads : Follows(call'[u], call[u])
    BY <1>3, CallCall
  <2>2. Idle.t = NULL /\ Idle.op = "none" /\ Idle.pc = "idle"
    BY DEF Idle
  <2>3. \A u \in Threads : call[u].op = "destroy" => call[u].t # NULL
    BY TimersAssumption DEF TypeInv, CallsTyped, CallInv, CallOk
  <2> QED  BY <2>1, <2>2, <2>3 DEF Follows, AloneInv
<1>4. Tick \/ Poll \/ Walk \/ StartRun \/ RunStep \/ UNCHANGED vars => UNCHANGED call
  BY DEF Tick, Poll, Walk, StartRun, RunStep, vars
<1> QED  BY <1>1, <1>2, <1>3, <1>4 DEF Next

-----------------------------------------------------------------------------
\* The walk over the schedule list.
LEMMA NoneWalks ==
    ASSUME TypeInv, LockInv, WalkInv,
           \/ run.pc = "schedule"
           \/ \E th \in Threads : MayLock(th) /\ call[th].pc \in {"schedule", "destroy"}
    PROVE  walk.pc = "none" /\ walk.todo = <<>>
<1>1. CASE run.pc = "schedule"
  <2>1. lock = TimerCpu /\ call[TimerCpu].pc = "idle"
    BY <1>1 DEF LockInv, RunOwnsLock
  <2>2. \A u \in Threads : call[u].pc \notin {"walk", "free"}
    BY <2>1 DEF LockInv, LockPcs
  <2> QED  BY <1>1, <2>2 DEF WalkInv, Walker
<1>2. ASSUME NEW th \in Threads, MayLock(th), call[th].pc \in {"schedule", "destroy"}
      PROVE  walk.pc = "none"
  <2>1. \A u \in Threads : call[u].pc \notin {"walk", "free"}
    BY <1>2, ThreadsAssumption DEF LockInv, LockPcs, MayLock
  <2>2. run.pc # "head"
    BY <1>2, ThreadsAssumption DEF LockInv, RunOwnsLock, MayLock
  <2> QED  BY <2>1, <2>2 DEF WalkInv, Walker
<1> QED  BY <1>1, <1>2 DEF WalkInv

LEMMA HandlerStates ==
    ASSUME NEW s
    PROVE  /\ Handler(s) = "unlink" <=> s \in {"PENDING_RESCHEDULE", "PENDING_STOP"}
           /\ Handler(s) = "settle" <=> s \in {"PENDING_SCHEDULE", "PENDING_STOP_SCHEDULE"}
           /\ Handler(s) = "postpone" <=> s \in Setting
           /\ Handler(s) # "pop" => s \in Pending
           /\ Handler(s) \in {"unlink", "settle", "postpone", "pop"}
BY DEF Handler, Pending, Setting

LEMMA WalkWalk ==
    ASSUME TypeInv, WalkInv, Walk
    PROVE  WalkInv'
<1>1. walk \in Walks /\ UNCHANGED <<call, run>>
  BY DEF TypeInv, WalkTyped, Walk
<1>2. walk.pc # "none"
  BY DEF Walk, WalkPop, WalkReread, WalkUnlink, WalkSettle, WalkInsert, WalkPostpone
<1>3. Walker'
  BY <1>1, <1>2 DEF WalkInv, Walker
<1> SUFFICES walk'.pc # "none" /\ ReadInv'
  BY <1>3 DEF WalkInv
<1> USE <1>1 DEF ReadInv, Walks, WalkOn
<1>4. CASE WalkPop
  <2> DEFINE t == Head(walk.todo)
  <2>1. walk'.pc = Handler(state[t]) /\ walk'.old = state[t]
    BY <1>4 DEF WalkPop
  <2> QED  BY <2>1, HandlerStates
<1>5. CASE WalkReread
  <2>1. walk'.pc = Handler(state[walk.t]) /\ walk'.old = state[walk.t]
    BY <1>5 DEF WalkReread
  <2> QED  BY <2>1, HandlerStates
<1>6. Retry => walk'.pc \in {"read", "pop"}
  BY DEF Retry
<1>7. CASE WalkUnlink
  <2>1. CASE walk' = [walk EXCEPT !.pc = "settle", !.old = OffList(walk.old)]
    BY <2>1 DEF OffList
  <2> QED  BY <1>6, <1>7, <2>1 DEF WalkUnlink
<1>8. CASE WalkSettle
  BY <1>6, <1>8 DEF WalkSettle
<1>9. CASE WalkInsert \/ WalkPostpone
  BY <1>9 DEF WalkInsert, WalkPostpone
<1> QED  BY <1>4, <1>5, <1>7, <1>8, <1>9 DEF Walk

\* A step that leaves walk alone leaves it to the same walker; a step that
\* takes the list or ends the walk leaves nothing unread.
LEMMA WalkSame ==
    ASSUME WalkInv, UNCHANGED walk, Walker => Walker'
    PROVE  WalkInv'
BY DEF WalkInv, ReadInv

LEMMA WalkTaken ==
    ASSUME TakeSchedule, Walker'
    PROVE  WalkInv'
<1>1. walk'.pc = "pop"
  BY DEF TakeSchedule, NoWalk
<1> QED  BY <1>1 DEF WalkInv, ReadInv

LEMMA WalkOver ==
    ASSUME walk' = NoWalk
    PROVE  WalkInv'
BY DEF WalkInv, ReadInv, NoWalk

LEMMA WalkCall ==
    ASSUME TypeInv, WalkInv, NEW th \in Threads, CallStep(th)
    PROVE  WalkInv'
<1>1. call \in [Threads -> ApiCalls] /\ UNCHANGED run
  BY DEF TypeInv, CallsTyped, CallStep
<1>2. ASSUME UNCHANGED walk, call[th].pc \notin {"walk", "free"},
             \A u \in Threads \ {th} : call'[u] = call[u]
      PROVE  WalkInv'
  BY <1>1, <1>2, WalkSame DEF Walker
<1> USE <1>1 DEF Goto, Return
<1>3. CASE TryStart(th) \/ StartExpire(th) \/ StartLink(th)
  BY <1>2, <1>3 DEF TryStart, StartExpire, StartLink
<1>4. CASE SetCas(th) \/ Link(th) \/ SetExpire(th) \/ Publish(th)
  BY <1>2, <1>4 DEF SetCas, Link, SetExpire, Publish
<1>5. CASE StopRead(th) \/ StopCas(th) \/ StopFallThru(th)
  BY <1>2, <1>5 DEF StopRead, StopCas, StopFallThru
<1>6. CASE Schedule(th)
  <2>1. CASE TakeSchedule /\ Goto(th, "walk")
    <3>1. call'[th].pc = "walk"
      BY <2>1 DEF ApiCalls
    <3> QED  BY <2>1, <3>1, WalkTaken DEF Walker
  <2> QED  BY <1>2, <1>6, <2>1 DEF Schedule
<1>7. CASE Scheduled(th) \/ Free(th)
  BY <1>7, WalkOver DEF Scheduled, Free
<1>8. CASE Destroy(th)
  <2>1. call'[th].pc = "free"
    BY <1>8 DEF Destroy, ApiCalls
  <2> QED  BY <1>2, <1>8, <2>1, WalkTaken DEF Destroy, Walker
<1> QED  BY <1>3, <1>4, <1>5, <1>6, <1>7, <1>8 DEF CallStep

LEMMA WalkNext == TypeInv /\ WalkInv /\ [Next]_vars => WalkInv'
<1> SUFFICES ASSUME TypeInv, WalkInv, [Next]_vars PROVE WalkInv'
  OBVIOUS
<1>1. CASE Tick \/ Poll \/ UNCHANGED vars
  BY <1>1, WalkSame DEF Tick, Poll, vars, Walker
<1>2. ASSUME NEW th \in Threads, Client(th) PROVE WalkInv'
  <2>1. PICK t \in Timers, c \in ApiCalls : Begun(th, t, c)
    BY <1>2, ClientBegins
  <2>2. call \in [Threads -> ApiCalls]
    BY DEF TypeInv, CallsTyped
  <2> QED  BY <2>1, <2>2, WalkSame DEF Begun, Begin, Walker
<1>3. ASSUME RunStep \/ StartRun PROVE WalkInv'
  <2>1. run \in Runs /\ UNCHANGED call
    BY <1>3 DEF TypeInv, RunTyped, RunStep, StartRun
  <2>2. CASE run.pc # "head" /\ UNCHANGED walk
    BY <2>1, <2>2, WalkSame DEF Walker
  <2>3. CASE RunSchedule
    <3>1. run'.pc = "head"
      BY <2>1, <2>3 DEF RunSchedule, RunOn, Runs
    <3> QED  BY <2>2, <2>3, <3>1, WalkTaken DEF RunSchedule, Walker
  <2>4. CASE RunHead
    BY <2>4, WalkOver DEF RunHead
  <2> QED  BY <1>3, <2>2, <2>3, <2>4 DEF RunStep, StartRun, RunQueues, RunLock, RunNext, RunDone,
              RunCrit, RunFire, RunUnlink, RunReturn
<1> QED  BY <1>1, <1>2, <1>3, WalkWalk, WalkCall DEF Next

-----------------------------------------------------------------------------
\* The timers being set.
Alone(th) == call[th].pc \in {"destroy", "free"}

LEMMA NotSetWhenAlone ==
    ASSUME TypeInv, CallInv, AloneInv, SetInv, NEW th \in Threads, Alone(th)
    PROVE  state[call[th].t] \notin Setting
<1>1. call[th].t \in Timers /\ call[th].op = "destroy" /\ ~Sets(th)
  BY DEF Alone, TypeInv, CallsTyped, CallInv, CallOk, Sets
<1> QED  BY <1>1 DEF AloneInv, SetInv

LEMMA SetSame ==
    ASSUME TypeInv, SetInv,
           \A u \in Threads : Sets(u)' <=> Sets(u),
           \A u \in Threads : Sets(u) => call'[u].t = call[u].t /\ call'[u].old = call[u].old,
           \A t \in Timers : \/ state'[t] = state[t]
                             \/ state[t] \notin Setting /\ state'[t] \notin Setting
    PROVE  SetInv'
<1>1. \A u \in Threads : Sets(u) => call[u].t \in Timers
  BY DEF TypeInv, CallsTyped, Sets
<1>2. \A u \in Threads : Sets(u)' => call'[u].old \in Setting /\ state'[call'[u].t] = call'[u].old
  BY <1>1 DEF SetInv
<1>3. \A u, v \in Threads : Sets(u)' /\ Sets(v)' /\ call'[u].t = call'[v].t => u = v
  BY DEF SetInv
<1>4. ASSUME NEW t \in Timers, state'[t] \in Setting
      PROVE  \E u \in Threads : Sets(u)' /\ call'[u].t = t
  <2>1. PICK u \in Threads : Sets(u) /\ call[u].t = t
    BY <1>4 DEF SetInv
  <2> QED  BY <2>1
<1> QED  BY <1>2, <1>3, <1>4 DEF SetInv

\* One timer changes its state.
LEMMA SetOther ==
    ASSUME TypeInv, SetInv, NEW t \in Timers, NEW s,
           state' = [state EXCEPT ![t] = s], state[t] \notin Setting, s \notin Setting,
           \A u \in Threads : Sets(u)' <=> Sets(u),
           \A u \in Threads : Sets(u) => call'[u].t = call[u].t /\ call'[u].old = call[u].old
    PROVE  SetInv'
<1>1. \A v \in Timers : \/ state'[v] = state[v]
                        \/ state[v] \notin Setting /\ state'[v] \notin Setting
  BY DEF TypeInv, StateTyped
<1> QED  BY <1>1, SetSame

LEMMA SetOnly ==
    ASSUME TypeInv, SetInv, NEW t \in Timers, NEW s, UNCHANGED call,
           state' = [state EXCEPT ![t] = s], state[t] \notin Setting, s \notin Setting
    PROVE  SetInv'
<1>1. \A u \in Threads : Sets(u)' <=> Sets(u)
  BY DEF Sets
<1> QED  BY <1>1, SetOther

LEMMA SetWalk ==
    ASSUME TypeInv, WalkInv, SetInv, Walk
    PROVE  SetInv'
<1>1. UNCHANGED call
  BY DEF Walk
<1>2. \A u \in Threads : Sets(u)' <=> Sets(u)
  BY <1>1 DEF Sets
<1>3. CASE UNCHANGED state
  BY <1>1, <1>2, <1>3, SetSame
<1>4. walk.t \in Timers \/ walk.pc \in {"none", "pop"}
  BY DEF TypeInv, WalkTyped
<1>5. CASE WalkUnlink /\ ~UNCHANGED state
  <2>1. /\ walk.old \in {"PENDING_RESCHEDULE", "PENDING_STOP"}
        /\ Cas(walk.t, walk.old, OffList(walk.old))
    BY <1>5 DEF WalkUnlink, WalkInv, ReadInv
  <2>2. walk.old \notin Setting /\ OffList(walk.old) \notin Setting
    BY <2>1 DEF OffList, Setting
  <2>3. walk.t \in Timers
    BY <1>4, <1>5 DEF WalkUnlink
  <2> QED  BY <1>1, <2>1, <2>2, <2>3, SetOnly DEF Cas
<1>6. CASE WalkSettle /\ ~UNCHANGED state
  <2>1. /\ walk.old \in {"PENDING_SCHEDULE", "PENDING_STOP_SCHEDULE"}
        /\ Cas(walk.t, walk.old, "ACTIVE") \/ Cas(walk.t, walk.old, "STOPPED")
    BY <1>6 DEF WalkSettle, WalkInv, ReadInv
  <2>2. walk.old \notin Setting /\ "ACTIVE" \notin Setting /\ "STOPPED" \notin Setting
    BY <2>1 DEF Setting
  <2>3. walk.t \in Timers
    BY <1>4, <1>6 DEF WalkSettle
  <2> QED  BY <1>1, <2>1, <2>2, <2>3, SetOnly DEF Cas
<1> QED  BY <1>3, <1>5, <1>6 DEF Walk, WalkPop, WalkReread, WalkInsert, WalkPostpone

LEMMA SetRun ==
    ASSUME TypeInv, SetInv, RunInv, RunStep \/ StartRun
    PROVE  SetInv'
<1>1. UNCHANGED call
  BY DEF RunStep, StartRun
<1>2. \A u \in Threads : Sets(u)' <=> Sets(u)
  BY <1>1 DEF Sets
<1>3. CASE UNCHANGED state
  BY <1>1, <1>2, <1>3, SetSame
<1>4. run.pc \in {"fire", "unlink", "callback"} => run.t \in Timers
  BY DEF TypeInv, RunTyped
<1> DEFINE Out == {"ACTIVE", "EXPIRED_GET_UNLINK", "EXPIRED_DELIVER", "STOPPED"}
<1>5. \A s \in Out : s \notin Setting
  BY DEF Setting
<1>6. ASSUME run.t \in Timers, NEW s \in Out, state[run.t] \in Out,
             state' = [state EXCEPT ![run.t] = s]
      PROVE  SetInv'
  BY <1>1, <1>5, <1>6, SetOnly
<1>7. CASE RunFire /\ ~UNCHANGED state
  BY <1>4, <1>6, <1>7 DEF RunFire, Cas
<1>8. CASE RunUnlink
  BY <1>4, <1>6, <1>8 DEF RunUnlink, RunInv
<1>9. CASE RunReturn
  <2>1. CASE state[run.t] = "EXPIRED_DELIVER"
    BY <1>4, <1>6, <1>9, <2>1 DEF RunReturn, Delivered
  <2>2. CASE state[run.t] # "EXPIRED_DELIVER"
    BY <1>3, <1>9, <2>2 DEF RunReturn, Delivered, TypeInv, StateTyped
  <2> QED  BY <2>1, <2>2
<1> QED  BY <1>3, <1>7, <1>8, <1>9 DEF RunStep, StartRun, RunQueues, RunLock, RunSchedule,
            RunHead, RunNext, RunDone, RunCrit

\* SetCas makes the one setter of a timer that has none; Publish ends it.
LEMMA SetBegins ==
    ASSUME TypeInv, CallInv, SetInv, NEW th \in Threads, SetCas(th)
    PROVE  SetInv'
<1> DEFINE t == call[th].t
<1>1. /\ state \in [Timers -> States] /\ call \in [Threads -> ApiCalls]
      /\ \A u \in Threads : call[u].pc # "idle" => call[u].t \in Timers
  BY DEF TypeInv, StateTyped, CallsTyped
<1>2. t \in Timers /\ state[t] \notin Setting /\ call[th].op = "set" /\ ~Sets(th)
  BY <1>1 DEF SetCas, Unscheduled, Setting, Sets, CallInv, CallOk
<1>3. PICK label \in {"link", "expire"}, s \in Setting :
        /\ call' = [call EXCEPT ![th].pc = label, ![th].old = s]
        /\ state' = [state EXCEPT ![t] = s]
  BY DEF SetCas, SetTarget, Setting
<1>4. /\ Sets(th)' /\ call'[th].t = t /\ call'[th].old = s
      /\ \A u \in Threads \ {th} : call'[u] = call[u] /\ (Sets(u)' <=> Sets(u))
  BY <1>1, <1>2, <1>3 DEF Sets, ApiCalls
<1>5. \A u \in Threads : Sets(u) => call[u].t # t /\ call[u].t \in Timers
  BY <1>1, <1>2 DEF SetInv, Sets
<1>6. \A u \in Threads : Sets(u)' => call'[u].old \in Setting /\ state'[call'[u].t] = call'[u].old
  BY <1>1, <1>2, <1>3, <1>4, <1>5 DEF SetInv
<1>7. \A u, v \in Threads : Sets(u)' /\ Sets(v)' /\ call'[u].t = call'[v].t => u = v
  BY <1>4, <1>5 DEF SetInv
<1>8. ASSUME NEW v \in Timers, state'[v] \in Setting
      PROVE  \E u \in Threads : Sets(u)' /\ call'[u].t = v
  <2>1. CASE v = t
    BY <1>4, <2>1
  <2>2. CASE v # t
    <3>1. PICK u \in Threads : Sets(u) /\ call[u].t = v
      BY <1>1, <1>3, <1>8, <2>2 DEF SetInv
    <3> QED  BY <1>2, <1>4, <3>1
  <2> QED  BY <2>1, <2>2
<1> QED  BY <1>6, <1>7, <1>8 DEF SetInv

LEMMA SetEnds ==
    ASSUME TypeInv, SetInv, NEW th \in Threads, Publish(th)
    PROVE  SetInv'
<1> DEFINE t == call[th].t
<1>1. /\ state \in [Timers -> States] /\ call \in [Threads -> ApiCalls]
      /\ \A u \in Threads : call[u].pc # "idle" => call[u].t \in Timers
  BY DEF TypeInv, StateTyped, CallsTyped
<1>2. t \in Timers /\ Sets(th) /\ Published(call[th].old) \notin Setting
  BY <1>1 DEF Publish, Sets, Published, Setting
<1>3. /\ ~Sets(th)'
      /\ \A u \in Threads \ {th} : call'[u] = call[u] /\ (Sets(u)' <=> Sets(u))
  BY <1>1 DEF Publish, Goto, Sets, ApiCalls
<1>4. state' = [state EXCEPT ![t] = Published(call[th].old)]
  BY DEF Publish
<1>5. \A u \in Threads \ {th} : Sets(u) => call[u].t # t /\ call[u].t \in Timers
  BY <1>1, <1>2 DEF SetInv, Sets
<1>6. \A u \in Threads : Sets(u)' => call'[u].old \in Setting /\ state'[call'[u].t] = call'[u].old
  BY <1>1, <1>3, <1>4, <1>5 DEF SetInv
<1>7. \A u, v \in Threads : Sets(u)' /\ Sets(v)' /\ call'[u].t = call'[v].t => u = v
  BY <1>3 DEF SetInv
<1>8. ASSUME NEW v \in Timers, state'[v] \in Setting
      PROVE  \E u \in Threads : Sets(u)' /\ call'[u].t = v
  <2>1. v # t
    BY <1>1, <1>2, <1>4, <1>8
  <2>2. PICK u \in Threads : Sets(u) /\ call[u].t = v
    BY <1>1, <1>4, <1>8, <2>1 DEF SetInv
  <2> QED  BY <1>3, <2>1, <2>2
<1> QED  BY <1>6, <1>7, <1>8 DEF SetInv

\* A call that is not setting a timer before the step nor after it.
LEMMA SetCallElse ==
    ASSUME TypeInv, SetInv, NEW th \in Threads, ~Sets(th), ~Sets(th)',
           \A u \in Threads \ {th} : call'[u] = call[u],
           \/ UNCHANGED state
           \/ \E t \in Timers, s \in States \ Setting :
                state[t] \notin Setting /\ state' = [state EXCEPT ![t] = s]
    PROVE  SetInv'
<1>1. \A u \in Threads : Sets(u)' <=> Sets(u)
  BY DEF Sets
<1>2. \A u \in Threads : Sets(u) => call'[u].t = call[u].t /\ call'[u].old = call[u].old
  OBVIOUS
<1>3. \A t \in Timers : \/ state'[t] = state[t]
                        \/ state[t] \notin Setting /\ state'[t] \notin Setting
  BY DEF TypeInv, StateTyped
<1> QED  BY <1>1, <1>2, <1>3, SetSame

LEMMA SetCall ==
    ASSUME TypeInv, CallInv, AloneInv, SetInv, NEW th \in Threads, CallStep(th)
    PROVE  SetInv'
<1> DEFINE t == call[th].t
<1>1. /\ state \in [Timers -> States] /\ call \in [Threads -> ApiCalls]
      /\ call[th].pc # "idle" => t \in Timers
  BY DEF TypeInv, StateTyped, CallsTyped
<1>2. CallOk(call[th].pc, call[th].op, call[th].old)
  BY DEF CallInv
<1>3. ASSUME NEW label, Goto(th, label)
      PROVE  /\ call'[th].pc = label /\ call'[th].op = call[th].op
             /\ call'[th].t = t /\ call'[th].old = call[th].old
             /\ \A u \in Threads \ {th} : call'[u] = call[u]
  BY <1>1, <1>3 DEF Goto, ApiCalls
<1>4. ASSUME Return(th)
      PROVE  call'[th].pc = "idle" /\ \A u \in Threads \ {th} : call'[u] = call[u]
  BY <1>1, <1>4 DEF Return, Idle
<1>5. ASSUME NEW s \in States \ Setting, Cas(t, call[th].old, s), t \in Timers,
             call[th].old \notin Setting
      PROVE  \E v \in Timers, w \in States \ Setting :
                state[v] \notin Setting /\ state' = [state EXCEPT ![v] = w]
  BY <1>5 DEF Cas
<1>6. {"ACTIVE", "PENDING_STOP", "PENDING_STOP_SCHEDULE", "DESTROY", "FREE"}
        \subseteq States \ Setting
  BY DEF States, Pending, Setting
<1>7. CASE TryStart(th)
  <2>1. ~Sets(th) /\ ~Sets(th)' /\ \A u \in Threads \ {th} : call'[u] = call[u]
    BY <1>3, <1>7 DEF TryStart, Sets
  <2>2. call[th].old \notin Setting /\ t \in Timers
    BY <1>1, <1>2, <1>7 DEF TryStart, CallOk, Setting
  <2> QED  BY <1>5, <1>6, <1>7, <2>1, <2>2, SetCallElse DEF TryStart
<1>8. CASE StartExpire(th)
  BY <1>3, <1>8, SetCallElse DEF StartExpire, Sets
<1>9. CASE StartLink(th)
  BY <1>4, <1>9, SetCallElse DEF StartLink, Sets
<1>10. CASE Link(th) \/ SetExpire(th)
  <2>1. UNCHANGED state /\ \E label : Goto(th, label)
    BY <1>10 DEF Link, SetExpire
  <2>2. Sets(th)' <=> Sets(th)
    BY <1>3, <1>10 DEF Link, SetExpire, Sets
  <2>3. \A u \in Threads : Sets(u)' <=> Sets(u)
    BY <1>3, <2>1, <2>2 DEF Sets
  <2> QED  BY <1>3, <2>1, <2>3, SetSame
<1>11. CASE StopRead(th)
  <2>1. call[th].pc = "read" /\ UNCHANGED state
    BY <1>11 DEF StopRead
  <2>2. call'[th].pc \in {"idle", "stop"} /\ \A u \in Threads \ {th} : call'[u] = call[u]
    BY <1>1, <1>4, <1>11 DEF StopRead, ApiCalls
  <2> QED  BY <2>1, <2>2, SetCallElse DEF Sets
<1>12. CASE StopCas(th) \/ StopFallThru(th)
  <2>1. call[th].op = "stop" /\ call[th].old \notin Setting /\ t \in Timers
    BY <1>1, <1>2, <1>12 DEF StopCas, StopFallThru, CallOk, Setting
  <2>2. PICK label \in {"link", "schedule", "stop2", "read"} : Goto(th, label)
    BY <1>12 DEF StopCas, StopFallThru
  <2>3. ~Sets(th) /\ ~Sets(th)' /\ \A u \in Threads \ {th} : call'[u] = call[u]
    BY <1>3, <1>12, <2>1, <2>2 DEF StopCas, StopFallThru, Sets
  <2>4. \/ UNCHANGED state
        \/ Cas(t, call[th].old, "PENDING_STOP") \/ Cas(t, call[th].old, "PENDING_STOP_SCHEDULE")
    BY <1>12 DEF StopCas, StopFallThru, StopTarget
  <2> QED  BY <1>5, <1>6, <2>1, <2>3, <2>4, SetCallElse
<1>13. CASE Schedule(th)
  BY <1>3, <1>4, <1>13, SetCallElse DEF Schedule, Sets
<1>14. CASE Scheduled(th)
  BY <1>4, <1>14, SetCallElse DEF Scheduled, Sets
<1>15. CASE Destroy(th) \/ Free(th)
  <2>1. state[t] \notin Setting /\ t \in Timers
    BY <1>1, <1>15, NotSetWhenAlone DEF Destroy, Free, Alone
  <2>2. ~Sets(th) /\ ~Sets(th)' /\ \A u \in Threads \ {th} : call'[u] = call[u]
    BY <1>3, <1>4, <1>15 DEF Destroy, Free, Sets
  <2>3. state' = [state EXCEPT ![t] = "DESTROY"] \/ state' = [state EXCEPT ![t] = "FREE"]
    BY <1>15 DEF Destroy, Free
  <2> QED  BY <1>6, <2>1, <2>2, <2>3, SetCallElse
<1> QED  BY <1>7, <1>8, <1>9, <1>10, <1>11, <1>12, <1>13, <1>14, <1>15, SetBegins, SetEnds
         DEF CallStep

LEMMA SetNext ==
    TypeInv /\ WalkInv /\ CallInv /\ AloneInv /\ SetInv /\ RunInv /\ [Next]_vars => SetInv'
<1> SUFFICES ASSUME TypeInv, WalkInv, CallInv, AloneInv, SetInv, RunInv, [Next]_vars
             PROVE  SetInv'
  OBVIOUS
<1>1. CASE Tick \/ Poll \/ UNCHANGED vars
  BY <1>1 DEF Tick, Poll, vars, SetInv, Sets
<1>2. ASSUME NEW th \in Threads, Client(th) PROVE SetInv'
  <2>1. PICK t \in Timers, c \in ApiCalls : Begun(th, t, c)
    BY <1>2, ClientBegins
  <2>2. call \in [Threads -> ApiCalls]
    BY DEF TypeInv, CallsTyped
  <2>3. ~Sets(th) /\ ~Sets(th)' /\ \A u \in Threads \ {th} : call'[u] = call[u]
    BY <2>1, <2>2 DEF Begun, Begin, Sets
  <2> QED  BY <2>1, <2>3, SetCallElse DEF Begun, Begin
<1> QED  BY <1>1, <1>2, SetWalk, SetRun, SetCall DEF Next

\* A timer whose run unlinks it stays EXPIRED_GET_UNLINK: everybody else
\* exchanges another state, or is the timer's only user and owns the lock.
LEMMA RunCall ==
    ASSUME TypeInv, LockInv, CallInv, SetInv, RunInv, NEW th \in Threads, CallStep(th)
    PROVE  RunInv'
<1> DEFINE t == call[th].t
<1>1. /\ state \in [Timers -> States] /\ UNCHANGED run
      /\ run.pc = "unlink" => run.t \in Timers
      /\ call[th].pc # "idle" => t \in Timers
  BY DEF TypeInv, StateTyped, RunTyped, CallsTyped, CallStep
<1>2. CallOk(call[th].pc, call[th].op, call[th].old)
  BY DEF CallInv
<1>3. ASSUME UNCHANGED state PROVE RunInv'
  BY <1>1, <1>3 DEF RunInv
<1>4. ASSUME NEW s, t \in Timers, state[t] # "EXPIRED_GET_UNLINK", state' = [state EXCEPT ![t] = s]
      PROVE  RunInv'
  BY <1>1, <1>4 DEF RunInv
<1>5. CASE TryStart(th)
  BY <1>1, <1>2, <1>3, <1>4, <1>5 DEF TryStart, Cas, CallOk
<1>6. CASE SetCas(th)
  BY <1>1, <1>4, <1>6 DEF SetCas, Unscheduled, Pending
<1>7. CASE Publish(th)
  <2>1. state[t] \in Setting
    BY <1>7 DEF Publish, SetInv, Sets
  <2> QED  BY <1>1, <1>4, <1>7, <2>1 DEF Publish, Setting
<1>8. CASE StopCas(th) \/ StopFallThru(th)
  BY <1>1, <1>2, <1>3, <1>4, <1>8 DEF StopCas, StopFallThru, Cas, CallOk
<1>9. CASE Destroy(th) \/ Free(th)
  <2>1. MayLock(th) /\ call[th].pc # "idle"
    BY <1>9 DEF Destroy, Free, MayLock, LockInv, LockPcs
  <2>2. run.pc # "unlink"
    BY <2>1, ThreadsAssumption DEF MayLock, LockInv, RunOwnsLock
  <2> QED  BY <1>1, <2>2 DEF RunInv
<1> QED  BY <1>3, <1>5, <1>6, <1>7, <1>8, <1>9 DEF CallStep, StartExpire, StartLink, Link,
            SetExpire, StopRead, Schedule, Scheduled

LEMMA RunNextInv ==
    TypeInv /\ LockInv /\ WalkInv /\ CallInv /\ SetInv /\ RunInv /\ [Next]_vars => RunInv'
<1> SUFFICES ASSUME TypeInv, LockInv, WalkInv, CallInv, SetInv, RunInv, [Next]_vars
             PROVE  RunInv'
  OBVIOUS
<1>1. /\ state \in [Timers -> States] /\ run \in Runs
      /\ run.pc \in {"fire", "unlink"} => run.t \in Timers
  BY DEF TypeInv, StateTyped, RunTyped
<1>2. CASE Tick \/ Poll \/ UNCHANGED vars \/ \E th \in Threads : Client(th)
  <2>1. UNCHANGED <<state, run>>
    BY <1>2 DEF Tick, Poll, vars, Client, TMTimerSet, TMTimerStop, TMR3TimerDestroy, Begin
  <2> QED  BY <2>1 DEF RunInv
<1>3. CASE Walk
  <2>1. run' = run
    BY <1>3 DEF Walk
  <2>2. UNCHANGED state \/ \E s, old \in Pending : Cas(walk.t, old, s) \/ Cas(walk.t, old, "ACTIVE")
                              \/ Cas(walk.t, old, "STOPPED")
    BY <1>3 DEF Walk, WalkPop, WalkReread, WalkUnlink, WalkSettle, WalkInsert, WalkPostpone,
       WalkInv, ReadInv, OffList, Pending
  <2> QED  BY <1>1, <2>1, <2>2 DEF RunInv, Cas, Pending
<1>4. CASE RunStep \/ StartRun
  <2>1. CASE RunFire
    BY <1>1, <2>1 DEF RunFire, Cas, RunOn, RunLeave, Runs, RunInv
  <2>2. CASE ~RunFire
    <3>1. NoRun \in Runs /\ NoRun.pc = "idle"
      BY ZeroTime DEF NoRun, Runs, RunPcs
    <3>2. CASE RunHead \/ RunDone
      BY <3>1, <3>2 DEF RunHead, RunDone, Runs, RunInv
    <3>3. CASE \E label \in RunPcs \ {"unlink"} : RunOn(label)
      BY <1>1, <3>3 DEF RunOn, Runs, RunInv
    <3>4. CASE RunNext
      BY <1>1, <3>4 DEF RunNext, Runs, RunInv
    <3> QED  BY <1>4, <2>2, <3>2, <3>3, <3>4 DEF RunStep, StartRun, RunQueues, RunLock, RunSchedule,
                RunCrit, RunUnlink, RunReturn, RunLeave, RunPcs
  <2> QED  BY <2>1, <2>2
<1> QED  BY <1>2, <1>3, <1>4, RunCall DEF Next

-----------------------------------------------------------------------------
\* The places of a timer.
Member(t, s) == \E i \in DOMAIN s : s[i] = t

LEMMA PushSeq ==
    ASSUME NEW t \in Timers, NEW s \in Seq(Timers)
    PROVE  /\ \A u : Member(u, <<t>> \o s) => u = t \/ Member(u, s)
           /\ Distinct(s) /\ ~Member(t, s) => Distinct(<<t>> \o s)
<1> DEFINE r == <<t>> \o s
<1>1. /\ r \in Seq(Timers) /\ Len(r) = Len(s) + 1 /\ r[1] = t /\ Len(s) \in Nat
      /\ \A i \in 2 .. Len(r) : r[i] = s[i - 1] /\ i - 1 \in DOMAIN s
      /\ DOMAIN r = 1 .. Len(r)
  OBVIOUS
<1> HIDE DEF r
<1>2. \A i \in DOMAIN r : i = 1 \/ i \in 2 .. Len(r)
  BY <1>1
<1>3. \A u : Member(u, r) => u = t \/ Member(u, s)
  BY <1>1, <1>2 DEF Member
<1>4. ASSUME Distinct(s), ~Member(t, s), NEW i \in DOMAIN r, NEW j \in DOMAIN r, r[i] = r[j]
      PROVE  i = j
  <2>1. CASE i = 1 \/ j = 1
    BY <1>1, <1>2, <1>4, <2>1 DEF Member
  <2>2. CASE i \in 2 .. Len(r) /\ j \in 2 .. Len(r)
    <3>1. i - 1 = j - 1
      BY <1>1, <1>4, <2>2 DEF Distinct
    <3> QED  BY <1>1, <2>2, <3>1
  <2> QED  BY <1>2, <1>4, <2>1, <2>2
<1>5. Distinct(s) /\ ~Member(t, s) => Distinct(r)
  BY <1>4 DEF Distinct
<1> QED  BY <1>3, <1>5 DEF r

LEMMA PopSeq ==
    ASSUME NEW s \in Seq(Timers), s # <<>>
    PROVE  /\ Head(s) \in Timers /\ Member(Head(s), s)
           /\ \A u : Member(u, Tail(s)) => Member(u, s)
           /\ Distinct(s) => Distinct(Tail(s)) /\ ~Member(Head(s), Tail(s))
<1> DEFINE r == Tail(s)
<1>1. /\ r \in Seq(Timers) /\ Len(r) = Len(s) - 1 /\ Len(r) \in Nat
      /\ \A i \in 1 .. Len(r) : r[i] = s[i + 1] /\ i + 1 \in DOMAIN s
      /\ DOMAIN r = 1 .. Len(r) /\ 1 \in DOMAIN s /\ Head(s) = s[1]
  OBVIOUS
<1> HIDE DEF r
<1>2. Head(s) \in Timers /\ Member(Head(s), s)
  BY <1>1 DEF Member
<1>3. \A u : Member(u, r) => Member(u, s)
  BY <1>1 DEF Member
<1>4. ASSUME Distinct(s), NEW i \in DOMAIN r, NEW j \in DOMAIN r, r[i] = r[j]
      PROVE  i = j
  <2>1. s[i + 1] = s[j + 1] /\ i + 1 \in DOMAIN s /\ j + 1 \in DOMAIN s
    BY <1>1, <1>4
  <2>2. i + 1 = j + 1
    BY <1>4, <2>1 DEF Distinct
  <2> QED  BY <1>1, <2>2
<1>5. ASSUME Distinct(s), NEW i \in DOMAIN r PROVE r[i] # Head(s)
  <2>1. i + 1 # 1 /\ r[i] = s[i + 1] /\ i + 1 \in DOMAIN s
    BY <1>1
  <2> QED  BY <1>1, <1>5, <2>1 DEF Distinct
<1>6. Distinct(s) => ~Member(Head(s), r)
  BY <1>5 DEF Member
<1> QED  BY <1>2, <1>3, <1>4, <1>6 DEF Distinct, r

\* In each of the following steps a timer gives up a place, or moves to one
\* when it had none or has given up its own.
Held(t) == state[t] \in Pending \cup {"DESTROY"}

LEMMA PlacesShrink ==
    ASSUME LinkedOnce, sched' = sched, walk'.todo = walk.todo,
           \A t \in Timers : Settling(t)' => Settling(t),
           \A u \in Threads, t \in Timers : Links(u, t)' => Links(u, t),
           \A t \in Timers : state'[t] = state[t] \/ Held(t)' \/ InNoPlace(t)'
    PROVE  LinkedOnce'
<1>1. \A t \in Timers : /\ Pushed(t)' <=> Pushed(t)
                        /\ Taken(t)' <=> Taken(t)
                        /\ Linking(t)' => Linking(t)
  BY DEF Pushed, Taken, Linking
<1>2. \A t \in Timers : InOnePlace(t)' /\ (InNoPlace(t) => InNoPlace(t)')
  BY <1>1 DEF LinkedOnce, InOnePlace, InNoPlace
<1>3. \A t \in Timers : Held(t)' \/ InNoPlace(t)'
  BY <1>2 DEF LinkedOnce, Held
<1> QED  BY <1>2, <1>3 DEF LinkedOnce, Held

LEMMA PlacePushed ==
    ASSUME TypeInv, LinkedOnce, NEW t \in Timers, LinkSchedule(t), walk'.todo = walk.todo,
           UNCHANGED state, Held(t), ~Pushed(t), ~Taken(t),
           \A v \in Timers : Settling(v)' => Settling(v) /\ v # t,
           \A u \in Threads, v \in Timers : Links(u, v)' => Links(u, v) /\ v # t
    PROVE  LinkedOnce'
<1>1. sched \in Seq(Timers) /\ sched' = <<t>> \o sched
  BY DEF TypeInv, ListsTyped, LinkSchedule
<1>2. \A v \in Timers : Pushed(v)' => v = t \/ Pushed(v)
  BY <1>1, PushSeq DEF Pushed, Member
<1>3. Distinct(sched)'
  BY <1>1, PushSeq DEF Pushed, Member, LinkedOnce
<1>4. \A v \in Timers : /\ Taken(v)' <=> Taken(v)
                        /\ Linking(v)' => Linking(v) /\ v # t
  BY DEF Taken, Linking
<1>5. \A v \in Timers : InOnePlace(v)' /\ (v # t /\ InNoPlace(v) => InNoPlace(v)')
  BY <1>2, <1>4 DEF LinkedOnce, InOnePlace, InNoPlace
<1>6. \A v \in Timers : Held(v)' \/ InNoPlace(v)'
  BY <1>5 DEF LinkedOnce, Held
<1> QED  BY <1>3, <1>5, <1>6 DEF LinkedOnce, Held

LEMMA PlaceLinking ==
    ASSUME TypeInv, LinkedOnce, NEW t \in Timers, NEW th \in Threads, NEW s \in Pending,
           sched' = sched, walk' = walk, state' = [state EXCEPT ![t] = s], InNoPlace(t),
           \A u \in Threads, v \in Timers : Links(u, v)' => Links(u, v) \/ (u = th /\ v = t)
    PROVE  LinkedOnce'
<1>1. \A v \in Timers : /\ Pushed(v)' <=> Pushed(v)
                        /\ Taken(v)' <=> Taken(v)
                        /\ Settling(v)' <=> Settling(v)
                        /\ v # t => (Linking(v)' => Linking(v))
  BY DEF Pushed, Taken, Settling, Linking
<1>2. \A u \in Threads : ~Links(u, t)
  BY DEF InNoPlace, Linking
<1>3. \A v \in Timers : InOnePlace(v)' /\ (v # t /\ InNoPlace(v) => InNoPlace(v)')
  BY <1>1, <1>2 DEF LinkedOnce, InOnePlace, InNoPlace
<1>4. \A v \in Timers : Held(v)' \/ InNoPlace(v)'
  BY <1>3 DEF LinkedOnce, Held, TypeInv, StateTyped
<1>5. Distinct(sched)' /\ Distinct(walk.todo)'
  BY DEF LinkedOnce
<1> QED  BY <1>3, <1>4, <1>5 DEF LinkedOnce, Held

LEMMA PlacesTaken ==
    ASSUME LinkedOnce, TakeSchedule, walk.todo = <<>>,
           \A u \in Threads, v \in Timers : Links(u, v)' => Links(u, v),
           \A t \in Timers : state'[t] = state[t] \/ Held(t)'
    PROVE  LinkedOnce'
<1>1. sched' = <<>> /\ walk'.pc = "pop" /\ walk'.todo = sched
  BY DEF TakeSchedule, NoWalk
<1>2. \A t \in Timers : /\ ~Pushed(t)'
                        /\ Taken(t)' <=> Pushed(t)
                        /\ ~Settling(t)'
                        /\ Linking(t)' => Linking(t)
  BY <1>1 DEF Pushed, Taken, Settling, Linking
<1>3. \A t \in Timers : InOnePlace(t)' /\ (InNoPlace(t) => InNoPlace(t)')
  BY <1>2 DEF LinkedOnce, InOnePlace, InNoPlace
<1>4. \A t \in Timers : Held(t)' \/ InNoPlace(t)'
  BY <1>3 DEF LinkedOnce, Held
<1>5. Distinct(sched)' /\ Distinct(walk.todo)'
  BY <1>1 DEF LinkedOnce, Distinct
<1> QED  BY <1>3, <1>4, <1>5 DEF LinkedOnce, Held

LEMMA PlacePopped ==
    ASSUME TypeInv, LinkedOnce, WalkPop, UNCHANGED call
    PROVE  LinkedOnce'
<1>1. walk.todo \in Seq(Timers) /\ walk.todo # <<>> /\ walk.pc = "pop" /\ UNCHANGED <<state, sched>>
  BY DEF TypeInv, WalkTyped, Walks, WalkPop, queue
<1> PICK t \in Timers : t = Head(walk.todo)
  BY <1>1
<1>2. walk'.todo = Tail(walk.todo) /\ walk'.t = t /\ walk'.pc = Handler(state[t])
  BY DEF WalkPop
<1>3. Taken(t) /\ ~Taken(t)'
  <2>1. Member(t, walk.todo) /\ ~Member(t, Tail(walk.todo))
    BY <1>1, PopSeq DEF LinkedOnce
  <2> QED  BY <1>2, <2>1 DEF Taken, Member
<1>4. \A v \in Timers : Taken(v)' => Taken(v)
  BY <1>1, <1>2, PopSeq DEF Taken, Member
<1>5. \A v \in Timers : /\ Pushed(v)' <=> Pushed(v)
                        /\ Linking(v)' <=> Linking(v)
                        /\ \A u \in Threads : Links(u, v)' <=> Links(u, v)
                        /\ ~Settling(v)
                        /\ Settling(v)' => v = t
  BY <1>1, <1>2 DEF Pushed, Linking, Links, Settling
<1>6. \A v \in Timers : InOnePlace(v)' /\ (v # t /\ InNoPlace(v) => InNoPlace(v)')
  <2>1. ASSUME NEW v \in Timers, v # t PROVE InOnePlace(v)' /\ (InNoPlace(v) => InNoPlace(v)')
    <3>1. InOnePlace(v) /\ ~Settling(v)'
      BY <1>5, <2>1 DEF LinkedOnce
    <3> QED  BY <1>4, <1>5, <3>1 DEF InOnePlace, InNoPlace
  <2>2. InOnePlace(t)'
    <3>1. InOnePlace(t) /\ ~Pushed(t) /\ ~Linking(t)
      BY <1>3 DEF LinkedOnce, InOnePlace
    <3>2. ~Pushed(t)' /\ ~Linking(t)' /\ \A u \in Threads : Links(u, t)' <=> Links(u, t)
      BY <1>3, <1>5, <3>1
    <3> QED  BY <1>3, <3>1, <3>2 DEF InOnePlace
  <2> QED  BY <1>3, <2>1, <2>2
<1>7. Held(t)
  BY <1>3 DEF LinkedOnce, InNoPlace, Held
<1>8. \A v \in Timers : Held(v)' \/ InNoPlace(v)'
  BY <1>1, <1>6, <1>7 DEF LinkedOnce, Held
<1>9. Distinct(sched)' /\ Distinct(walk.todo)'
  BY <1>1, <1>2, PopSeq DEF LinkedOnce
<1> QED  BY <1>6, <1>8, <1>9 DEF LinkedOnce, Held

-----------------------------------------------------------------------------
\* Each step keeps every timer in one place.
LEMMA PlacesKept ==
    ASSUME TypeInv, LinkedOnce, UNCHANGED <<sched, walk>>,
           \A u \in Threads, v \in Timers : Links(u, v)' => Links(u, v),
           \/ UNCHANGED state
           \/ \E t \in Timers, s \in States :
                /\ state' = [state EXCEPT ![t] = s]
                /\ Held(t) => s \in Pending \cup {"DESTROY"}
    PROVE  LinkedOnce'
<1>1. \A v \in Timers : Settling(v)' => Settling(v)
  BY DEF Settling
<1>2. \A v \in Timers : InNoPlace(v) => InNoPlace(v)'
  BY DEF InNoPlace, Pushed, Taken, Settling, Linking
<1>3. \A v \in Timers : ~Held(v) => InNoPlace(v)
  BY DEF LinkedOnce, Held
<1>4. \A v \in Timers : state'[v] = state[v] \/ Held(v)' \/ InNoPlace(v)'
  <2>1. CASE UNCHANGED state
    BY <2>1
  <2>2. ASSUME NEW t \in Timers, NEW s \in States, state' = [state EXCEPT ![t] = s],
               Held(t) => s \in Pending \cup {"DESTROY"}
        PROVE  \A v \in Timers : state'[v] = state[v] \/ Held(v)' \/ InNoPlace(v)'
    BY <1>2, <1>3, <2>2 DEF Held, TypeInv, StateTyped
  <2> QED  BY <2>1, <2>2
<1> QED  BY <1>1, <1>4, PlacesShrink

LEMMA PlacesWalk ==
    ASSUME TypeInv, WalkInv, LinkedOnce, Walk
    PROVE  LinkedOnce'
<1>1. /\ walk \in Walks
      /\ walk.pc \notin {"none", "pop"} => walk.t \in Timers
      /\ state \in [Timers -> States] /\ UNCHANGED call
  BY DEF TypeInv, WalkTyped, StateTyped, Walk
<1>2. \A u \in Threads, v \in Timers : Links(u, v)' <=> Links(u, v)
  BY <1>1 DEF Links
<1>3. CASE WalkPop
  BY <1>1, <1>3, PlacePopped
<1>4. ASSUME walk.pc \notin {"none", "pop"} PROVE LinkedOnce'
  <2>1. PICK t \in Timers : t = walk.t
    BY <1>1, <1>4
  <2>2. CASE WalkReread
    <3>1. UNCHANGED <<state, sched>> /\ walk'.todo = walk.todo
      BY <1>1, <2>2 DEF WalkReread, queue, Walks
    <3>2. \A v \in Timers : Settling(v)' => Settling(v)
      BY <1>1, <2>2 DEF WalkReread, Settling, Walks
    <3> QED  BY <1>2, <3>1, <3>2, PlacesShrink
  <2>3. Retry => walk'.todo = walk.todo /\ walk'.t = walk.t
    BY <1>1 DEF Retry, Walks
  <2>4. CASE WalkUnlink
    <3>1. sched' = sched /\ walk'.todo = walk.todo /\ walk'.t = walk.t
      BY <1>1, <2>3, <2>4 DEF WalkUnlink, Walks
    <3>2. \A v \in Timers : Settling(v)' => Settling(v)
      BY <2>4, <3>1 DEF WalkUnlink, Settling
    <3>3. OffList(walk.old) \in Pending
      BY DEF OffList, Pending
    <3>4. \A v \in Timers : state'[v] = state[v] \/ Held(v)'
      BY <1>1, <2>1, <2>4, <3>3 DEF WalkUnlink, Cas, Held
    <3> QED  BY <1>2, <3>1, <3>2, <3>4, PlacesShrink
  <2>5. CASE WalkSettle
    <3>1. sched' = sched /\ walk'.todo = walk.todo /\ walk'.t = walk.t
      BY <1>1, <2>3, <2>5 DEF WalkSettle, WalkOn, Walks, queue
    <3>2. \A v \in Timers : Settling(v)' => Settling(v)
      BY <2>5, <3>1 DEF WalkSettle, Settling
    <3>3. CASE UNCHANGED state
      BY <1>2, <3>1, <3>2, <3>3, PlacesShrink
    <3>4. CASE ~UNCHANGED state
      <4>1. walk'.pc \in {"insert", "pop"}
        BY <1>1, <2>5, <3>4 DEF WalkSettle, WalkOn, Walks
      <4>2. \E s : state' = [state EXCEPT ![t] = s]
        BY <2>1, <2>5, <3>4 DEF WalkSettle, Cas
      <4>3. Settling(t) /\ ~Settling(t)'
        BY <2>1, <2>5, <4>1 DEF WalkSettle, Settling
      <4>4. ~Pushed(t) /\ ~Taken(t) /\ ~Linking(t)
        BY <4>3 DEF LinkedOnce, InOnePlace
      <4>5. InNoPlace(t)'
        BY <1>2, <3>1, <4>3, <4>4 DEF InNoPlace, Pushed, Taken, Linking
      <4>6. \A v \in Timers : state'[v] = state[v] \/ InNoPlace(v)'
        BY <1>1, <4>2, <4>5
      <4> QED  BY <1>2, <3>1, <3>2, <4>6, PlacesShrink
    <3> QED  BY <3>3, <3>4
  <2>6. CASE WalkInsert
    <3>1. UNCHANGED <<state, sched>> /\ walk'.todo = walk.todo /\ walk'.pc = "pop"
      BY <1>1, <2>6 DEF WalkInsert, WalkOn, Walks
    <3>2. \A v \in Timers : Settling(v)' => Settling(v)
      BY <3>1 DEF Settling
    <3> QED  BY <1>2, <3>1, <3>2, PlacesShrink
  <2>7. CASE WalkPostpone
    <3>1. UNCHANGED state /\ LinkSchedule(t) /\ walk'.todo = walk.todo /\ walk'.pc = "pop"
      BY <1>1, <2>1, <2>7 DEF WalkPostpone, WalkOn, Walks
    <3>2. Settling(t)
      BY <2>1, <2>7 DEF WalkPostpone, Settling
    <3>3. Held(t) /\ ~Pushed(t) /\ ~Taken(t) /\ ~Linking(t)
      BY <3>2 DEF LinkedOnce, InOnePlace, InNoPlace, Held
    <3>4. \A v \in Timers : ~Settling(v)'
      BY <3>1 DEF Settling
    <3>5. \A u \in Threads, v \in Timers : Links(u, v)' => Links(u, v) /\ v # t
      BY <1>2, <3>3 DEF Linking
    <3> QED  BY <3>1, <3>3, <3>4, <3>5, PlacePushed
  <2> QED  BY <1>4, <2>2, <2>4, <2>5, <2>6, <2>7 DEF Walk, WalkPop
<1> QED  BY <1>3, <1>4 DEF Walk, WalkReread, WalkUnlink, WalkSettle, WalkInsert, WalkPostpone

\* The end of a walk.
LEMMA PlacesOver ==
    ASSUME TypeInv, WalkInv, LinkedOnce, WalkDone, walk' = NoWalk, sched' = sched,
           \A u \in Threads, v \in Timers : Links(u, v)' => Links(u, v),
           \A t \in Timers : state'[t] = state[t] \/ InNoPlace(t)'
    PROVE  LinkedOnce'
<1>1. walk.todo = <<>> /\ walk'.todo = <<>> /\ walk'.pc = "none"
  BY DEF WalkDone, WalkInv, NoWalk
<1>2. \A v \in Timers : Settling(v)' => Settling(v)
  BY <1>1 DEF Settling
<1> QED  BY <1>1, <1>2, PlacesShrink

LEMMA PlacesRun ==
    ASSUME TypeInv, LockInv, WalkInv, RunInv, LinkedOnce, RunStep \/ StartRun
    PROVE  LinkedOnce'
<1>1. /\ run.pc \in {"fire", "unlink", "callback"} => run.t \in Timers
      /\ state \in [Timers -> States] /\ UNCHANGED call
  BY DEF TypeInv, RunTyped, StateTyped, RunStep, StartRun
<1>2. \A u \in Threads, v \in Timers : Links(u, v)' <=> Links(u, v)
  BY <1>1 DEF Links
<1>3. CASE UNCHANGED <<state, sched, walk>>
  BY <1>2, <1>3, PlacesKept
<1>4. ASSUME NEW t \in Timers, NEW s \in States, ~Held(t), state' = [state EXCEPT ![t] = s],
             UNCHANGED <<sched, walk>>
      PROVE  LinkedOnce'
  BY <1>2, <1>4, PlacesKept
<1>5. {"EXPIRED_GET_UNLINK", "EXPIRED_DELIVER", "STOPPED"} \subseteq States
      /\ {"ACTIVE", "EXPIRED_GET_UNLINK", "EXPIRED_DELIVER"} \cap (Pending \cup {"DESTROY"}) = {}
  BY DEF States, Pending
<1>6. CASE RunSchedule
  <2>1. CASE TakeSchedule
    <3>1. walk.todo = <<>> /\ UNCHANGED state
      BY <1>6, NoneWalks DEF RunSchedule
    <3> QED  BY <1>2, <2>1, <3>1, PlacesTaken
  <2> QED  BY <1>3, <1>6, <2>1 DEF RunSchedule
<1>7. CASE RunHead
  BY <1>2, <1>7, PlacesOver DEF RunHead, queue
<1>8. CASE RunFire
  <2>1. CASE UNCHANGED state
    BY <1>3, <1>8, <2>1 DEF RunFire, queue
  <2>2. CASE Cas(run.t, "ACTIVE", "EXPIRED_GET_UNLINK")
    <3>1. ~Held(run.t) /\ run.t \in Timers
      BY <1>1, <1>5, <1>8, <2>2 DEF RunFire, Cas, Held
    <3> QED  BY <1>4, <1>5, <1>8, <2>2, <3>1 DEF RunFire, Cas, queue
  <2> QED  BY <1>8, <2>1, <2>2 DEF RunFire
<1>9. CASE RunUnlink
  <2>1. ~Held(run.t) /\ run.t \in Timers
    BY <1>1, <1>5, <1>9 DEF RunUnlink, RunInv, Held
  <2> QED  BY <1>4, <1>5, <1>9, <2>1 DEF RunUnlink
<1>10. CASE RunReturn
  <2>1. CASE state[run.t] = "EXPIRED_DELIVER"
    <3>1. ~Held(run.t) /\ run.t \in Timers
      BY <1>1, <1>5, <1>10, <2>1 DEF RunReturn, Held
    <3> QED  BY <1>4, <1>5, <1>10, <2>1, <3>1 DEF RunReturn, Delivered, queue
  <2>2. CASE state[run.t] # "EXPIRED_DELIVER"
    BY <1>1, <1>3, <1>10, <2>2 DEF RunReturn, Delivered, queue
  <2> QED  BY <2>1, <2>2
<1>11. CASE StartRun \/ RunLock \/ RunNext \/ RunDone \/ RunCrit
  BY <1>3, <1>11 DEF StartRun, RunQueues, RunLock, RunNext, RunDone, RunCrit, queue
<1> QED  BY <1>6, <1>7, <1>8, <1>9, <1>10, <1>11 DEF RunStep

\* What a step of a call does to the links its threads are about to make.
LEMMA LinksElse ==
    ASSUME TypeInv, NEW th \in Threads, NEW label, label # "link",
           Goto(th, label) \/ Return(th)
    PROVE  /\ \A u \in Threads, v \in Timers : Links(u, v)' => Links(u, v) /\ u # th
           /\ call' = [call EXCEPT ![th] = call'[th]]
<1>1. call \in [Threads -> ApiCalls]
  BY DEF TypeInv, CallsTyped
<1>2. call'[th].pc # "link" /\ \A u \in Threads \ {th} : call'[u] = call[u]
  BY <1>1 DEF Goto, Return, ApiCalls, Idle
<1> QED  BY <1>1, <1>2 DEF Links, Goto, Return

LEMMA PlacesLinking ==
    ASSUME TypeInv, CallInv, LinkedOnce, NEW th \in Threads,
           SetCas(th) \/ StopCas(th) \/ StopFallThru(th)
    PROVE  LinkedOnce'
<1>1. /\ state \in [Timers -> States] /\ call \in [Threads -> ApiCalls]
      /\ call[th].pc # "idle" => call[th].t \in Timers
  BY DEF TypeInv, StateTyped, CallsTyped
<1>2. PICK t \in Timers : t = call[th].t
  BY <1>1 DEF SetCas, StopCas, StopFallThru
<1>3. UNCHANGED <<sched, walk>>
  BY DEF SetCas, StopCas, StopFallThru, queue
<1>4. ~Held(t) => InNoPlace(t)
  BY DEF LinkedOnce, Held
<1>5. {"EXPIRED_DELIVER", "STOPPED", "ACTIVE"} \cap (Pending \cup {"DESTROY"}) = {}
  BY DEF Pending
<1>6. ASSUME NEW s \in Pending, state' = [state EXCEPT ![t] = s], InNoPlace(t),
             \A u \in Threads \ {th} : call'[u] = call[u],
             call'[th].t = t
      PROVE  LinkedOnce'
  <2>1. \A u \in Threads, v \in Timers : Links(u, v)' => Links(u, v) \/ (u = th /\ v = t)
    BY <1>6 DEF Links
  <2> QED  BY <1>3, <1>6, <2>1, PlaceLinking
<1>7. CASE SetCas(th)
  <2>1. /\ SetTarget(state[t]) \in Pending /\ SetTarget(state[t]) \in States
        /\ state' = [state EXCEPT ![t] = SetTarget(state[t])]
    BY <1>2, <1>7 DEF SetCas, SetTarget, Pending, States
  <2>2. /\ \A u \in Threads \ {th} : call'[u] = call[u]
        /\ call'[th].t = t
        /\ call'[th].pc = IF state[t] \in Unscheduled THEN "link" ELSE "expire"
    BY <1>1, <1>2, <1>7 DEF SetCas, ApiCalls
  <2>3. CASE state[t] \in Unscheduled
    BY <1>4, <1>5, <1>6, <2>1, <2>2, <2>3 DEF Unscheduled, Held
  <2>4. CASE state[t] \notin Unscheduled
    <3>1. \A u \in Threads, v \in Timers : Links(u, v)' => Links(u, v)
      BY <2>2, <2>4 DEF Links
    <3> QED  BY <1>3, <2>1, <3>1, PlacesKept
  <2> QED  BY <2>3, <2>4
<1>8. CASE StopCas(th) \/ StopFallThru(th)
  <2>1. PICK label : Goto(th, label)
    BY <1>8 DEF StopCas, StopFallThru
  <2>2. /\ \A u \in Threads \ {th} : call'[u] = call[u]
        /\ call'[th].t = t /\ call'[th].pc = label
    BY <1>1, <1>2, <2>1 DEF Goto, ApiCalls
  <2>3. PICK s \in {"PENDING_STOP", "PENDING_STOP_SCHEDULE"} :
            UNCHANGED state \/ state' = [state EXCEPT ![t] = s]
    BY <1>2, <1>8 DEF StopCas, StopFallThru, StopTarget, Cas
  <2>4. s \in Pending /\ s \in States
    BY <2>3 DEF Pending, States
  <2>5. CASE call'[th].pc = "link"
    <3>1. StopCas(th) /\ state[t] = "ACTIVE" /\ state' = [state EXCEPT ![t] = "PENDING_STOP"]
      BY <1>1, <1>2, <1>8, <2>5 DEF StopCas, StopFallThru, StopTarget, Cas, Goto, ApiCalls
    <3>2. "PENDING_STOP" \in Pending /\ InNoPlace(t)
      BY <1>4, <1>5, <3>1 DEF Held, Pending
    <3> QED  BY <1>6, <2>2, <3>1, <3>2
  <2>6. CASE call'[th].pc # "link"
    <3>1. \A u \in Threads, v \in Timers : Links(u, v)' => Links(u, v)
      BY <2>2, <2>6 DEF Links
    <3> QED  BY <1>3, <2>3, <2>4, <3>1, PlacesKept
  <2> QED  BY <2>5, <2>6
<1> QED  BY <1>7, <1>8

LEMMA PlacesFree ==
    ASSUME TypeInv, WalkInv, CallInv, AloneInv, DestroyInv, LinkedOnce, NEW th \in Threads, Free(th)
    PROVE  LinkedOnce'
<1>1. /\ call[th].t \in Timers /\ call[th].op = "destroy" /\ call \in [Threads -> ApiCalls]
      /\ state \in [Timers -> States]
  BY DEF TypeInv, CallsTyped, StateTyped, CallInv, CallOk, Free
<1>2. PICK t \in Timers : t = call[th].t
  BY <1>1
<1>3. /\ WalkDone /\ walk' = NoWalk /\ sched' = sched /\ Return(th)
      /\ state' = [state EXCEPT ![t] = "FREE"]
  BY <1>2 DEF Free, queue
<1>4. \A u \in Threads, v \in Timers : Links(u, v)' => Links(u, v) /\ u # th
  BY <1>3, LinksElse
<1>5. ~Linking(t)'
  BY <1>1, <1>2, <1>4 DEF AloneInv, Linking, Links
<1>6. ~Pushed(t)'
  BY <1>2, <1>3 DEF DestroyInv, DestroyOk, Free, Pushed
<1>7. ~Taken(t)' /\ ~Settling(t)'
  BY <1>3 DEF NoWalk, Taken, Settling
<1>8. \A v \in Timers : state'[v] = state[v] \/ InNoPlace(v)'
  BY <1>1, <1>3, <1>5, <1>6, <1>7 DEF InNoPlace
<1> QED  BY <1>3, <1>4, <1>8, PlacesOver

LEMMA PlacesCall ==
    ASSUME TypeInv, LockInv, WalkInv, CallInv, AloneInv, SetInv, DestroyInv, LinkedOnce,
           NEW th \in Threads, CallStep(th)
    PROVE  LinkedOnce'
<1>1. /\ state \in [Timers -> States] /\ call \in [Threads -> ApiCalls]
      /\ call[th].pc # "idle" => call[th].t \in Timers
      /\ CallOk(call[th].pc, call[th].op, call[th].old)
  BY DEF TypeInv, StateTyped, CallsTyped, CallInv
<1>2. ASSUME UNCHANGED <<state, sched, walk>>,
             Return(th) \/ \E label \in CallPcs \ {"link"} : Goto(th, label)
      PROVE  LinkedOnce'
  <2>1. \A u \in Threads, v \in Timers : Links(u, v)' => Links(u, v)
    <3>1. CASE Return(th)
      BY <3>1, LinksElse
    <3>2. ASSUME NEW label \in CallPcs \ {"link"}, Goto(th, label)
          PROVE  \A u \in Threads, v \in Timers : Links(u, v)' => Links(u, v)
      BY <3>2, LinksElse
    <3> QED  BY <1>2, <3>1, <3>2
  <2> QED  BY <1>2, <2>1, PlacesKept
<1>3. CASE StartExpire(th) \/ StartLink(th) \/ SetExpire(th)
  BY <1>2, <1>3 DEF StartExpire, StartLink, SetExpire, queue, CallPcs
<1>4. CASE TryStart(th)
  <2>1. CASE UNCHANGED state
    BY <1>2, <1>4, <2>1 DEF TryStart, queue, CallPcs
  <2>2. CASE Cas(call[th].t, call[th].old, "ACTIVE") /\ Goto(th, "start")
    <3>1. ~Held(call[th].t) /\ call[th].t \in Timers
      BY <1>1, <1>4, <2>2 DEF TryStart, CallOk, Cas, Held, Pending
    <3>2. \A u \in Threads, v \in Timers : Links(u, v)' => Links(u, v)
      BY <2>2, LinksElse
    <3>3. UNCHANGED <<sched, walk>> /\ "ACTIVE" \in States
      BY <1>4 DEF TryStart, queue, States
    <3> QED  BY <2>2, <3>1, <3>2, <3>3, PlacesKept DEF Cas
  <2> QED  BY <1>4, <2>1, <2>2 DEF TryStart
<1>5. CASE Link(th)
  <2>1. PICK t \in Timers : t = call[th].t
    BY <1>1, <1>5 DEF Link
  <2>2. LinkSchedule(t) /\ UNCHANGED <<state, walk>> /\ Links(th, t)
    BY <1>5, <2>1 DEF Link, Links
  <2>3. Linking(t)
    BY <2>2 DEF Linking
  <2>4. /\ Held(t) /\ ~Pushed(t) /\ ~Taken(t) /\ ~Settling(t)
        /\ \A u \in Threads : Links(u, t) => u = th
    BY <2>2, <2>3 DEF LinkedOnce, InOnePlace, InNoPlace, Held
  <2>5. \A v \in Timers : Settling(v)' => Settling(v) /\ v # t
    BY <2>2, <2>4 DEF Settling
  <2>6. \A u \in Threads, v \in Timers : Links(u, v)' => Links(u, v) /\ v # t
    <3>1. \A u \in Threads, v \in Timers : Links(u, v)' => Links(u, v) /\ u # th
      BY <1>5, LinksElse DEF Link
    <3> QED  BY <2>4, <3>1
  <2> QED  BY <2>2, <2>4, <2>5, <2>6, PlacePushed
<1>6. CASE Publish(th)
  <2>1. \A u \in Threads, v \in Timers : Links(u, v)' => Links(u, v)
    BY <1>6, LinksElse DEF Publish
  <2>2. Published(call[th].old) \in States /\ Published(call[th].old) \in Pending
    BY DEF Published, States, Pending
  <2> QED  BY <1>1, <1>6, <2>1, <2>2, PlacesKept DEF Publish, queue
<1>7. CASE StopRead(th)
  <2>1. CASE Return(th)
    BY <1>2, <1>7, <2>1 DEF StopRead, queue
  <2>2. CASE call' = [call EXCEPT ![th].pc = "stop", ![th].old = state[call[th].t]]
    <3>1. \A u \in Threads, v \in Timers : Links(u, v)' => Links(u, v)
      BY <1>1, <2>2 DEF Links, ApiCalls
    <3> QED  BY <1>7, <3>1, PlacesKept DEF StopRead, queue
  <2> QED  BY <1>7, <2>1, <2>2 DEF StopRead
<1>8. CASE Schedule(th)
  <2>1. CASE TakeSchedule /\ MayLock(th) /\ Goto(th, "walk")
    <3>1. walk.todo = <<>> /\ UNCHANGED state
      BY <1>8, <2>1, NoneWalks DEF Schedule
    <3>2. \A u \in Threads, v \in Timers : Links(u, v)' => Links(u, v)
      BY <2>1, LinksElse
    <3> QED  BY <2>1, <3>1, <3>2, PlacesTaken
  <2>2. CASE UNCHANGED <<sched, walk>> /\ Return(th)
    BY <1>2, <1>8, <2>2 DEF Schedule
  <2> QED  BY <1>8, <2>1, <2>2 DEF Schedule
<1>9. CASE Scheduled(th)
  <2>1. \A u \in Threads, v \in Timers : Links(u, v)' => Links(u, v)
    BY <1>9, LinksElse DEF Scheduled
  <2> QED  BY <1>9, <2>1, PlacesOver DEF Scheduled, queue
<1>10. CASE Destroy(th)
  <2>1. \A u \in Threads, v \in Timers : Links(u, v)' => Links(u, v)
    BY <1>10, LinksElse DEF Destroy
  <2>2. state' = [state EXCEPT ![call[th].t] = "DESTROY"] /\ call[th].t \in Timers
    BY <1>1, <1>10 DEF Destroy
  <2>3. CASE TakeSchedule
    <3>1. walk.todo = <<>>
      BY <1>10, NoneWalks DEF Destroy
    <3>2. \A v \in Timers : state'[v] = state[v] \/ Held(v)'
      BY <1>1, <2>2 DEF Held
    <3> QED  BY <2>1, <2>3, <3>1, <3>2, PlacesTaken
  <2>4. CASE UNCHANGED <<sched, walk>>
    BY <2>1, <2>2, <2>4, PlacesKept DEF States
  <2> QED  BY <1>10, <2>3, <2>4 DEF Destroy
<1> QED  BY <1>3, <1>4, <1>5, <1>6, <1>7, <1>8, <1>9, <1>10, PlacesLinking, PlacesFree DEF CallStep

LEMMA PlacesNext == TypeInv /\ LinkInv /\ [Next]_vars => LinkedOnce'
<1> SUFFICES ASSUME TypeInv, LinkInv, [Next]_vars PROVE LinkedOnce'
  OBVIOUS
<1> USE DEF LinkInv
<1>1. CASE Tick \/ Poll \/ UNCHANGED vars
  <2>1. UNCHANGED <<state, sched, walk, call>>
    BY <1>1 DEF Tick, Poll, vars, queue
  <2>2. \A u \in Threads, v \in Timers : Links(u, v)' => Links(u, v)
    BY <2>1 DEF Links
  <2> QED  BY <2>1, <2>2, PlacesKept
<1>2. ASSUME NEW th \in Threads, Client(th) PROVE LinkedOnce'
  <2>1. PICK t \in Timers, c \in ApiCalls : Begun(th, t, c)
    BY <1>2, ClientBegins
  <2>2. call \in [Threads -> ApiCalls]
    BY DEF TypeInv, CallsTyped
  <2>3. \A u \in Threads, v \in Timers : Links(u, v)' => Links(u, v)
    BY <2>1, <2>2 DEF Begun, Begin, Links
  <2> QED  BY <2>1, <2>3, PlacesKept DEF Begun, Begin, queue
<1> QED  BY <1>1, <1>2, PlacesWalk, PlacesRun, PlacesCall DEF Next

-----------------------------------------------------------------------------
\* The timers being destroyed.
LEMMA DestroyKept ==
    ASSUME TypeInv, NEW d \in Threads, DestroyOk(d), call'[d] = call[d],
           \A t \in Timers : Alone(d) /\ call[d].t = t =>
                \/ state[t] = "DESTROY" /\ state'[t] = "DESTROY"
                \/ state[t] # "DESTROY" /\ state'[t] \notin {"DESTROY", "FREE"}
                \/ state[t] = "FREE",
           \A t \in Timers : Alone(d) /\ call[d].t = t /\ state[t] = "DESTROY"
                              /\ ~Pushed(t) /\ ~Settling(t) => ~Pushed(t)' /\ ~Settling(t)'
    PROVE  DestroyOk(d)'
<1>1. CASE ~Alone(d)
  BY <1>1 DEF DestroyOk, Alone
<1>2. CASE Alone(d)
  <2>1. PICK t \in Timers : t = call[d].t
    BY <1>2 DEF Alone, TypeInv, CallsTyped
  <2>2. t = call'[d].t
    BY <2>1
  <2>3. call[d].pc = "destroy" => state'[t] \notin {"DESTROY", "FREE"}
    BY <1>2, <2>1 DEF DestroyOk
  <2>4. call[d].pc = "free" => state'[t] = "DESTROY" /\ ~Pushed(t)' /\ ~Settling(t)'
    BY <1>2, <2>1 DEF DestroyOk
  <2>5. Pushed(call[d].t)' <=> Pushed(t)'
    BY <2>2 DEF Pushed
  <2>6. Settling(call[d].t)' <=> Settling(t)'
    BY <2>2 DEF Settling
  <2> QED  BY <2>2, <2>3, <2>4, <2>5, <2>6 DEF DestroyOk
<1> QED  BY <1>1, <1>2

LEMMA DestroyWalk ==
    ASSUME TypeInv, WalkInv, DestroyInv, Walk
    PROVE  DestroyInv'
<1>1. /\ walk \in Walks
      /\ walk.pc \notin {"none", "pop"} => walk.t \in Timers
      /\ walk.pc = "pop" => walk.todo \in Seq(Timers)
      /\ state \in [Timers -> States] /\ UNCHANGED call
  BY DEF TypeInv, WalkTyped, StateTyped, Walk, Walks
<1>2. \/ UNCHANGED state
      \/ \E old \in Pending, s \in Pending \cup {"ACTIVE", "STOPPED"} :
            Cas(walk.t, old, s) /\ walk.t \in Timers
  BY <1>1 DEF Walk, WalkPop, WalkReread, WalkUnlink, WalkSettle, WalkInsert, WalkPostpone,
     WalkInv, ReadInv, OffList, Pending
<1>3. \A t \in Timers : \/ state'[t] = state[t]
                        \/ state[t] # "DESTROY" /\ state'[t] \notin {"DESTROY", "FREE"}
  BY <1>1, <1>2 DEF Cas, Pending
<1>4. ASSUME NEW t \in Timers, state[t] = "DESTROY", ~Pushed(t), ~Settling(t)
      PROVE  ~Pushed(t)' /\ ~Settling(t)'
  <2>1. CASE WalkPop
    <3>1. sched' = sched /\ walk'.t = Head(walk.todo) /\ walk'.pc = Handler(state[walk'.t])
      BY <2>1 DEF WalkPop, queue
    <3>2. Handler("DESTROY") = "pop"
      BY DEF Handler, Pending, Setting
    <3> QED  BY <1>4, <3>1, <3>2 DEF Pushed, Settling
  <2>2. CASE WalkPostpone
    <3>1. LinkSchedule(walk.t) /\ walk'.pc = "pop" /\ walk.t # t /\ sched \in Seq(Timers)
      BY <1>1, <1>4, <2>2 DEF WalkPostpone, WalkOn, Settling, Walks, TypeInv, ListsTyped
    <3>2. walk.t \in Timers
      BY <1>1, <2>2 DEF WalkPostpone
    <3> QED  BY <1>4, <3>1, <3>2, PushSeq DEF LinkSchedule, Pushed, Settling, Member
  <2>3. CASE WalkReread \/ WalkUnlink \/ WalkSettle \/ WalkInsert
    <3>1. sched' = sched /\ walk'.t = walk.t
      BY <1>1, <2>3 DEF WalkReread, WalkUnlink, WalkSettle, WalkInsert, WalkOn, Retry, Walks, queue
    <3>2. walk'.pc \in {"read", "unlink", "settle", "postpone"} =>
             walk.pc \in {"read", "unlink", "settle", "postpone"}
      BY <1>1, <2>3 DEF WalkReread, WalkUnlink, WalkSettle, WalkInsert, WalkOn, Walks
    <3> QED  BY <1>4, <3>1, <3>2 DEF Pushed, Settling
  <2> QED  BY <2>1, <2>2, <2>3 DEF Walk
<1> QED  BY <1>1, <1>3, <1>4, DestroyKept DEF DestroyInv

LEMMA DestroyRun ==
    ASSUME TypeInv, RunInv, DestroyInv, RunStep \/ StartRun
    PROVE  DestroyInv'
<1>1. /\ run.pc \in {"fire", "unlink", "callback"} => run.t \in Timers
      /\ state \in [Timers -> States] /\ UNCHANGED call
  BY DEF TypeInv, RunTyped, StateTyped, RunStep, StartRun
<1>2. \/ UNCHANGED state
      \/ \E s \in {"EXPIRED_GET_UNLINK", "EXPIRED_DELIVER", "STOPPED"} :
            /\ run.t \in Timers /\ state[run.t] # "DESTROY"
            /\ state' = [state EXCEPT ![run.t] = s]
  <2>1. CASE RunReturn
    <3>1. state[run.t] = "EXPIRED_DELIVER" \/ UNCHANGED state
      BY <1>1, <2>1 DEF RunReturn, Delivered
    <3> QED  BY <1>1, <2>1, <3>1 DEF RunReturn, Delivered
  <2>2. CASE RunFire \/ RunUnlink
    BY <1>1, <2>2 DEF RunFire, RunUnlink, RunInv, Cas
  <2>3. CASE ~RunReturn /\ ~RunFire /\ ~RunUnlink
    BY <2>3 DEF RunStep, StartRun, RunQueues, RunLock, RunSchedule, RunHead, RunNext, RunDone,
       RunCrit
  <2> QED  BY <2>1, <2>2, <2>3
<1>3. \A t \in Timers : \/ state'[t] = state[t]
                        \/ state[t] # "DESTROY" /\ state'[t] \notin {"DESTROY", "FREE"}
  BY <1>1, <1>2
<1>4. /\ sched' = sched \/ sched' = <<>>
      /\ walk' = walk \/ walk'.pc \in {"none", "pop"}
  <2>1. (TakeSchedule => sched' = <<>> /\ walk'.pc = "pop") /\ NoWalk.pc = "none"
    BY DEF TakeSchedule, NoWalk
  <2> QED  BY <2>1 DEF RunStep, StartRun, RunQueues, RunLock, RunSchedule, RunHead, RunNext,
              RunDone, RunCrit, RunFire, RunUnlink, RunReturn, queue
<1>5. \A t \in Timers : ~Pushed(t) /\ ~Settling(t) => ~Pushed(t)' /\ ~Settling(t)'
  BY <1>4 DEF Pushed, Settling
<1> QED  BY <1>1, <1>3, <1>5, DestroyKept DEF DestroyInv

LEMMA DestroyBegins ==
    ASSUME TypeInv, DestroyInv, NEW th \in Threads, Client(th)
    PROVE  DestroyInv'
<1>1. PICK t \in Timers, c \in ApiCalls : Begun(th, t, c)
  BY ClientBegins
<1>2. call \in [Threads -> ApiCalls] /\ UNCHANGED <<state, sched, walk>>
  BY <1>1 DEF TypeInv, CallsTyped, Begun, Begin, queue
<1>3. ASSUME NEW d \in Threads, d # th PROVE DestroyOk(d)'
  <2>1. call'[d] = call[d]
    BY <1>1, <1>2, <1>3 DEF Begun
  <2> QED  BY <1>2, <2>1 DEF DestroyInv, DestroyOk, Pushed, Settling
<1>4. DestroyOk(th)'
  <2>1. call'[th] = c /\ c.pc # "free" /\ c.t = t /\ state'[t] \notin {"DESTROY", "FREE"}
    BY <1>1, <1>2 DEF Begun, Begin
  <2> QED  BY <2>1 DEF DestroyOk
<1> QED  BY <1>3, <1>4 DEF DestroyInv

\* Destroy: a timer that is not being set and is not PENDING is on no list.
LEMMA Destroyed ==
    ASSUME TypeInv, LockInv, WalkInv, CallInv, AloneInv, SetInv, LinkedOnce, DestroyInv,
           NEW th \in Threads, Destroy(th)
    PROVE  DestroyOk(th)'
<1>1. /\ state \in [Timers -> States] /\ call \in [Threads -> ApiCalls] /\ call[th].t \in Timers
      /\ state[call[th].t] \notin {"DESTROY", "FREE"}
  BY DEF TypeInv, StateTyped, CallsTyped, Destroy, DestroyInv, DestroyOk
<1>2. PICK t \in Timers : t = call[th].t
  BY <1>1
<1>3. call'[th].pc = "free" /\ call'[th].t = t /\ state'[t] = "DESTROY"
  BY <1>1, <1>2 DEF Destroy, Goto, ApiCalls
<1>4. state[t] \notin Setting
  BY <1>2, NotSetWhenAlone DEF Destroy, Alone
<1>5. ~Pushed(t)' /\ ~Settling(t)'
  <2>1. CASE TakeSchedule
    BY <2>1 DEF TakeSchedule, NoWalk, Pushed, Settling
  <2>2. CASE UNCHANGED <<sched, walk>> /\ ~fPending(state[t])
    <3>1. InNoPlace(t)
      BY <1>1, <1>2, <1>4, <2>2 DEF LinkedOnce, fPending
    <3> QED  BY <2>2, <3>1 DEF InNoPlace, Pushed, Settling
  <2> QED  BY <1>2, <2>1, <2>2 DEF Destroy
<1> QED
  <2>1. Pushed(call[th].t)' <=> Pushed(t)'
    BY <1>3 DEF Pushed
  <2>2. Settling(call[th].t)' <=> Settling(t)'
    BY <1>3 DEF Settling
  <2> QED  BY <1>3, <1>5, <2>1, <2>2 DEF DestroyOk

\* Other calls are about other timers.
LEMMA DestroyCall ==
    ASSUME TypeInv, LockInv, WalkInv, CallInv, AloneInv, SetInv, LinkedOnce, DestroyInv,
           NEW th \in Threads, CallStep(th)
    PROVE  DestroyInv'
<1>1. /\ state \in [Timers -> States] /\ call \in [Threads -> ApiCalls]
      /\ sched \in Seq(Timers)
      /\ call[th].pc # "idle" => call[th].t \in Timers
  BY DEF TypeInv, StateTyped, CallsTyped, ListsTyped
<1>2. /\ \A u \in Threads \ {th} : call'[u] = call[u]
      /\ \A v \in Timers \ {call[th].t} : state'[v] = state[v]
      /\ call[th].pc # "idle"
  BY <1>1 DEF CallStep, TryStart, StartExpire, StartLink, SetCas, Link, SetExpire, Publish,
     StopRead, StopCas, StopFallThru, Schedule, Scheduled, Destroy, Free, Cas, Goto, Return
<1>3. /\ sched' = sched \/ sched' = <<>> \/ LinkSchedule(call[th].t)
      /\ walk' = walk \/ walk'.pc \in {"none", "pop"}
  <2>1. (TakeSchedule => sched' = <<>> /\ walk'.pc = "pop") /\ NoWalk.pc = "none"
    BY DEF TakeSchedule, NoWalk
  <2> QED  BY <2>1 DEF CallStep, TryStart, StartExpire, StartLink, SetCas, Link, SetExpire, Publish,
              StopRead, StopCas, StopFallThru, Schedule, Scheduled, Destroy, Free, queue
<1>4. \A v \in Timers \ {call[th].t} : ~Pushed(v) => ~Pushed(v)'
  <2>1. CASE LinkSchedule(call[th].t)
    <3>1. \A v : Member(v, sched') => v = call[th].t \/ Member(v, sched)
      BY <1>1, <1>2, <2>1, PushSeq DEF LinkSchedule
    <3> QED  BY <3>1 DEF Pushed, Member
  <2> QED  BY <1>3, <2>1 DEF Pushed
<1>5. \A v \in Timers : ~Settling(v) => ~Settling(v)'
  BY <1>3 DEF Settling
<1>6. ASSUME NEW d \in Threads, d # th PROVE DestroyOk(d)'
  <2>1. Alone(d) => call[th].t # call[d].t
    BY <1>6 DEF Alone, CallInv, CallOk, AloneInv
  <2> QED  BY <1>2, <1>4, <1>5, <1>6, <2>1, DestroyKept DEF DestroyInv
<1>7. DestroyOk(th)'
  <2>1. CASE Destroy(th)
    BY <2>1, Destroyed
  <2>2. CASE ~Destroy(th)
    <3>1. call'[th].pc \notin {"destroy", "free"}
      BY <1>1, <2>2 DEF CallStep, TryStart, StartExpire, StartLink, SetCas, Link, SetExpire,
         Publish, StopRead, StopCas, StopFallThru, Schedule, Scheduled, Free, Goto, Return, Idle,
         ApiCalls
    <3> QED  BY <3>1 DEF DestroyOk
  <2> QED  BY <2>1, <2>2
<1> QED  BY <1>6, <1>7 DEF DestroyInv

LEMMA DestroyNext == TypeInv /\ LinkInv /\ [Next]_vars => DestroyInv'
<1> SUFFICES ASSUME TypeInv, LinkInv, [Next]_vars PROVE DestroyInv'
  OBVIOUS
<1> USE DEF LinkInv
<1>1. CASE Tick \/ Poll \/ UNCHANGED vars
  <2>1. UNCHANGED <<state, sched, walk, call>>
    BY <1>1 DEF Tick, Poll, vars, queue
  <2> QED  BY <2>1 DEF DestroyInv, DestroyOk, Pushed, Settling
<1> QED  BY <1>1, DestroyWalk, DestroyRun, DestroyBegins, DestroyCall DEF Next

-----------------------------------------------------------------------------
LEMMA InitLink == Init => LinkInv
<1> SUFFICES ASSUME Init PROVE LinkInv
  OBVIOUS
<1>1. /\ \A th \in Threads : call[th] = Idle
      /\ walk = NoWalk /\ run = NoRun /\ sched = <<>> /\ TimerCpu \in Threads
      /\ \A t \in Timers : state[t] = "STOPPED"
  BY ThreadsAssumption DEF Init
<1>2. Idle.pc = "idle" /\ Idle.op = "none" /\ NoWalk.pc = "none" /\ NoWalk.todo = <<>>
      /\ NoRun.pc = "idle"
  BY DEF Idle, NoWalk, NoRun
<1>3. LockInv /\ WalkInv
  BY <1>1, <1>2 DEF LockInv, LockPcs, RunOwnsLock, WalkInv, ReadInv
<1>4. CallInv /\ AloneInv
  BY <1>1, <1>2 DEF CallInv, CallOk, AloneInv
<1>5. SetInv /\ RunInv /\ DestroyInv
  BY <1>1, <1>2 DEF SetInv, Sets, Setting, RunInv, DestroyInv, DestroyOk
<1>6. \A t \in Timers : InNoPlace(t)
  BY <1>1, <1>2 DEF InNoPlace, Pushed, Taken, Settling, Linking, Links
<1>7. Distinct(sched) /\ Distinct(walk.todo)
  BY <1>1, <1>2 DEF Distinct
<1>8. \A t \in Timers : InOnePlace(t)
  BY <1>6 DEF InNoPlace, InOnePlace, Linking
<1> QED  BY <1>3, <1>4, <1>5, <1>6, <1>7, <1>8 DEF LinkInv, LinkedOnce

LEMMA NextLink == TypeInv /\ LinkInv /\ [Next]_vars => LinkInv'
<1> SUFFICES ASSUME TypeInv, LinkInv, [Next]_vars PROVE LinkInv'
  OBVIOUS
<1>1. LockInv' /\ WalkInv' /\ CallInv' /\ AloneInv'
  BY LockNext, WalkNext, CallNext, AloneNext DEF LinkInv
<1>2. SetInv' /\ RunInv'
  BY SetNext, RunNextInv DEF LinkInv
<1>3. DestroyInv' /\ LinkedOnce'
  BY DestroyNext, PlacesNext
<1> QED  BY <1>1, <1>2, <1>3 DEF LinkInv

\* A timer is linked into the schedule list at most once, and only while its
\* state says that it has to be scheduled or that it is being destroyed: no
\* push of tmTimerLinkSchedule ever overwrites a link that is in use, whatever
\* the threads that arm, stop and destroy timers and the owners of the TM lock
\* do to each other.
THEOREM LinkedOnceCorrect == Spec => []LinkedOnce
<1>1. Init => TypeInv /\ LinkInv
  BY InitType, InitLink
<1>2. TypeInv /\ LinkInv /\ [Next]_vars => (TypeInv /\ LinkInv)'
  BY NextType, NextLink
<1>3. LinkInv => LinkedOnce
  BY DEF LinkInv
<1> QED  BY <1>1, <1>2, <1>3, PTL DEF Spec

-----------------------------------------------------------------------------
(***************************************************************************)
(* The timers implement the abstract alarm.                                *)
(*                                                                         *)
(* A call is about one timer, whose alarm it may change as it likes but    *)
(* not make go off; the scheduler changes no alarm; so what matters is the *)
(* run of the queue, which looks at the expire time of a timer first and   *)
(* exchanges its state later (FireInv).                                    *)
(***************************************************************************)
\* What an alarm is made of.
Ring == {"EXPIRED_GET_UNLINK", "EXPIRED_DELIVER"}

\* A step is about t: it leaves every other timer's alarm alone, and t does not
\* begin to ring.
About(t) ==
    /\ \A u \in Timers \ {t} : /\ state'[u] = state[u] /\ expire'[u] = expire[u]
                               /\ Starting(u)' <=> Starting(u)
    /\ state'[t] \in Ring => state[t] \in Ring
    /\ UNCHANGED now

\* A call's steps are about its timer.
LEMMA CallAbout ==
    ASSUME TypeInv, NEW th \in Threads, CallStep(th)
    PROVE  \E t \in Timers : t = call[th].t /\ About(t)
<1>1. /\ state \in [Timers -> States] /\ expire \in [Timers -> Times]
      /\ call \in [Threads -> ApiCalls]
      /\ call[th].pc # "idle" => call[th].t \in Timers
  BY DEF TypeInv, StateTyped, CallsTyped
<1>2. call[th].pc # "idle" /\ UNCHANGED now
  BY DEF CallStep, TryStart, StartExpire, StartLink, SetCas, Link, SetExpire, Publish,
     StopRead, StopCas, StopFallThru, Schedule, Scheduled, Destroy, Free
<1>3. PICK t \in Timers : t = call[th].t
  BY <1>1, <1>2
<1>4. /\ \A v \in Threads \ {th} : call'[v] = call[v]
      /\ call'[th].t = t \/ call'[th] = Idle
  BY <1>1, <1>3 DEF CallStep, TryStart, StartExpire, StartLink, SetCas, Link, SetExpire,
     Publish, StopRead, StopCas, StopFallThru, Schedule, Scheduled, Destroy, Free, Goto, Return,
     ApiCalls
<1>5. \A u \in Timers \ {t} : state'[u] = state[u]
  BY <1>1, <1>3 DEF CallStep, TryStart, StartExpire, StartLink, SetCas, Link, SetExpire,
     Publish, StopRead, StopCas, StopFallThru, Schedule, Scheduled, Destroy, Free, Cas
<1>6. \A u \in Timers \ {t} : expire'[u] = expire[u]
  BY <1>1, <1>3 DEF CallStep, TryStart, StartExpire, StartLink, SetCas, Link, SetExpire,
     Publish, StopRead, StopCas, StopFallThru, Schedule, Scheduled, Destroy, Free
<1>7. \A u \in Timers \ {t} : Starting(u)' <=> Starting(u)
  <2>1. ASSUME NEW u \in Timers \ {t}, NEW v \in Threads
        PROVE  (call'[v].pc = "start" /\ call'[v].t = u) <=> (call[v].pc = "start" /\ call[v].t = u)
    BY <1>3, <1>4 DEF Idle
  <2> QED  BY <2>1 DEF Starting
<1>8. state'[t] \in Ring => state[t] \in Ring
  BY <1>1, <1>3 DEF CallStep, TryStart, StartExpire, StartLink, SetCas, Link, SetExpire,
     Publish, StopRead, StopCas, StopFallThru, Schedule, Scheduled, Destroy, Free, Cas, Ring,
     SetTarget, Published, StopTarget
<1> QED  BY <1>2, <1>3, <1>5, <1>6, <1>7, <1>8 DEF About

\* What a timer's alarm depends on.
LEMMA SameAlarm ==
    ASSUME NEW u \in Timers, state'[u] = state[u], expire'[u] = expire[u],
           Starting(u)' <=> Starting(u)
    PROVE  AlarmOf(u)' = AlarmOf(u) /\ (Armed(u)' <=> Armed(u))
BY DEF AlarmOf, Armed

\* A client's first step arms and disarms nothing.
LEMMA ClientAbout ==
    ASSUME TypeInv, NEW th \in Threads, Client(th)
    PROVE  UNCHANGED now /\ \A u \in Timers : AlarmOf(u)' = AlarmOf(u) /\ (Armed(u)' <=> Armed(u))
<1>1. PICK t \in Timers, c \in ApiCalls : Begun(th, t, c)
  BY ClientBegins
<1>2. call \in [Threads -> ApiCalls] /\ UNCHANGED <<state, expire, now>>
  BY <1>1 DEF TypeInv, CallsTyped, Begun, Begin
<1>3. \A u \in Timers : Starting(u)' <=> Starting(u)
  <2>1. ASSUME NEW v \in Threads, NEW u \in Timers
        PROVE  (call'[v].pc = "start" /\ call'[v].t = u) <=> (call[v].pc = "start" /\ call[v].t = u)
    BY <1>1, <1>2 DEF Begun, Begin
  <2> QED  BY <2>1 DEF Starting
<1> QED  BY <1>2, <1>3, SameAlarm

\* Nor does settling a timer: an armed timer stays armed for the same time.
LEMMA WalkAbout ==
    ASSUME TypeInv, WalkInv, Walk
    PROVE  UNCHANGED now /\ \A u \in Timers : AlarmOf(u)' = AlarmOf(u) /\ (Armed(u)' <=> Armed(u))
<1>1. state \in [Timers -> States] /\ UNCHANGED <<expire, now, call>>
  BY DEF TypeInv, StateTyped, Walk
<1>2. ASSUME NEW u \in Timers
      PROVE  \/ state'[u] = state[u]
             \/ state[u] = "PENDING_RESCHEDULE" /\ state'[u] = "PENDING_SCHEDULE"
             \/ state[u] = "PENDING_STOP" /\ state'[u] = "PENDING_STOP_SCHEDULE"
             \/ state[u] = "PENDING_SCHEDULE" /\ state'[u] = "ACTIVE"
             \/ state[u] = "PENDING_STOP_SCHEDULE" /\ state'[u] = "STOPPED"
  BY <1>1 DEF Walk, WalkPop, WalkReread, WalkUnlink, WalkSettle, WalkInsert, WalkPostpone, Cas,
     OffList, WalkInv, ReadInv
<1>3. \A u \in Timers : Starting(u)' <=> Starting(u)
  BY <1>1 DEF Starting
<1> QED  BY <1>1, <1>2, <1>3 DEF AlarmOf, Armed

\* The run of the queue: a timer it fires goes off, a timer whose callback has
\* returned stops unless somebody has armed it anew.
LEMMA RunAbout ==
    ASSUME TypeInv, RunInv, StartRun \/ RunStep
    PROVE  /\ UNCHANGED <<now, expire, call>>
           /\ \/ UNCHANGED state
              \/ /\ run.pc \in {"fire", "unlink", "callback"} /\ run.t \in Timers
                 /\ \A u \in Timers \ {run.t} : state'[u] = state[u]
                 /\ \/ /\ run.pc = "fire" /\ state[run.t] = "ACTIVE"
                       /\ state'[run.t] = "EXPIRED_GET_UNLINK"
                    \/ state[run.t] \in Ring /\ state'[run.t] \in {"EXPIRED_DELIVER", "STOPPED"}
<1>1. state \in [Timers -> States] /\ UNCHANGED <<now, expire, call>>
  BY DEF TypeInv, StateTyped, StartRun, RunStep
<1>2. run.pc \in {"fire", "unlink", "callback"} => run.t \in Timers
  BY DEF TypeInv, RunTyped
<1>3. CASE RunFire
  BY <1>1, <1>2, <1>3 DEF RunFire, Cas
<1>4. CASE RunUnlink
  BY <1>1, <1>2, <1>4 DEF RunUnlink, RunInv, Ring
<1>5. CASE RunReturn
  <2>1. CASE state[run.t] = "EXPIRED_DELIVER"
    BY <1>1, <1>2, <1>5, <2>1 DEF RunReturn, Delivered, Ring
  <2>2. CASE state[run.t] # "EXPIRED_DELIVER"
    BY <1>1, <1>2, <1>5, <2>2 DEF RunReturn, Delivered
  <2> QED  BY <2>1, <2>2
<1>6. CASE StartRun \/ RunLock \/ RunSchedule \/ RunHead \/ RunNext \/ RunDone \/ RunCrit
  BY <1>1, <1>6 DEF StartRun, RunQueues, RunLock, RunSchedule, RunHead, RunNext, RunDone, RunCrit
<1> QED  BY <1>3, <1>4, <1>5, <1>6 DEF RunStep

\* A timer is disarmed by its own expiry or by a call about it, and by nothing
\* else: neither tmTimerQueueScheduleOne, which moves it from state to state, nor
\* the end of its own callback in tmR3TimerQueueRun, which stops it only if its
\* state is still EXPIRED_DELIVER.
THEOREM DisarmedByOwnerCorrect == Spec => DisarmedByOwner
<1> DEFINE Step == \A t \in Timers : Armed(t) /\ ~Armed(t)' =>
                     state'[t] = "EXPIRED_GET_UNLINK" \/ \E th \in Threads : call[th].t = t
<1>1. Init => TypeInv /\ LinkInv
  BY InitType, InitLink
<1>2. TypeInv /\ LinkInv /\ [Next]_vars => (TypeInv /\ LinkInv)'
  BY NextType, NextLink
<1>3. TypeInv /\ LinkInv /\ [Next]_vars => [Step]_vars
  <2> SUFFICES ASSUME TypeInv, LinkInv, Next PROVE Step
    OBVIOUS
  <2> USE DEF LinkInv
  <2>1. CASE Tick \/ Poll
    <3>1. UNCHANGED <<state, call>>
      BY <2>1 DEF Tick, Poll
    <3> QED  BY <3>1 DEF Armed, Starting
  <2>2. CASE Walk
    BY <2>2, WalkAbout
  <2>3. CASE StartRun \/ RunStep
    <3>1. UNCHANGED call
      BY <2>3, RunAbout
    <3>2. \A t \in Timers : Armed(t) /\ ~Armed(t)' => state'[t] = "EXPIRED_GET_UNLINK"
      BY <2>3, <3>1, RunAbout DEF Armed, Starting, Ring
    <3> QED  BY <3>2
  <2>4. ASSUME NEW th \in Threads, Client(th) PROVE Step
    BY <2>4, ClientAbout
  <2>5. ASSUME NEW th \in Threads, CallStep(th) PROVE Step
    <3>1. PICK t \in Timers : t = call[th].t /\ About(t)
      BY <2>5, CallAbout
    <3>2. \A u \in Timers \ {t} : Armed(u)' <=> Armed(u)
      BY <3>1, SameAlarm DEF About
    <3> QED  BY <3>1, <3>2
  <2> QED  BY <2>1, <2>2, <2>3, <2>4, <2>5 DEF Next
<1>4. [Step]_vars => [\A t \in Timers : Armed(t) /\ ~Armed(t)' =>
        state'[t] = "EXPIRED_GET_UNLINK" \/ \E th \in Threads : call[th].t = t]_vars
  OBVIOUS
<1> HIDE DEF Step
<1> QED  BY <1>1, <1>2, <1>3, <1>4, PTL DEF Spec, DisarmedByOwner

-----------------------------------------------------------------------------
\* A timer that the run has found expired and that is still ACTIVE has not been
\* given another expire time since: that takes the TM lock, or a SET_EXPIRE
\* state from which nobody makes it ACTIVE without the lock.
FireInv ==
    /\ run.now <= now
    /\ run.pc \in {"crit", "fire"} /\ state[run.t] = "ACTIVE" => expire[run.t] <= run.now

\* While the run looks at its timers nobody else owns the lock, and nobody
\* walks over the schedule list.
LEMMA RunAlone ==
    ASSUME TypeInv, LockInv, WalkInv, run.pc \in {"loop", "crit", "fire", "unlink"}
    PROVE  /\ lock = TimerCpu /\ call[TimerCpu].pc = "idle"
           /\ \A th \in Threads : call[th].pc \notin LockPcs
           /\ \A th \in Threads : MayLock(th) => th = TimerCpu
           /\ walk.pc = "none"
<1>1. lock = TimerCpu /\ call[TimerCpu].pc = "idle" /\ TimerCpu \in Threads /\ NULL \notin Threads
  BY ThreadsAssumption DEF LockInv, RunOwnsLock
<1>2. \A th \in Threads : call[th].pc \notin LockPcs
  BY <1>1 DEF LockInv, LockPcs
<1>3. \A th \in Threads : MayLock(th) => th = TimerCpu
  BY <1>1 DEF MayLock
<1>4. walk.pc = "none"
  BY <1>2 DEF WalkInv, Walker, LockPcs
<1> QED  BY <1>1, <1>2, <1>3, <1>4

\* A call about the timer the run looks at does not own the TM lock; without it
\* no call makes a timer ACTIVE nor changes the expire time of one that is.
LEMMA FireCall ==
    ASSUME TypeInv, LinkInv, FireInv, NEW th \in Threads, CallStep(th)
    PROVE  FireInv'
<1>1. PICK t \in Timers : t = call[th].t /\ About(t)
  BY CallAbout
<1>2. UNCHANGED <<now, run>> /\ run \in Runs
  BY DEF CallStep, TypeInv, RunTyped
<1>3. SUFFICES ASSUME run.pc \in {"crit", "fire"}, state'[run.t] = "ACTIVE"
               PROVE  expire'[run.t] <= run.now
  BY <1>2 DEF FireInv
<1>4. run.t \in Timers
  BY <1>3 DEF TypeInv, RunTyped
<1>5. CASE run.t # t
  BY <1>1, <1>3, <1>4, <1>5 DEF About, FireInv
<1>6. CASE run.t = t
  <2>1. ~MayLock(th) /\ call[th].pc \notin LockPcs
    BY <1>3, RunAlone DEF LinkInv, CallStep, TryStart, StartExpire, StartLink, SetCas, Link,
       SetExpire, Publish, StopRead, StopCas, StopFallThru, Schedule, Scheduled, Destroy, Free
  <2>2. state[t] = "ACTIVE"
    BY <1>1, <1>3, <1>6, <2>1 DEF CallStep, TryStart, StartExpire, StartLink, SetCas, Link, SetExpire,
       Publish, StopRead, StopCas, StopFallThru, Schedule, Scheduled, Destroy, Free, Cas, LockPcs,
       TypeInv, StateTyped, SetTarget, Published, StopTarget
  <2>3. ~SetExpire(th)
    BY <1>1, <2>2 DEF SetExpire, LinkInv, SetInv, Sets, Setting
  <2>4. UNCHANGED expire
    BY <2>1, <2>3 DEF CallStep, TryStart, StartExpire, StartLink, SetCas, Link, LockPcs,
       Publish, StopRead, StopCas, StopFallThru, Schedule, Scheduled, Destroy, Free
  <2> QED  BY <1>3, <1>6, <2>2, <2>4 DEF FireInv
<1> QED  BY <1>5, <1>6

\* The run looks at the expire time and at the clock it read when it began.
LEMMA FireRun ==
    ASSUME TypeInv, RunInv, FireInv, StartRun \/ RunStep
    PROVE  FireInv'
<1>1. /\ run \in Runs /\ now \in Times /\ UNCHANGED <<now, expire>>
      /\ run.pc \in {"fire", "unlink", "callback"} => run.t \in Timers
      /\ run.now <= now
  BY DEF TypeInv, RunTyped, FlagsTyped, StartRun, RunStep, FireInv
<1>2. NoRun.pc = "idle" /\ NoRun.now = 0 /\ NoRun.t = NULL /\ NoRun.next = NULL
  BY DEF NoRun
<1>3. CASE RunNext
  BY <1>1, <1>3 DEF RunNext, Runs, Expired, FireInv
<1>4. CASE RunCrit
  BY <1>1, <1>4 DEF RunCrit, RunOn, Runs, FireInv
<1>5. CASE RunHead
  <2>1. run'.now = now /\ run'.pc = "loop"
    BY <1>2, <1>5 DEF RunHead, NoRun
  <2> QED  BY <1>1, <2>1 DEF FireInv, Times
<1>6. CASE RunDone
  BY <1>1, <1>2, <1>6 DEF RunDone, FireInv, Times
<1>7. CASE StartRun \/ RunLock \/ RunSchedule \/ RunFire \/ RunUnlink \/ RunReturn
  <2>1. run'.now = run.now /\ run'.pc \notin {"crit", "fire"}
    BY <1>1, <1>7 DEF StartRun, RunQueues, RunLock, RunSchedule, RunFire, RunUnlink, RunReturn,
       RunOn, RunLeave, Runs
  <2> QED  BY <1>1, <2>1 DEF FireInv
<1> QED  BY <1>3, <1>4, <1>5, <1>6, <1>7 DEF RunStep

\* A timer that the run is about to fire has expired.
LEMMA FireNext == TypeInv /\ LinkInv /\ FireInv /\ [Next]_vars => FireInv'
<1> SUFFICES ASSUME TypeInv, LinkInv, FireInv, [Next]_vars PROVE FireInv'
  OBVIOUS
<1>1. now \in Times /\ run \in Runs
  BY DEF TypeInv, FlagsTyped, RunTyped
<1>2. CASE Tick
  BY <1>1, <1>2 DEF Tick, FireInv, Times, Runs
<1>3. CASE Poll \/ UNCHANGED vars
  BY <1>3 DEF Poll, vars, FireInv
<1>4. CASE Walk
  <2>1. run.pc \notin {"crit", "fire"}
    BY <1>4, RunAlone DEF LinkInv, Walk, WalkPop, WalkReread, WalkUnlink, WalkSettle, WalkInsert,
       WalkPostpone
  <2>2. UNCHANGED <<run, now>>
    BY <1>4 DEF Walk
  <2> QED  BY <2>1, <2>2 DEF FireInv
<1>5. ASSUME NEW th \in Threads, Client(th) PROVE FireInv'
  <2>1. UNCHANGED <<state, expire, run, now>>
    BY <1>5, ClientBegins DEF Begun, Begin
  <2> QED  BY <2>1 DEF FireInv
<1> QED  BY <1>2, <1>3, <1>4, <1>5, FireCall, FireRun DEF Next, LinkInv

\* Steps that change no alarm and leave the clock alone stutter.
LEMMA AlarmsKept ==
    ASSUME UNCHANGED now, \A u \in Timers : AlarmOf(u)' = AlarmOf(u)
    PROVE  UNCHANGED A!vars
<1>1. Alarms' = Alarms
  BY DEF Alarms
<1> QED  BY <1>1 DEF A!vars

\* A step that is about one timer arms it, disarms it, or leaves it alone.
LEMMA AboutSets ==
    ASSUME TypeInv, TypeInv', NEW t \in Timers, About(t)
    PROVE  A!Next \/ UNCHANGED A!vars
<1>1. UNCHANGED now
  BY DEF About
<1>2. \A u \in Timers \ {t} : AlarmOf(u)' = AlarmOf(u)
  BY SameAlarm DEF About
<1>3. CASE AlarmOf(t)' = AlarmOf(t)
  BY <1>1, <1>2, <1>3, AlarmsKept
<1>4. CASE AlarmOf(t)' \in Times \cup {-2}
  <2>1. Alarms' = [Alarms EXCEPT ![t] = AlarmOf(t)']
    BY <1>2 DEF Alarms
  <2>2. A!Set(t, AlarmOf(t)')
    BY <1>1, <2>1 DEF A!Set
  <2>3. A!Arm(t) \/ A!Disarm(t)
    BY <1>4, <2>2 DEF A!Arm, A!Disarm
  <2> QED  BY <2>3 DEF A!Next
<1>5. AlarmOf(t)' = AlarmOf(t) \/ AlarmOf(t)' \in Times \cup {-2}
  <2>1. expire'[t] \in Times
    BY DEF TypeInv, StateTyped
  <2>2. CASE state'[t] \in Ring
    <3>1. state[t] \in Ring
      BY <2>2 DEF About
    <3> QED  BY <2>2, <3>1 DEF AlarmOf, Armed, Ring
  <2>3. CASE state'[t] \notin Ring
    BY <2>1, <2>3 DEF AlarmOf, Armed, Ring
  <2> QED  BY <2>2, <2>3
<1> QED  BY <1>3, <1>4, <1>5

\* A timer that the run fires was armed, and for a time that has come.
LEMMA RunFires ==
    ASSUME TypeInv, LinkInv, FireInv, StartRun \/ RunStep
    PROVE  A!Next \/ UNCHANGED A!vars
<1> USE DEF LinkInv
<1>1. UNCHANGED <<now, expire, call>>
  BY RunAbout
<1>2. \A u \in Timers : Starting(u)' <=> Starting(u)
  BY <1>1 DEF Starting
<1>3. CASE UNCHANGED state
  <2>1. \A u \in Timers : AlarmOf(u)' = AlarmOf(u)
    BY <1>1, <1>2, <1>3, SameAlarm
  <2> QED  BY <1>1, <2>1, AlarmsKept
<1>4. CASE /\ run.pc \in {"fire", "unlink", "callback"} /\ run.t \in Timers
           /\ \A u \in Timers \ {run.t} : state'[u] = state[u]
           /\ \/ /\ run.pc = "fire" /\ state[run.t] = "ACTIVE"
                 /\ state'[run.t] = "EXPIRED_GET_UNLINK"
              \/ state[run.t] \in Ring /\ state'[run.t] \in {"EXPIRED_DELIVER", "STOPPED"}
  <2>1. PICK t \in Timers : t = run.t
    BY <1>4
  <2>2. \A u \in Timers \ {t} : AlarmOf(u)' = AlarmOf(u)
    BY <1>1, <1>2, <1>4, <2>1, SameAlarm
  <2>3. Alarms' = [Alarms EXCEPT ![t] = AlarmOf(t)']
    BY <2>2 DEF Alarms
  <2>4. A!Set(t, AlarmOf(t)')
    BY <1>1, <2>3 DEF A!Set
  <2>5. CASE run.pc = "fire" /\ state[t] = "ACTIVE" /\ state'[t] = "EXPIRED_GET_UNLINK"
    <3>1. ~Starting(t)
      BY <2>5, RunAlone DEF Starting, LockPcs
    <3>2. AlarmOf(t) = expire[t] /\ AlarmOf(t)' = -1
      BY <2>5, <3>1 DEF AlarmOf, Armed
    <3>3. expire[t] \in Times /\ expire[t] <= now
      BY <2>1, <2>5 DEF TypeInv, StateTyped, RunTyped, Runs, FlagsTyped, Times, FireInv
    <3>4. Alarms[t] = expire[t]
      BY <3>2 DEF Alarms
    <3>5. A!GoOff(t)
      BY <2>4, <3>2, <3>3, <3>4 DEF A!GoOff
    <3> QED  BY <3>5 DEF A!Next
  <2>6. CASE state[t] \in Ring /\ state'[t] = "EXPIRED_DELIVER"
    <3>1. AlarmOf(t) = -1 /\ AlarmOf(t)' = -1
      BY <2>6 DEF AlarmOf, Armed, Ring
    <3> QED  BY <1>1, <2>2, <3>1, AlarmsKept
  <2>7. CASE state'[t] = "STOPPED"
    <3>1. AlarmOf(t)' = -2
      BY <2>7 DEF AlarmOf, Armed
    <3>2. A!Disarm(t)
      BY <2>4, <3>1 DEF A!Disarm
    <3> QED  BY <3>2 DEF A!Next
  <2> QED  BY <1>4, <2>1, <2>5, <2>6, <2>7
<1> QED  BY <1>3, <1>4, RunAbout

\* Initially every alarm is off.
LEMMA AlarmInit == Init => A!Init
<1> SUFFICES ASSUME Init PROVE A!Init
  OBVIOUS
<1>1. \A t \in Timers : AlarmOf(t) = -2
  BY DEF Init, AlarmOf, Armed
<1> QED  BY <1>1 DEF Init, A!Init, Alarms

\* Every step of the timers is a step of the abstract alarm, or stutters.
LEMMA AlarmNext ==
    TypeInv /\ TypeInv' /\ LinkInv /\ FireInv /\ [Next]_vars => [A!Next]_(A!vars)
<1> SUFFICES ASSUME TypeInv, TypeInv', LinkInv, FireInv, [Next]_vars
             PROVE  A!Next \/ UNCHANGED A!vars
  OBVIOUS
<1> USE DEF LinkInv
<1>1. CASE Tick
  <2>1. UNCHANGED <<state, expire, call>> /\ now' = now + 1
    BY <1>1 DEF Tick
  <2>2. \A u \in Timers : Starting(u)' <=> Starting(u)
    BY <2>1 DEF Starting
  <2>3. Alarms' = Alarms
    BY <2>1, <2>2, SameAlarm DEF Alarms
  <2> QED  BY <2>1, <2>3 DEF A!Next, A!Tick
<1>2. CASE Poll \/ UNCHANGED vars
  <2>1. UNCHANGED <<state, expire, call, now>>
    BY <1>2 DEF Poll, vars
  <2>2. \A u \in Timers : Starting(u)' <=> Starting(u)
    BY <2>1 DEF Starting
  <2> QED  BY <2>1, <2>2, SameAlarm, AlarmsKept
<1>3. CASE Walk
  BY <1>3, WalkAbout, AlarmsKept
<1>4. ASSUME NEW th \in Threads, Client(th) PROVE UNCHANGED A!vars
  BY <1>4, ClientAbout, AlarmsKept
<1>5. ASSUME NEW th \in Threads, CallStep(th) PROVE A!Next \/ UNCHANGED A!vars
  BY <1>5, CallAbout, AboutSets
<1>6. CASE StartRun \/ RunStep
  BY <1>6, RunFires
<1> QED  BY <1>1, <1>2, <1>3, <1>4, <1>5, <1>6 DEF Next

\* The timers implement the abstract alarm: whatever calls, scheduling and runs of
\* the queue do to each other, tmR3TimerQueueRun makes a timer go off only while it
\* is armed, not before the expire time it was armed for last, and once.
THEOREM AlarmImplemented == Spec => ImplementsAlarm
<1>1. Init => TypeInv /\ LinkInv /\ FireInv
  <2>1. Init => FireInv
    BY DEF Init, FireInv, NoRun
  <2> QED  BY <2>1, InitType, InitLink
<1>2. TypeInv /\ LinkInv /\ FireInv /\ [Next]_vars => (TypeInv /\ LinkInv /\ FireInv)'
  BY NextType, NextLink, FireNext
<1> QED  BY <1>1, <1>2, AlarmInit, AlarmNext, PTL DEF Spec, ImplementsAlarm, A!Spec
=============================================================================
