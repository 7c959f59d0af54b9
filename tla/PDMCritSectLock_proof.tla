----------------------- MODULE PDMCritSectLock_proof -----------------------
(***************************************************************************)
(* Further proofs about PDMCritSect: what the leaves, the queue and the    *)
(* counters do, that the sections implement RecursiveLock, and that no     *)
(* wake-up is lost.  MutexInv, proved in PDMCritSect_proof, says who is    *)
(* inside a section; three more invariants stand on it.                    *)
(***************************************************************************)
EXTENDS PDMCritSect_proof, FiniteSetTheorems

-----------------------------------------------------------------------------
(* The strengthened invariants.                                            *)

LeavePcs == {"unnest", "flag", "release", "count", "unlock", "signal", "exitsig"}
RzPcs    == {"rzNest", "rzFlag", "rzOwner", "rzCas", "rzRetake", "rzRenest", "rzQueue"}

NoRepeats(q) == \A i, j \in 1..Len(q) : q[i] = q[j] => i = j

\* Which contexts, callers and queues go with a program counter: a leave that
\* queues runs in RZ for a client, PDMCritSectFF runs in ring-3, and only while
\* it runs is there a queue in ring-3 or a queue partly worked off.
Control(t) ==
    /\ pc[t] \in RzPcs => ctx[t] = "RZ" /\ caller[t] = "client"
    /\ caller[t] = "ff" => pc[t] \in LeavePcs \cup {"ff"} /\ ctx[t] = "R3"
    /\ pc[t] = "ff" => ctx[t] = "R3"
    /\ fi[t] > 0 => caller[t] = "ff"
    /\ ctx[t] = "R3" /\ queue[t] # <<>> => pc[t] = "ff" \/ caller[t] = "ff"
    /\ call[t] # "none" => /\ ctx[t] = "R3"
                           /\ pc[t] # "idle"
                           /\ pc[t] \in LeavePcs => caller[t] = "ff"
    /\ NoRepeats(queue[t])

QueuedCount(t, s) == IF Queued(t, s) THEN 1 ELSE 0

\* cNestings counts what the client entered, the queued leave, and the leave
\* for good that has not reset it yet.
LeavingPcs == {"flag", "release", "rzNest", "rzQueue"}
Leaving(t, s) == IF At(t, s, LeavingPcs) THEN 1 ELSE 0

NestInv(t, s) ==
    /\ depth[t][s] >= 0
    /\ Holds(t, s) \/ Queued(t, s) => owner[s] = t
    /\ owner[s] = t => cNestings[s] = depth[t][s] + QueuedCount(t, s) + Leaving(t, s)
    /\ At(t, s, LeavingPcs \cup {"count"}) => cNestings[s] = 1
    /\ At(t, s, {"rzFlag", "rzOwner", "rzCas", "rzRetake", "rzRenest"}) => cNestings[s] = 0

\* An exit event is scheduled for an owner in ring-3 client code, or one that
\* runs there without having been called from elsewhere.
ExitInv(s) ==
    exitEvent[s] => \A t \in Threads : owner[s] = t =>
                      Holds(t, s) /\ ctx[t] = "R3" /\ call[t] = "none"

ExitOwned(s) == exitEvent[s] => owner[s] # NIL

NestAll == /\ \A t \in Threads : Control(t)
           /\ \A t \in Threads, s \in Sects : NestInv(t, s)
           /\ \A s \in Sects : ExitInv(s) /\ ExitOwned(s)

\* What the thread inside a section counts in cLockers, beside the waiters.
Share(t, s) ==
    IF At(t, s, {"first", "unlock", "rzFlag", "rzOwner", "rzCas", "rzRetake", "rzRenest"})
      THEN 0
      ELSE IF At(t, s, {"nest", "unnest"}) THEN cNestings[s] ELSE cNestings[s] - 1

Counts(t, s) == Inside(t, s) /\ ~At(t, s, {"signal"})

CountInv(s) ==
    /\ \A t \in Threads : Counts(t, s) => cLockers[s] = Share(t, s) + Cardinality(Waiters(s))
    /\ (\A t \in Threads : ~Counts(t, s)) => cLockers[s] = Cardinality(Waiters(s)) - 1

CountAll == \A s \in Sects : CountInv(s)

-----------------------------------------------------------------------------
(* What every step has in common: it is about one section s, and leaves    *)
(* the other threads and the other sections alone.                         *)

Elsewhere(u) ==
    /\ ctx'[u] = ctx[u] /\ caller'[u] = caller[u] /\ call'[u] = call[u]
    /\ queue'[u] = queue[u] /\ fi'[u] = fi[u] /\ depth'[u] = depth[u]

Moves(t, s) ==
    /\ Acts(t, s)
    /\ pc[t] = "wait" => sect[t] = s
    /\ \A u \in Threads \ {t} : Elsewhere(u)
    /\ \A r \in Sects \ {s} : /\ exitEvent'[r] = exitEvent[r]
                              /\ depth'[t][r] = depth[t][r]
                              /\ Queued(t, r)' <=> Queued(t, r)

QueueKept(t) == queue'[t] = queue[t] /\ fi'[t] = fi[t]

LEMMA QueuedKept ==
    ASSUME NEW t \in Threads, QueueKept(t)
    PROVE  \A r \in Sects : Queued(t, r)' <=> Queued(t, r)
BY DEF QueueKept, Queued

\* What a step says about another section of its thread.
LEMMA MovesAway ==
    ASSUME NEW t \in Threads, NEW s \in Sects, Moves(t, s), NEW r \in Sects, r # s
    PROVE  /\ Untouched(r)
           /\ exitEvent'[r] = exitEvent[r]
           /\ depth'[t][r] = depth[t][r]
           /\ Queued(t, r)' <=> Queued(t, r)
           /\ sect'[t] # r
           /\ pc[t] \in InPcs => sect[t] # r
<1>1. Acts(t, s) /\ r \in Sects \ {s}
  BY DEF Moves
<1> QED  BY <1>1 DEF Moves, Acts

\* Ownership and nestings change only in the hands of whoever is inside.
Inward(t, s) ==
    \/ cNestings'[s] = cNestings[s] /\ owner'[s] = owner[s]
    \/ Inside(t, s) /\ owner'[s] \in {owner[s], t, NIL}

\* A thread that holds a section leaves ring-3 only to where it was called from.
StaysInR3(t) ==
    HoldsNone(t) \/ (ctx[t] = "R3" /\ call[t] = "none" => ctx'[t] = "R3" /\ call'[t] = "none")

\* What a step has to keep about its own thread and section, ...
NestHere(t, s) == Control(t) /\ NestInv(t, s) /\ ExitInv(s) /\ ExitOwned(s)

\* ... and that this is enough.
LEMMA NestFrame ==
    ASSUME TypeOK, MutexInv, NestAll, NEW t \in Threads, NEW s \in Sects,
           Moves(t, s), Inward(t, s), StaysInR3(t), NestHere(t, s)'
    PROVE  NestAll'
<1>1. ASSUME NEW u \in Threads  PROVE Control(u)'
  <2>1. CASE u = t
    BY <2>1 DEF NestHere
  <2>2. CASE u # t
    BY <2>2 DEF NestAll, Control, Moves, Acts, Elsewhere
  <2> QED  BY <2>1, <2>2
<1>2. ASSUME NEW u \in Threads, NEW r \in Sects  PROVE NestInv(u, r)'
  <2>1. CASE u = t /\ r = s
    BY <2>1 DEF NestHere
  <2>2. CASE u = t /\ r # s
    <3>1. /\ NestInv(t, r) /\ Untouched(r) /\ depth'[t][r] = depth[t][r]
          /\ Queued(t, r)' <=> Queued(t, r)
          /\ sect'[t] # r
          /\ pc[t] \in InPcs => sect[t] # r
      BY <2>2, MovesAway DEF NestAll
    <3> QED
      BY <2>2, <3>1 DEF NestInv, QueuedCount, Leaving, LeavingPcs, At, Holds,
         Untouched, InPcs, OwnerPcs, HandlingPcs
  <2>3. CASE u # t
    <3>1. /\ NestInv(u, r) /\ Elsewhere(u)
          /\ pc'[u] = pc[u] /\ sect'[u] = sect[u]
      BY <2>3 DEF NestAll, Moves, Acts
    <3>2. Queued(u, r)' <=> Queued(u, r)
      BY <3>1 DEF Elsewhere, Queued
    <3>3. CASE cNestings'[r] = cNestings[r] /\ owner'[r] = owner[r]
      BY <3>1, <3>2, <3>3 DEF NestInv, Elsewhere, QueuedCount, Leaving, At, Holds
    <3>4. CASE ~(cNestings'[r] = cNestings[r] /\ owner'[r] = owner[r])
      <4>1. r = s /\ Inside(t, s) /\ owner'[s] \in {owner[s], t, NIL}
        BY <3>4 DEF Moves, Acts, Untouched, Inward
      <4>2. ~Inside(u, s) /\ PcOwner(s)
        BY <2>3, <4>1 DEF MutexInv, SectInv, Exclusive
      <4>3. owner[s] # u /\ owner'[s] # u /\ ~At(u, s, InPcs)
        BY <2>3, <4>1, <4>2, ThreadsAssumption DEF Inside, PcOwner, At, InPcs
      <4> QED
        BY <3>1, <3>2, <4>1, <4>3 DEF NestInv, Elsewhere, QueuedCount, Leaving,
           LeavingPcs, At, Holds, InPcs, OwnerPcs, HandlingPcs
    <3> QED  BY <3>3, <3>4
  <2> QED  BY <2>1, <2>2, <2>3
<1>3. ASSUME NEW r \in Sects  PROVE ExitInv(r)' /\ ExitOwned(r)'
  <2>1. CASE r = s
    BY <2>1 DEF NestHere
  <2>2. CASE r # s
    <3>1. exitEvent'[r] = exitEvent[r] /\ owner'[r] = owner[r] /\ ExitOwned(r)
      BY <2>2, MovesAway DEF Untouched, NestAll
    <3>2. ASSUME exitEvent[r], NEW u \in Threads, owner[r] = u
          PROVE  Holds(u, r)' /\ ctx'[u] = "R3" /\ call'[u] = "none"
      <4>1. Holds(u, r) /\ ctx[u] = "R3" /\ call[u] = "none"
        BY <3>2 DEF NestAll, ExitInv
      <4>2. CASE u = t
        BY <2>2, <4>1, <4>2, MovesAway DEF Holds, HoldsNone, StaysInR3
      <4>3. CASE u # t
        BY <4>1, <4>3 DEF Moves, Elsewhere, Holds
      <4> QED  BY <4>2, <4>3
    <3> QED  BY <3>1, <3>2 DEF ExitInv, ExitOwned
  <2> QED  BY <2>1, <2>2
<1> QED  BY <1>1, <1>2, <1>3 DEF NestAll

\* The same for the counts: what a step keeps for s is enough.
LEMMA CountFrame ==
    ASSUME TypeOK, CountAll, NEW t \in Threads, NEW s \in Sects, Moves(t, s), CountInv(s)'
    PROVE  CountAll'
<1> SUFFICES ASSUME NEW r \in Sects, r # s  PROVE CountInv(r)'
  BY DEF CountAll
<1>1. CountInv(r) /\ Untouched(r)
  BY DEF CountAll, Moves, Acts
<1>2. ASSUME NEW u \in Threads, NEW L, L \subseteq InPcs \cup {"wait"}
      PROVE  At(u, r, L)' <=> At(u, r, L)
  BY <1>2 DEF Moves, Acts, At
<1>3. Waiters(r)' = Waiters(r)
  BY <1>2 DEF Waiters
<1>4. ASSUME NEW u \in Threads
      PROVE  /\ Counts(u, r)' <=> Counts(u, r)
             /\ Share(u, r)' = Share(u, r)
  <2>1. /\ At(u, r, HandlingPcs)' <=> At(u, r, HandlingPcs)
        /\ At(u, r, {"signal"})' <=> At(u, r, {"signal"})
        /\ At(u, r, {"nest", "unnest"})' <=> At(u, r, {"nest", "unnest"})
        /\ At(u, r, {"first", "unlock", "rzFlag", "rzOwner", "rzCas", "rzRetake", "rzRenest"})'
             <=> At(u, r, {"first", "unlock", "rzFlag", "rzOwner", "rzCas", "rzRetake", "rzRenest"})
    BY <1>2 DEF InPcs, OwnerPcs, HandlingPcs
  <2> QED  BY <1>1, <2>1 DEF Counts, Inside, Share, Untouched
<1> QED  BY <1>1, <1>3, <1>4 DEF CountInv, Untouched

-----------------------------------------------------------------------------
(* Every action moves.                                                     *)

\* A step that leaves the queue alone moves if it changes s only.
LEMMA QuietMoves ==
    ASSUME TypeOK, NEW t \in Threads, NEW s \in Sects, Acts(t, s), QueueKept(t),
           pc[t] = "wait" => sect[t] = s,
           \A u \in Threads \ {t} : Elsewhere(u),
           \A r \in Sects \ {s} : exitEvent'[r] = exitEvent[r] /\ depth'[t][r] = depth[t][r]
    PROVE  Moves(t, s)
BY QueuedKept DEF Moves

LEMMA EnterCasMoves ==
    ASSUME TypeOK, NEW t \in Threads, NEW s \in Sects, pc[t] \notin InPcs \cup {"wait"},
           EnterCas(t, s), EnterFrame, sect' = [sect EXCEPT ![t] = s]
    PROVE  Moves(t, s)
<1>1. Acts(t, s)
  <2>1. CASE Lucky(t, s)
    BY <2>1 DEF Lucky, EnterFrame, NextPc, TypeOK, Acts, Untouched
  <2>2. CASE Nested(t, s)
    BY <2>2 DEF Nested, EnterFrame, NextPc, TypeOK, Acts, Untouched
  <2>3. CASE NextPc(t, "spin") /\ UNCHANGED cLockers
    BY <2>3 DEF EnterFrame, NextPc, TypeOK, Acts, Untouched
  <2> QED  BY <2>1, <2>2, <2>3 DEF EnterCas
<1>2. QueueKept(t) /\ \A u \in Threads \ {t} : Elsewhere(u)
  BY DEF EnterFrame, QueueKept, Elsewhere
<1> QED  BY <1>1, <1>2, QuietMoves DEF EnterFrame

LEMMA LeaveByMoves ==
    ASSUME TypeOK, NEW t \in Threads, NEW s \in Sects, NEW c,
           pc[t] \notin InPcs \cup {"wait"}, LeaveBy(t, s, c),
           \A u \in Threads \ {t} : fi'[u] = fi[u] /\ depth'[u] = depth[u],
           \A r \in Sects \ {s} : /\ depth'[t][r] = depth[t][r]
                                  /\ Queued(t, r)' <=> Queued(t, r)
    PROVE  Moves(t, s)
<1>1. Acts(t, s) /\ \A r \in Sects \ {s} : exitEvent'[r] = exitEvent[r]
  <2>1. CASE LeaveNested(t, s)
    BY <2>1 DEF LeaveNested, LeaveBy, NextPc, TypeOK, Acts, Untouched
  <2>2. CASE LeaveForReal(t, s)
    BY <2>2 DEF LeaveForReal, LeaveBy, NextPc, TypeOK, Acts, Untouched
  <2>3. CASE LeaveTry(t, s)
    BY <2>3 DEF LeaveTry, LeaveBy, NextPc, TypeOK, Acts, Untouched
  <2> QED  BY <2>1, <2>2, <2>3 DEF LeaveBy
<1>2. \A u \in Threads \ {t} : Elsewhere(u)
  BY DEF LeaveBy, TypeOK, Elsewhere
<1> QED  BY <1>1, <1>2 DEF Moves

LEMMA EntersMoves ==
    ASSUME TypeOK, NEW t \in Threads, Enters(t)
    PROVE  Moves(t, sect[t])
<1> DEFINE s == sect[t]
<1>1. /\ s \in Sects
      /\ sect' = sect => sect' = [sect EXCEPT ![t] = s]
  BY DEF TypeOK
<1> HIDE DEF s
<1> USE DEF InPcs, OwnerPcs, HandlingPcs
<1>2. CASE EnterAgain(t)
  BY <1>1, <1>2, EnterCasMoves DEF EnterAgain, s
<1>3. CASE SpinWin(t)
  BY <1>1, <1>3, EnterCasMoves DEF SpinWin, EnterCas, s
<1>4. CASE SpinOut(t) \/ Busy(t)
  <2>1. Acts(t, s) /\ QueueKept(t) /\ \A u \in Threads \ {t} : Elsewhere(u)
    BY <1>4 DEF SpinOut, Busy, EnterFrame, NextPc, TypeOK, Acts, Untouched, QueueKept,
       Elsewhere, s
  <2> QED  BY <1>1, <1>4, <2>1, QuietMoves DEF SpinOut, Busy, EnterFrame, s
<1>5. CASE RingCall(t)
  <2>1. Acts(t, s) /\ QueueKept(t) /\ \A u \in Threads \ {t} : Elsewhere(u)
    BY <1>5 DEF RingCall, shared, NextPc, TypeOK, Acts, Untouched, QueueKept, Elsewhere, s
  <2> QED  BY <1>1, <1>5, <2>1, QuietMoves DEF RingCall, shared, s
<1>6. CASE Contend(t)
  <2>1. Acts(t, s) /\ QueueKept(t) /\ \A u \in Threads \ {t} : Elsewhere(u)
    BY <1>6 DEF Contend, ContendWins, EnterFrame, NextPc, TypeOK, Acts, Untouched,
       QueueKept, Elsewhere, s
  <2> QED  BY <1>1, <1>6, <2>1, QuietMoves DEF Contend, EnterFrame, s
<1>7. CASE Wake(t)
  <2>1. Acts(t, s) /\ QueueKept(t) /\ \A u \in Threads \ {t} : Elsewhere(u)
    BY <1>7 DEF Wake, NextPc, TypeOK, Acts, Untouched, QueueKept, Elsewhere, s
  <2> QED  BY <1>1, <1>7, <2>1, QuietMoves DEF Wake, s
<1>8. CASE First(t)
  <2>1. Acts(t, s) /\ QueueKept(t) /\ \A u \in Threads \ {t} : Elsewhere(u)
    BY <1>8 DEF First, NextPc, TypeOK, Acts, Untouched, QueueKept, Elsewhere, s
  <2> QED  BY <1>1, <1>8, <2>1, QuietMoves DEF First, s
<1>9. ASSUME Entered(t)
      PROVE  /\ QueueKept(t) /\ \A u \in Threads \ {t} : Elsewhere(u)
             /\ \A r \in Sects \ {s} : exitEvent'[r] = exitEvent[r] /\ depth'[t][r] = depth[t][r]
  BY <1>1, <1>9 DEF Entered, Deepen, TypeOK, QueueKept, Elsewhere, s
<1>10. CASE Own(t)
  <2>1. Acts(t, s)
    BY <1>10 DEF Own, Entered, NextPc, TypeOK, Acts, Untouched, s
  <2>2. Entered(t) /\ pc[t] # "wait"
    BY <1>10 DEF Own
  <2> HIDE DEF InPcs, OwnerPcs, HandlingPcs
  <2> QED  BY <1>1, <1>9, <2>1, <2>2, QuietMoves DEF s
<1>11. CASE Nest(t)
  <2>1. Acts(t, s)
    BY <1>11 DEF Nest, Entered, NextPc, TypeOK, Acts, Untouched, s
  <2>2. Entered(t) /\ pc[t] # "wait"
    BY <1>11 DEF Nest
  <2> HIDE DEF InPcs, OwnerPcs, HandlingPcs
  <2> QED  BY <1>1, <1>9, <2>1, <2>2, QuietMoves DEF s
<1> QED
  BY <1>2, <1>3, <1>4, <1>5, <1>6, <1>7, <1>8, <1>10, <1>11 DEF Enters, s

LEMMA LeavesMove ==
    ASSUME TypeOK, NEW t \in Threads, Leaves(t)
    PROVE  Moves(t, sect[t])
<1> DEFINE s == sect[t]
<1>1. s \in Sects /\ pc[t] # "wait"
  BY DEF TypeOK, Leaves, Unnest, Flag, Release, Count, Unlock, Signal, ExitSignal
<1>2. /\ QueueKept(t) /\ \A u \in Threads \ {t} : Elsewhere(u)
      /\ \A r \in Sects \ {s} : exitEvent'[r] = exitEvent[r] /\ depth'[t][r] = depth[t][r]
  BY DEF Leaves, Unnest, Flag, Release, Count, Unlock, Signal, ExitSignal, LeaveFrame,
     shared, QueueKept, Elsewhere
<1>3. Acts(t, s)
  <2>1. CASE Unnest(t)
    BY <2>1 DEF Unnest, LeaveFrame, NextPc, TypeOK, Acts, Untouched
  <2>2. CASE Flag(t)
    BY <2>2 DEF Flag, LeaveFrame, NextPc, TypeOK, Acts, Untouched
  <2>3. CASE Release(t)
    BY <2>3 DEF Release, NextPc, TypeOK, Acts, Untouched
  <2>4. CASE Count(t)
    BY <2>4 DEF Count, LeaveFrame, NextPc, TypeOK, Acts, Untouched
  <2>5. CASE Unlock(t)
    BY <2>5 DEF Unlock, UnlockWakes, LeaveFrame, NextPc, TypeOK, Acts, Untouched
  <2>6. CASE Signal(t)
    BY <2>6 DEF Signal, NextPc, TypeOK, Acts, Untouched
  <2>7. CASE ExitSignal(t)
    BY <2>7 DEF ExitSignal, shared, NextPc, TypeOK, Acts, Untouched
  <2> QED  BY <2>1, <2>2, <2>3, <2>4, <2>5, <2>6, <2>7 DEF Leaves
<1> HIDE DEF s
<1> QED  BY <1>1, <1>2, <1>3, QuietMoves DEF s

LEMMA RzLeavesMove ==
    ASSUME TypeOK, NEW t \in Threads, RzLeaves(t)
    PROVE  Moves(t, sect[t])
<1> DEFINE s == sect[t]
<1>1. s \in Sects /\ pc[t] # "wait"
  BY DEF TypeOK, RzLeaves, RzNest, RzFlag, RzOwner, RzCas, RzRetake, RzRenest, RzQueue
<1>2. /\ \A u \in Threads \ {t} : Elsewhere(u)
      /\ \A r \in Sects \ {s} : /\ exitEvent'[r] = exitEvent[r]
                                /\ depth'[t][r] = depth[t][r]
  BY DEF RzLeaves, RzNest, RzFlag, RzOwner, RzCas, RzRetake, RzRenest, RzQueue,
     LeaveFrame, TypeOK, Elsewhere
<1>3. Acts(t, s)
  <2>1. CASE RzNest(t)
    BY <2>1 DEF RzNest, LeaveFrame, NextPc, TypeOK, Acts, Untouched
  <2>2. CASE RzFlag(t)
    BY <2>2 DEF RzFlag, LeaveFrame, NextPc, TypeOK, Acts, Untouched
  <2>3. CASE RzOwner(t)
    BY <2>3 DEF RzOwner, NextPc, TypeOK, Acts, Untouched
  <2>4. CASE RzCas(t)
    BY <2>4 DEF RzCas, RzAlone, LeaveFrame, NextPc, TypeOK, Acts, Untouched
  <2>5. CASE RzRetake(t)
    BY <2>5 DEF RzRetake, NextPc, TypeOK, Acts, Untouched
  <2>6. CASE RzRenest(t)
    BY <2>6 DEF RzRenest, LeaveFrame, NextPc, TypeOK, Acts, Untouched
  <2>7. CASE RzQueue(t)
    BY <2>7 DEF RzQueue, NextPc, TypeOK, Acts, Untouched
  <2> QED  BY <2>1, <2>2, <2>3, <2>4, <2>5, <2>6, <2>7 DEF RzLeaves
<1>4. CASE RzQueue(t)
  <2>1. /\ queue'[t] = Append(queue[t], s) /\ fi'[t] = fi[t]
        /\ queue[t] \in Seq(Sects) /\ fi[t] \in Nat
    BY <1>4 DEF RzQueue, TypeOK
  <2>2. \A r \in Sects \ {s} : Queued(t, r)' <=> Queued(t, r)
    BY <2>1 DEF Queued
  <2> QED  BY <1>1, <1>2, <1>3, <2>2 DEF Moves
<1>5. CASE ~RzQueue(t)
  <2>1. QueueKept(t)
    BY <1>5 DEF RzLeaves, RzNest, RzFlag, RzOwner, RzCas, RzRetake, RzRenest,
       LeaveFrame, QueueKept
  <2> HIDE DEF s
  <2> QED  BY <1>1, <1>2, <1>3, <2>1, QuietMoves DEF s
<1> QED  BY <1>4, <1>5

\* One turn of PDMCritSectFF takes its section off the queue.
LEMMA FFLeaveQueue ==
    ASSUME TypeOK, NEW t \in Threads, FFLeave(t), NoRepeats(queue[t]),
           NEW s \in Sects, s = queue[t][fi[t] + 1]
    PROVE  /\ Queued(t, s) /\ ~Queued(t, s)'
           /\ \A r \in Sects \ {s} : Queued(t, r)' <=> Queued(t, r)
<1>1. /\ queue'[t] = queue[t] /\ fi'[t] = fi[t] + 1 /\ fi[t] < Len(queue[t])
      /\ queue[t] \in Seq(Sects) /\ fi[t] \in Nat
  BY DEF FFLeave, LeaveBy, TypeOK
<1>2. fi[t] + 1 \in 1..Len(queue[t])
  BY <1>1
<1>3. \A i \in 1..Len(queue[t]) : queue[t][i] = s => i = fi[t] + 1
  BY <1>2 DEF NoRepeats
<1>4. Queued(t, s) /\ ~Queued(t, s)'
  BY <1>1, <1>2, <1>3 DEF Queued
<1>5. ASSUME NEW r \in Sects, r # s  PROVE Queued(t, r)' <=> Queued(t, r)
  BY <1>1, <1>5 DEF Queued
<1> QED  BY <1>4, <1>5

LEMMA FFLeaveMoves ==
    ASSUME TypeOK, NEW t \in Threads, Control(t), FFLeave(t),
           NEW s \in Sects, s = queue[t][fi[t] + 1]
    PROVE  Moves(t, s)
<1>1. \A r \in Sects \ {s} : Queued(t, r)' <=> Queued(t, r)
  BY FFLeaveQueue DEF Control
<1>2. /\ pc[t] \notin InPcs \cup {"wait"} /\ LeaveBy(t, s, "ff")
      /\ \A u \in Threads \ {t} : fi'[u] = fi[u] /\ depth'[u] = depth[u]
      /\ \A r \in Sects \ {s} : depth'[t][r] = depth[t][r]
  BY DEF FFLeave, TypeOK, InPcs, OwnerPcs, HandlingPcs
<1> QED  BY <1>1, <1>2, LeaveByMoves

LEMMA FFDoneMoves ==
    ASSUME TypeOK, NEW t \in Threads, FFDone(t), NEW s \in Sects, s = sect'[t]
    PROVE  Moves(t, s)
<1>1. Acts(t, s) /\ pc[t] # "wait"
  BY DEF FFDone, FFReturns, shared, NextPc, TypeOK, Acts, Untouched, InPcs, OwnerPcs,
     HandlingPcs
<1>2. /\ \A u \in Threads \ {t} : Elsewhere(u)
      /\ \A r \in Sects \ {s} : exitEvent'[r] = exitEvent[r] /\ depth'[t][r] = depth[t][r]
  BY DEF FFDone, FFReturns, shared, TypeOK, Elsewhere
<1>3. \A r \in Sects : ~Queued(t, r) /\ ~Queued(t, r)'
  BY DEF FFDone, TypeOK, Queued
<1> QED  BY <1>1, <1>2, <1>3 DEF Moves

\* The client's steps.  ScheduleExitEvent is about a section that need not be
\* the one of the thread's last operation, and has a lemma of its own below.
LEMMA EnterMoves ==
    ASSUME TypeOK, NEW t \in Threads, NEW s \in Sects, Enter(t, s) \/ TryEnter(t, s)
    PROVE  Moves(t, s)
<1>1. /\ EnterCas(t, s) /\ EnterFrame /\ sect' = [sect EXCEPT ![t] = s]
      /\ pc[t] \notin InPcs \cup {"wait"}
  BY DEF Enter, TryEnter, EnterCas, InPcs, OwnerPcs, HandlingPcs
<1> QED  BY <1>1, EnterCasMoves

LEMMA LeaveMoves ==
    ASSUME TypeOK, NEW t \in Threads, NEW s \in Sects, Leave(t, s) \/ Yield(t, s)
    PROVE  Moves(t, s)
<1>1. PICK c : LeaveBy(t, s, c)
  BY DEF Leave, Yield
<1>2. /\ pc[t] \notin InPcs \cup {"wait"}
      /\ \A u \in Threads \ {t} : fi'[u] = fi[u] /\ depth'[u] = depth[u]
      /\ \A r \in Sects \ {s} : depth'[t][r] = depth[t][r]
  BY DEF Leave, Yield, Shallow, TypeOK, InPcs, OwnerPcs, HandlingPcs
<1>3. QueueKept(t)
  BY DEF Leave, Yield, LeaveBy, QueueKept
<1> QED  BY <1>1, <1>2, <1>3, QueuedKept, LeaveByMoves

LEMMA CrossMoves ==
    ASSUME TypeOK, NEW t \in Threads, RunGuest(t) \/ ToRing3(t)
    PROVE  Moves(t, sect[t])
<1> DEFINE s == sect[t]
<1>1. s \in Sects /\ pc[t] # "wait"
  BY DEF TypeOK, RunGuest, ToRing3
<1>2. Acts(t, s)
  BY DEF RunGuest, ToRing3, shared, NextPc, TypeOK, Acts, Untouched, InPcs, OwnerPcs,
     HandlingPcs
<1>3. /\ QueueKept(t) /\ \A u \in Threads \ {t} : Elsewhere(u)
      /\ \A r \in Sects \ {s} : exitEvent'[r] = exitEvent[r] /\ depth'[t][r] = depth[t][r]
  BY DEF RunGuest, ToRing3, shared, TypeOK, QueueKept, Elsewhere
<1> HIDE DEF s
<1> QED  BY <1>1, <1>2, <1>3, QuietMoves DEF s

-----------------------------------------------------------------------------
(* What a step does to its own thread and section.                         *)

\* A step of t about s that keeps the nesting invariant there.
NestStep(t, s) ==
    Moves(t, s) /\ Inward(t, s) /\ StaysInR3(t) /\ NestHere(t, s)'

\* Steps that touch neither ownership nor nestings, and lead from one of the
\* control points of an enter to another.
EnterPcs == {"idle", "enter", "spin", "contend", "wait", "first"}

LEMMA EnteringNests ==
    ASSUME TypeOK, MutexInv, NestAll, NEW t \in Threads, NEW s \in Sects, Moves(t, s),
           pc[t] \in EnterPcs, pc'[t] \in EnterPcs \cup {"nest"},
           call[t] # "none" => pc'[t] # "idle",
           cNestings' = cNestings, owner' = owner, exitEvent' = exitEvent,
           caller' = caller, ctx' = ctx, call' = call, queue' = queue, fi' = fi, depth' = depth
    PROVE  NestStep(t, s)
<1>1. Control(t) /\ NestInv(t, s) /\ ExitInv(s) /\ ExitOwned(s)
  BY DEF NestAll
<1>2. Control(t)'
  BY <1>1 DEF Control, EnterPcs, RzPcs, LeavePcs
<1>3. NestInv(t, s)'
  <2>1. Queued(t, s)' <=> Queued(t, s)
    BY DEF Queued
  <2>2. sect'[t] = s
    BY DEF Moves, Acts
  <2> QED
    BY <1>1, <2>1, <2>2 DEF NestInv, QueuedCount, Leaving, LeavingPcs, At, Holds, EnterPcs
<1>4. ExitInv(s)' /\ ExitOwned(s)'
  BY <1>1 DEF ExitInv, ExitOwned, Holds
<1> QED  BY <1>2, <1>3, <1>4 DEF NestStep, NestHere, Inward, StaysInR3

LEMMA EntersNest ==
    ASSUME TypeOK, MutexInv, NestAll, NEW t \in Threads, Enters(t)
    PROVE  NestStep(t, sect[t])
<1> SUFFICES ASSUME NEW s \in Sects, s = sect[t]  PROVE NestStep(t, s)
  BY DEF TypeOK
<1>1. /\ Moves(t, s) /\ sect'[t] = s
      /\ Control(t) /\ NestInv(t, s) /\ ExitInv(s) /\ ExitOwned(s) /\ SectInv(s)
  BY EntersMoves DEF NestAll, MutexInv, Moves, Acts
<1>2. CASE EnterAgain(t) \/ SpinWin(t)
  BY <1>1, <1>2, EnteringNests
     DEF EnterAgain, SpinWin, EnterCas, Lucky, Nested, EnterFrame, NextPc, TypeOK, EnterPcs
<1>3. CASE SpinOut(t) \/ Busy(t)
  BY <1>1, <1>3, EnteringNests
     DEF SpinOut, Busy, EnterFrame, NextPc, TypeOK, EnterPcs, Control
<1>4. CASE Contend(t)
  BY <1>1, <1>4, EnteringNests DEF Contend, EnterFrame, NextPc, TypeOK, EnterPcs
<1>5. CASE Wake(t)
  BY <1>1, <1>5, EnteringNests DEF Wake, NextPc, TypeOK, EnterPcs
<1>6. CASE RingCall(t)
  <2>1. /\ pc[t] = "spin" /\ pc'[t] = "ff" /\ ctx[t] # "R3" /\ ctx'[t] = "R3"
        /\ cNestings' = cNestings /\ owner' = owner /\ exitEvent' = exitEvent
        /\ caller' = caller /\ queue' = queue /\ fi' = fi /\ depth' = depth
    BY <1>6 DEF RingCall, shared, NextPc, TypeOK
  <2>2. Control(t)'
    BY <1>1, <2>1 DEF Control, RzPcs, LeavePcs
  <2>3. NestInv(t, s)'
    <3>1. Queued(t, s)' <=> Queued(t, s)
      BY <2>1 DEF Queued
    <3> QED
      BY <1>1, <2>1, <3>1 DEF NestInv, QueuedCount, Leaving, LeavingPcs, At, Holds
  <2>4. ExitInv(s)' /\ ExitOwned(s)' /\ StaysInR3(t) /\ Inward(t, s)
    <3>1. \A u \in Threads : u # t => ctx'[u] = ctx[u] /\ call'[u] = call[u]
      BY <1>1 DEF Moves, Elsewhere
    <3> QED
      BY <1>1, <2>1, <3>1 DEF ExitInv, ExitOwned, Holds, StaysInR3, Inward
  <2> QED  BY <1>1, <2>2, <2>3, <2>4 DEF NestStep, NestHere
<1>7. CASE First(t)
  <2>1. /\ pc[t] = "first" /\ pc'[t] = "own" /\ cNestings'[s] = 1
        /\ owner' = owner /\ exitEvent' = exitEvent /\ caller' = caller /\ ctx' = ctx
        /\ call' = call /\ queue' = queue /\ fi' = fi /\ depth' = depth
    BY <1>7 DEF First, NextPc, TypeOK
  <2>2. owner[s] # t /\ Inside(t, s)
    BY <1>1, <2>1 DEF SectInv, PcOwner, At, HandlingPcs, Inside
  <2>3. Control(t)'
    BY <1>1, <2>1 DEF Control, RzPcs, LeavePcs
  <2>4. NestInv(t, s)'
    <3>1. Queued(t, s)' <=> Queued(t, s)
      BY <2>1 DEF Queued
    <3> QED
      BY <1>1, <2>1, <2>2, <3>1 DEF NestInv, QueuedCount, Leaving, LeavingPcs, At, Holds
  <2> QED
    BY <1>1, <2>1, <2>2, <2>3, <2>4
       DEF NestStep, NestHere, ExitInv, ExitOwned, Holds, StaysInR3, Inward
<1>8. CASE Own(t) \/ Nest(t)
  <2>1. /\ Entered(t) /\ pc'[t] = "idle" /\ exitEvent' = exitEvent /\ caller' = caller
        /\ queue' = queue /\ fi' = fi
        /\ ctx'[t] = (IF call[t] = "none" THEN ctx[t] ELSE call[t]) /\ call'[t] = "none"
        /\ depth'[t][s] = depth[t][s] + 1
    BY <1>8 DEF Own, Nest, Entered, Deepen, NextPc, TypeOK
  <2>2. Queued(t, s)' <=> Queued(t, s)
    BY <2>1 DEF Queued
  <2>3. /\ Inside(t, s) /\ owner'[s] = t /\ cNestings'[s] = depth'[t][s] + QueuedCount(t, s)'
        /\ pc[t] \in {"own", "nest"}
    <3>1. CASE Own(t)
      <4>1. pc[t] = "own" /\ owner'[s] = t /\ cNestings' = cNestings
        BY <1>8, <3>1 DEF Own, TypeOK
      <4>2. owner[s] # t /\ Inside(t, s) /\ cNestings[s] = 1
        BY <1>1, <4>1 DEF SectInv, PcOwner, CountersOK, At, HandlingPcs, Inside
      <4> QED
        BY <1>1, <2>1, <2>2, <4>1, <4>2 DEF NestInv, Holds, QueuedCount, TypeOK
    <3>2. CASE Nest(t)
      <4>1. pc[t] = "nest" /\ owner' = owner /\ cNestings'[s] = cNestings[s] + 1
        BY <1>8, <3>2 DEF Nest, TypeOK
      <4>2. owner[s] = t /\ Inside(t, s)
        BY <1>1, <4>1 DEF SectInv, PcOwner, At, OwnerPcs, Inside
      <4>3. cNestings[s] = depth[t][s] + QueuedCount(t, s)
        BY <1>1, <4>1, <4>2 DEF NestInv, Leaving, LeavingPcs, At, QueuedCount, TypeOK
      <4>4. QueuedCount(t, s)' = QueuedCount(t, s) /\ QueuedCount(t, s) \in Int
        BY <2>2 DEF QueuedCount
      <4> QED
        BY <2>1, <4>1, <4>2, <4>3, <4>4 DEF TypeOK
    <3> QED  BY <1>8, <3>1, <3>2
  <2>4. Control(t)'
    BY <1>1, <2>1, <2>3 DEF Control, RzPcs, LeavePcs, TypeOK
  <2>5. NestInv(t, s)'
    BY <1>1, <2>1, <2>3 DEF NestInv, QueuedCount, Leaving, LeavingPcs, At, Holds, TypeOK
  <2>6. ExitInv(s)' /\ ExitOwned(s)' /\ StaysInR3(t) /\ Inward(t, s)
    <3>1. owner'[s] = owner[s] \/ owner[s] = NIL
      BY <1>1, <2>3 DEF SectInv, Exclusive, Inside, TypeOK
    <3> QED
      BY <1>1, <2>1, <2>3, <3>1, ThreadsAssumption
         DEF ExitInv, ExitOwned, Holds, StaysInR3, Inward, TypeOK, NestInv
  <2> QED  BY <1>1, <2>4, <2>5, <2>6 DEF NestStep, NestHere
<1> QED  BY <1>2, <1>3, <1>4, <1>5, <1>6, <1>7, <1>8 DEF Enters

\* The steps of a leave.  Only Release and Count touch the owner and the
\* nestings, and by then the section is left: depth is 0 and nothing is queued.
LEMMA LeavesNest ==
    ASSUME TypeOK, MutexInv, NestAll, NEW t \in Threads, Leaves(t)
    PROVE  NestStep(t, sect[t])
<1> SUFFICES ASSUME NEW s \in Sects, s = sect[t]  PROVE NestStep(t, s)
  BY DEF TypeOK
<1>1. /\ Moves(t, s) /\ sect'[t] = s
      /\ Control(t) /\ NestInv(t, s) /\ ExitInv(s) /\ ExitOwned(s) /\ SectInv(s)
  BY LeavesMove DEF NestAll, MutexInv, Moves, Acts
<1>2. /\ caller' = caller /\ ctx' = ctx /\ call' = call /\ queue' = queue /\ fi' = fi
      /\ depth' = depth /\ exitEvent' = exitEvent
  BY DEF Leaves, Unnest, Flag, Release, Count, Unlock, Signal, ExitSignal, LeaveFrame, shared
<1>3. /\ pc[t] \in LeavePcs
      /\ \/ pc'[t] \in LeavePcs
         \/ pc'[t] = AfterLeave(t)
  BY DEF Leaves, Unnest, Flag, Release, Count, Unlock, AfterUnlock, Signal, ExitSignal,
     NextPc, TypeOK, LeavePcs
<1>4. Control(t)'
  BY <1>1, <1>2, <1>3 DEF Control, AfterLeave, RzPcs, LeavePcs, TypeOK
<1>5. (Queued(t, s)' <=> Queued(t, s)) /\ StaysInR3(t)
  BY <1>2 DEF Queued, StaysInR3
<1>6. CASE Release(t)
  <2>1. pc[t] = "release" /\ pc'[t] = "count" /\ owner'[s] = NIL /\ cNestings' = cNestings
    BY <1>6 DEF Release, NextPc, TypeOK
  <2>2. owner[s] = t /\ cNestings[s] = 1 /\ depth[t][s] = 0 /\ ~Queued(t, s)
    BY <1>1, <2>1 DEF SectInv, PcOwner, NestInv, Leaving, LeavingPcs, QueuedCount, At,
       OwnerPcs, TypeOK
  <2>3. NestInv(t, s)' /\ Inward(t, s)
    BY <1>1, <1>2, <1>5, <2>1, <2>2, ThreadsAssumption
       DEF NestInv, LeavingPcs, Leaving, At, Holds, Inward, Inside
  <2>4. ~exitEvent[s]
    BY <1>1, <2>2 DEF ExitInv, Holds
  <2> QED
    BY <1>1, <1>2, <1>4, <1>5, <2>3, <2>4 DEF NestStep, NestHere, ExitInv, ExitOwned
<1>7. CASE Count(t)
  <2>1. pc[t] = "count" /\ pc'[t] = "unlock" /\ owner' = owner
    BY <1>7 DEF Count, LeaveFrame, NextPc, TypeOK
  <2>2. owner[s] # t /\ Inside(t, s)
    BY <1>1, <2>1 DEF SectInv, PcOwner, At, HandlingPcs, Inside
  <2>3. NestInv(t, s)' /\ Inward(t, s)
    BY <1>1, <1>2, <1>5, <2>1, <2>2 DEF NestInv, LeavingPcs, At, Holds, Inward
  <2> QED
    BY <1>1, <1>2, <1>4, <1>5, <2>1, <2>3
       DEF NestStep, NestHere, ExitInv, ExitOwned, Holds
<1>8. CASE ~Release(t) /\ ~Count(t)
  <2>1. /\ owner' = owner /\ cNestings' = cNestings
        /\ pc'[t] \notin {"count", "rzFlag", "rzOwner", "rzCas", "rzRetake", "rzRenest"}
        /\ pc[t] \in LeavingPcs <=> pc'[t] \in LeavingPcs
    BY <1>8, AfterLeavePc, AfterUnlockPc
       DEF Leaves, Unnest, Flag, Unlock, Signal, ExitSignal, LeaveFrame, shared,
           NextPc, TypeOK, LeavingPcs
  <2>2. NestInv(t, s)' /\ Inward(t, s)
    BY <1>1, <1>2, <1>5, <2>1
       DEF NestInv, QueuedCount, Leaving, LeavingPcs, At, Holds, Inward
  <2> QED
    BY <1>1, <1>2, <1>4, <1>5, <2>1, <2>2
       DEF NestStep, NestHere, ExitInv, ExitOwned, Holds
<1> QED  BY <1>6, <1>7, <1>8

\* A leave that may not signal gives the section up with nothing left to undo,
\* and queues it at most once.
LEMMA RzLeavesNest ==
    ASSUME TypeOK, MutexInv, NestAll, NEW t \in Threads, RzLeaves(t)
    PROVE  NestStep(t, sect[t])
<1> SUFFICES ASSUME NEW s \in Sects, s = sect[t]  PROVE NestStep(t, s)
  BY DEF TypeOK
<1>1. /\ Moves(t, s) /\ sect'[t] = s
      /\ Control(t) /\ NestInv(t, s) /\ ExitInv(s) /\ ExitOwned(s) /\ SectInv(s)
  BY RzLeavesMove DEF NestAll, MutexInv, Moves, Acts
<1>2. /\ caller' = caller /\ ctx' = ctx /\ call' = call /\ fi' = fi
      /\ depth' = depth /\ exitEvent' = exitEvent /\ pc[t] \in RzPcs
  BY DEF RzLeaves, RzNest, RzFlag, RzOwner, RzCas, RzRetake, RzRenest, RzQueue, LeaveFrame,
     RzPcs
<1>3. ctx[t] = "RZ" /\ caller[t] = "client" /\ AfterLeave(t) = "idle" /\ fi[t] = 0
  BY <1>1, <1>2 DEF Control, AfterLeave, TypeOK
<1>4. StaysInR3(t) /\ call[t] = "none"
  BY <1>1, <1>2, <1>3 DEF StaysInR3, Control
<1>5. CASE ~RzQueue(t)
  <2>1. /\ queue' = queue
        /\ pc'[t] \in RzPcs \cup {"idle"}
    BY <1>3, <1>5 DEF RzLeaves, RzNest, RzFlag, RzOwner, RzCas, RzRetake, RzRenest, LeaveFrame,
       NextPc, RzPcs, TypeOK
  <2>2. Control(t)'
    BY <1>1, <1>2, <1>3, <1>4, <2>1 DEF Control, RzPcs, LeavePcs
  <2>3. Queued(t, s)' <=> Queued(t, s)
    BY <1>2, <2>1 DEF Queued
  <2>4. /\ At(t, s, LeavingPcs \cup {"rzFlag", "rzOwner", "rzRenest"}) => owner[s] = t
        /\ At(t, s, {"rzCas", "rzRetake"}) => owner[s] # t
        /\ Inside(t, s)
    BY <1>1, <1>2 DEF SectInv, PcOwner, LeavingPcs, At, OwnerPcs, HandlingPcs, Inside, RzPcs
  <2>5. depth[t][s] = 0 /\ ~Queued(t, s)
    BY <1>1, <1>2, <1>5, <2>4
       DEF NestInv, Leaving, LeavingPcs, QueuedCount, Holds, At, TypeOK, RzPcs
  <2>6. ~exitEvent[s] \/ owner[s] # t
    BY <1>1, <2>5 DEF ExitInv, Holds
  <2>7. NestInv(t, s)' /\ Inward(t, s) /\ (owner'[s] = owner[s] \/ owner[s] = t \/ owner'[s] = t)
    BY <1>1, <1>2, <1>3, <1>5, <2>1, <2>3, <2>4, <2>5, ThreadsAssumption
       DEF RzLeaves, RzNest, RzFlag, RzOwner, RzCas, RzRetake, RzRenest, LeaveFrame, NextPc,
           NestInv, QueuedCount, Leaving, LeavingPcs, Holds, At, Inward, TypeOK
  <2>8. ~exitEvent[s] \/ owner'[s] = owner[s]
    BY <1>1, <2>4, <2>6, <2>7, ThreadsAssumption
       DEF SectInv, Exclusive, Inside, ExitOwned, TypeOK
  <2>9. ExitInv(s)' /\ ExitOwned(s)'
    BY <1>1, <1>2, <2>8 DEF ExitInv, ExitOwned, Holds
  <2> QED  BY <1>1, <1>4, <2>2, <2>7, <2>9 DEF NestStep, NestHere
<1>6. CASE RzQueue(t)
  <2>1. /\ pc[t] = "rzQueue" /\ pc'[t] = "idle" /\ queue'[t] = Append(queue[t], s)
        /\ queue[t] \in Seq(Sects) /\ owner' = owner /\ cNestings' = cNestings
    BY <1>6 DEF RzQueue, NextPc, TypeOK
  <2>2. owner[s] = t /\ cNestings[s] = 1 /\ depth[t][s] = 0 /\ ~Queued(t, s)
    BY <1>1, <2>1 DEF SectInv, PcOwner, NestInv, Leaving, LeavingPcs, QueuedCount, At,
       OwnerPcs, TypeOK
  <2>3. Queued(t, s)'
    <3>1. Len(queue'[t]) = Len(queue[t]) + 1 /\ queue'[t][Len(queue[t]) + 1] = s
      BY <2>1
    <3> QED  BY <1>2, <1>3, <2>1, <3>1 DEF Queued
  <2>4. NoRepeats(queue'[t])
    <3>1. \A i \in 1..Len(queue[t]) : queue[t][i] # s
      BY <1>3, <2>2 DEF Queued
    <3> QED  BY <1>1, <2>1, <3>1 DEF Control, NoRepeats
  <2>5. Control(t)'
    BY <1>1, <1>2, <1>3, <1>4, <2>1, <2>4 DEF Control, RzPcs, LeavePcs
  <2>6. NestInv(t, s)' /\ Inward(t, s)
    BY <1>1, <1>2, <2>1, <2>2, <2>3
       DEF NestInv, QueuedCount, Leaving, LeavingPcs, At, Holds, Inward
  <2>7. ExitInv(s)' /\ ExitOwned(s)'
    BY <1>1, <1>2, <2>1 DEF ExitInv, ExitOwned, Holds
  <2> QED  BY <1>1, <1>4, <2>5, <2>6, <2>7 DEF NestStep, NestHere
<1> QED  BY <1>5, <1>6

\* A leave begins: what the client or the queue gives up is what cNestings
\* loses, now or, when it is the last of it, at Count or RzNest.
LEMMA LeaveByNests ==
    ASSUME TypeOK, MutexInv, NestAll, NEW t \in Threads, NEW s \in Sects, NEW c,
           Moves(t, s), LeaveBy(t, s, c), pc[t] \in {"idle", "ff"},
           depth'[t][s] \in Nat,
           depth'[t][s] + QueuedCount(t, s)' = depth[t][s] + QueuedCount(t, s) - 1,
           exitEvent[s] /\ cNestings[s] > 1 => depth'[t][s] > 0,
           Control(t)'
    PROVE  NestStep(t, s)
<1>1. /\ sect'[t] = s /\ NestInv(t, s) /\ ExitInv(s) /\ ExitOwned(s)
      /\ owner[s] = t /\ owner' = owner /\ ctx' = ctx /\ call' = call
  BY DEF NestAll, Moves, Acts, LeaveBy
<1>2. cNestings[s] = depth[t][s] + QueuedCount(t, s) /\ Inside(t, s) /\ cNestings[s] \in Int
  BY <1>1 DEF NestInv, Leaving, LeavingPcs, At, QueuedCount, Inside, TypeOK
<1>3. cNestings[s] = depth'[t][s] + QueuedCount(t, s)' + 1 /\ cNestings[s] >= 1
  BY <1>1, <1>2 DEF QueuedCount, TypeOK
<1>4. QueuedCount(t, s)' \in {0, 1} /\ (Queued(t, s)' <=> QueuedCount(t, s)' = 1)
  BY DEF QueuedCount
<1>5. CASE LeaveNested(t, s)
  <2>1. /\ cNestings[s] > 1 /\ cNestings'[s] = cNestings[s] - 1 /\ pc'[t] = "unnest"
        /\ exitEvent' = exitEvent
    BY <1>5 DEF LeaveNested, NextPc, TypeOK
  <2>2. NestInv(t, s)'
    BY <1>1, <1>3, <1>4, <2>1 DEF NestInv, Leaving, LeavingPcs, At, Holds
  <2>3. ExitInv(s)' /\ ExitOwned(s)'
    BY <1>1, <2>1 DEF ExitInv, ExitOwned, Holds
  <2> QED  BY <1>1, <1>2, <2>2, <2>3 DEF NestStep, NestHere, StaysInR3, Inward
<1>6. CASE LeaveForReal(t, s) \/ LeaveTry(t, s)
  <2>1. /\ cNestings[s] <= 1 /\ cNestings' = cNestings /\ pc'[t] \in {"flag", "rzNest", "rzQueue"}
        /\ exitEvent'[s] => exitEvent[s] /\ ctx[t] # "R3"
    BY <1>6 DEF LeaveForReal, LeaveTry, NextPc, TypeOK
  <2>2. NestInv(t, s)'
    BY <1>1, <1>3, <1>4, <2>1 DEF NestInv, Leaving, LeavingPcs, At, Holds
  <2>3. ~exitEvent'[s]
    BY <1>1, <2>1 DEF ExitInv
  <2> QED
    BY <1>1, <1>2, <2>1, <2>2, <2>3
       DEF NestStep, NestHere, ExitInv, ExitOwned, StaysInR3, Inward
<1> QED  BY <1>5, <1>6 DEF LeaveBy

LEMMA ClientLeavesNest ==
    ASSUME TypeOK, MutexInv, NestAll, NEW t \in Threads, NEW s \in Sects,
           Leave(t, s) \/ Yield(t, s)
    PROVE  NestStep(t, s)
<1>1. Control(t) /\ NestInv(t, s) /\ ExitInv(s) /\ Moves(t, s)
  BY LeaveMoves DEF NestAll
<1>2. PICK c \in {"client", "yield"} : LeaveBy(t, s, c) /\ (c = "yield" => ctx[t] = "R3")
  BY DEF Leave, Yield
<1>3. /\ pc[t] = "idle" /\ owner[s] = t /\ Holds(t, s)
      /\ caller'[t] = c /\ ctx' = ctx /\ call' = call /\ queue' = queue /\ fi' = fi
      /\ depth'[t][s] = depth[t][s] - 1
  BY <1>2 DEF LeaveBy, Leave, Yield, Shallow, Holds, TypeOK
<1>4. Queued(t, s)' <=> Queued(t, s)
  BY <1>3, QueuedKept DEF QueueKept
<1>5. ctx[t] = "R3" => ~Queued(t, s)
  <2>1. ctx[t] = "R3" => queue[t] = <<>>
    BY <1>1, <1>3 DEF Control, LeavePcs
  <2> QED  BY <2>1 DEF Queued
<1>6. depth'[t][s] \in Nat /\ (exitEvent[s] /\ cNestings[s] > 1 => depth'[t][s] > 0)
  <2>1. depth[t][s] \in Int /\ cNestings[s] = depth[t][s] + QueuedCount(t, s)
    BY <1>1, <1>3 DEF NestInv, Leaving, LeavingPcs, At, QueuedCount, TypeOK
  <2>2. exitEvent[s] => QueuedCount(t, s) = 0
    BY <1>1, <1>3, <1>5 DEF ExitInv, QueuedCount
  <2> QED  BY <1>3, <2>1, <2>2 DEF Holds
<1>7. Control(t)'
  <2>1. pc'[t] \in {"unnest", "flag"} \/ (pc'[t] \in {"rzNest", "rzQueue"} /\ ctx[t] = "RZ")
    <3>1. CASE LeaveNested(t, s)
      BY <3>1 DEF LeaveNested, NextPc, TypeOK
    <3>2. CASE LeaveForReal(t, s)
      BY <3>2 DEF LeaveForReal, NextPc, TypeOK
    <3>3. CASE LeaveTry(t, s)
      BY <3>3 DEF LeaveTry, NextPc, TypeOK
    <3> QED  BY <1>2, <3>1, <3>2, <3>3 DEF LeaveBy
  <2> QED  BY <1>1, <1>2, <1>3, <2>1 DEF Control, RzPcs, LeavePcs
<1>8. depth'[t][s] + QueuedCount(t, s)' = depth[t][s] + QueuedCount(t, s) - 1
  BY <1>3, <1>4 DEF QueuedCount, TypeOK
<1> QED  BY <1>1, <1>2, <1>3, <1>6, <1>7, <1>8, LeaveByNests

LEMMA FFNests ==
    ASSUME TypeOK, MutexInv, NestAll, NEW t \in Threads, FF(t)
    PROVE  \E s \in Sects : NestStep(t, s)
<1>1. Control(t)
  BY DEF NestAll
<1>2. CASE FFLeave(t)
  <2>1. PICK s \in Sects : s = queue[t][fi[t] + 1]
    <3>1. queue[t][fi[t] + 1] \in Sects
      BY <1>2 DEF FFLeave, TypeOK
    <3> QED  BY <3>1
  <2>2. /\ pc[t] = "ff" /\ LeaveBy(t, s, "ff") /\ depth' = depth
        /\ caller'[t] = "ff" /\ ctx' = ctx /\ call' = call /\ queue' = queue
    BY <1>2, <2>1 DEF FFLeave, LeaveBy, TypeOK
  <2>3. Queued(t, s) /\ ~Queued(t, s)'
    BY <1>1, <1>2, <2>1, FFLeaveQueue DEF Control
  <2>4. Moves(t, s)
    BY <1>1, <1>2, <2>1, FFLeaveMoves
  <2>5. Control(t)'
    <3>1. pc'[t] \in {"unnest", "flag"}
      BY <1>1, <2>2 DEF Control, LeaveBy, LeaveNested, LeaveForReal, LeaveTry, NextPc, TypeOK
    <3> QED  BY <1>1, <2>2, <3>1 DEF Control, RzPcs, LeavePcs
  <2>6. NestInv(t, s) /\ ExitInv(s) /\ owner[s] = t
    BY <2>2 DEF NestAll, LeaveBy
  <2>7. /\ depth'[t][s] \in Nat
        /\ depth'[t][s] + QueuedCount(t, s)' = depth[t][s] + QueuedCount(t, s) - 1
        /\ exitEvent[s] => depth'[t][s] > 0
    BY <2>2, <2>3, <2>6 DEF NestInv, QueuedCount, ExitInv, Holds, TypeOK
  <2>8. NestStep(t, s)
    BY <2>2, <2>4, <2>5, <2>7, LeaveByNests
  <2> QED  BY <2>8
<1>3. CASE FFDone(t)
  <2>1. PICK s \in Sects : s = sect'[t]
    BY <1>3 DEF FFDone, FFReturns, TypeOK
  <2>2. /\ pc[t] = "ff" /\ pc'[t] = (IF call[t] = "none" THEN "idle" ELSE "enter")
        /\ queue'[t] = <<>> /\ fi'[t] = 0 /\ caller'[t] = "client"
        /\ cNestings' = cNestings /\ owner' = owner /\ exitEvent' = exitEvent
        /\ ctx' = ctx /\ call' = call /\ depth' = depth
    BY <1>3 DEF FFDone, FFReturns, shared, NextPc, TypeOK
  <2>3. ~Queued(t, s) /\ ~Queued(t, s)'
    BY <1>3, <2>2 DEF FFDone, TypeOK, Queued
  <2>4. Control(t)'
    BY <1>1, <2>2 DEF Control, RzPcs, LeavePcs, NoRepeats
  <2>5. NestInv(t, s) /\ ExitInv(s) /\ ExitOwned(s) /\ Moves(t, s)
    BY <1>3, <2>1, FFDoneMoves DEF NestAll
  <2>6. NestInv(t, s)'
    BY <2>1, <2>2, <2>3, <2>5 DEF NestInv, QueuedCount, Leaving, LeavingPcs, At, Holds
  <2>7. NestStep(t, s)
    BY <2>2, <2>4, <2>5, <2>6
       DEF NestStep, NestHere, ExitInv, ExitOwned, Holds, StaysInR3, Inward
  <2> QED  BY <2>7
<1> QED  BY <1>2, <1>3 DEF FF

LEMMA CrossNests ==
    ASSUME TypeOK, MutexInv, NestAll, NEW t \in Threads, RunGuest(t) \/ ToRing3(t)
    PROVE  NestStep(t, sect[t])
<1> SUFFICES ASSUME NEW s \in Sects, s = sect[t]  PROVE NestStep(t, s)
  BY DEF TypeOK
<1>1. Control(t) /\ NestInv(t, s) /\ ExitInv(s) /\ ExitOwned(s) /\ Moves(t, s) /\ sect'[t] = s
  BY CrossMoves DEF NestAll, Moves, Acts
<1>2. /\ pc[t] = "idle" /\ HoldsNone(t)
      /\ cNestings' = cNestings /\ owner' = owner /\ exitEvent' = exitEvent
      /\ caller' = caller /\ call' = call /\ queue' = queue /\ fi' = fi /\ depth' = depth
      /\ \/ pc'[t] = "idle" /\ ctx[t] = "R3" /\ ctx'[t] # "R3"
         \/ pc'[t] = "ff" /\ ctx'[t] = "R3"
  BY DEF RunGuest, ToRing3, shared, NextPc, TypeOK
<1>3. Control(t)'
  BY <1>1, <1>2 DEF Control, RzPcs, LeavePcs
<1>4. NestInv(t, s)'
  <2>1. Queued(t, s)' <=> Queued(t, s)
    BY <1>2 DEF Queued
  <2> QED
    BY <1>1, <1>2, <2>1 DEF NestInv, QueuedCount, Leaving, LeavingPcs, At, Holds
<1>5. ExitInv(s)' /\ ExitOwned(s)'
  <2>1. \A u \in Threads : u # t => ctx'[u] = ctx[u]
    BY <1>1 DEF Moves, Elsewhere
  <2>2. ~Holds(t, s)
    BY <1>2 DEF HoldsNone
  <2> QED  BY <1>1, <1>2, <2>1, <2>2 DEF ExitInv, ExitOwned, Holds
<1> QED  BY <1>1, <1>2, <1>3, <1>4, <1>5 DEF NestStep, NestHere, StaysInR3, Inward

LEMMA ClientEntersNest ==
    ASSUME TypeOK, MutexInv, NestAll, NEW t \in Threads, NEW s \in Sects,
           Enter(t, s) \/ TryEnter(t, s)
    PROVE  NestStep(t, s)
<1>1. Moves(t, s) /\ Control(t)
  BY EnterMoves DEF NestAll
<1>2. pc[t] = "idle" /\ EnterCas(t, s) /\ EnterFrame
  BY DEF Enter, TryEnter, EnterCas
<1> QED
  BY <1>1, <1>2, EnteringNests
     DEF EnterCas, Lucky, Nested, EnterFrame, NextPc, TypeOK, EnterPcs, Control

-----------------------------------------------------------------------------
(* The nesting invariant holds.                                            *)

LEMMA ScheduleNests ==
    ASSUME TypeOK, MutexInv, NestAll, NEW t \in Threads, NEW s \in Sects,
           ScheduleExitEvent(t, s)
    PROVE  NestAll'
<1>1. /\ exitEvent' = [exitEvent EXCEPT ![s] = TRUE] /\ owner[s] = t /\ Holds(t, s)
      /\ pc[t] = "idle" /\ ctx[t] = "R3"
      /\ UNCHANGED <<cNestings, owner, pc, sect, caller, ctx, call, queue, fi, depth>>
  BY DEF ScheduleExitEvent, local
<1>2. \A u \in Threads : Control(u)'
  BY <1>1 DEF NestAll, Control
<1>3. \A u \in Threads, r \in Sects : NestInv(u, r)'
  BY <1>1 DEF NestAll, NestInv, QueuedCount, Queued, Leaving, At, Holds
<1>4. ASSUME NEW r \in Sects  PROVE ExitInv(r)' /\ ExitOwned(r)'
  <2>1. CASE r = s
    <3>1. Control(t) /\ owner[s] # NIL
      BY <1>1, ThreadsAssumption DEF NestAll
    <3> QED  BY <1>1, <2>1, <3>1 DEF Control, ExitInv, ExitOwned, Holds
  <2>2. CASE r # s
    <3>1. exitEvent'[r] = exitEvent[r] /\ ExitInv(r) /\ ExitOwned(r)
      BY <1>1, <2>2 DEF NestAll, TypeOK
    <3> QED  BY <1>1, <3>1 DEF ExitInv, ExitOwned, Holds
  <2> QED  BY <2>1, <2>2
<1> QED  BY <1>2, <1>3, <1>4 DEF NestAll

LEMMA InitNests == Init => NestAll
<1> SUFFICES ASSUME Init  PROVE NestAll
  OBVIOUS
<1>1. \A t \in Threads, s \in Sects : ~Queued(t, s)
  BY DEF Init, Queued
<1>2. \A t \in Threads : Control(t)
  BY DEF Init, Control, RzPcs, NoRepeats
<1>3. \A t \in Threads, s \in Sects : NestInv(t, s)
  BY <1>1, ThreadsAssumption DEF Init, NestInv, LeavingPcs, At, Holds
<1>4. \A s \in Sects : ExitInv(s) /\ ExitOwned(s)
  BY DEF Init, ExitInv, ExitOwned
<1> QED  BY <1>2, <1>3, <1>4 DEF NestAll

LEMMA NextNests == TypeOK /\ MutexInv /\ NestAll /\ [Next]_vars => NestAll'
<1> SUFFICES ASSUME TypeOK, MutexInv, NestAll, [Next]_vars  PROVE NestAll'
  OBVIOUS
<1>1. ASSUME NEW t \in Threads, NEW s \in Sects, NestStep(t, s)  PROVE NestAll'
  BY <1>1, NestFrame DEF NestStep
<1>2. ASSUME NEW t \in Threads, Client(t)  PROVE NestAll'
  <2>1. CASE RunGuest(t) \/ ToRing3(t)
    BY <1>1, <2>1, CrossNests DEF TypeOK
  <2>2. ASSUME NEW s \in Sects, Enter(t, s) \/ TryEnter(t, s)  PROVE NestAll'
    BY <1>1, <2>2, ClientEntersNest
  <2>3. ASSUME NEW s \in Sects, Leave(t, s) \/ Yield(t, s)  PROVE NestAll'
    BY <1>1, <2>3, ClientLeavesNest
  <2> QED  BY <1>2, <2>1, <2>2, <2>3, ScheduleNests DEF Client
<1>3. ASSUME NEW t \in Threads, Step(t)  PROVE NestAll'
  <2>1. sect[t] \in Sects
    BY DEF TypeOK
  <2> QED  BY <1>1, <1>3, <2>1, EntersNest, LeavesNest, RzLeavesNest, FFNests DEF Step
<1>4. CASE UNCHANGED vars
  <2>1. UNCHANGED <<cNestings, owner, exitEvent, pc, sect, caller, ctx, call, queue, fi, depth>>
    BY <1>4 DEF vars
  <2> QED
    BY <2>1 DEF NestAll, Control, NestInv, QueuedCount, Queued, Leaving, At, Holds, ExitInv,
       ExitOwned
<1> QED  BY <1>2, <1>3, <1>4 DEF Next

\* The nesting invariant holds in every reachable state.
THEOREM NestCorrect == Spec => []NestAll
<1>1. Init => TypeOK /\ MutexInv /\ NestAll
  BY InitType, InitMutex, InitNests
<1>2. TypeOK /\ MutexInv /\ NestAll /\ [Next]_vars => TypeOK' /\ MutexInv' /\ NestAll'
  BY NextType, NextMutex, NextNests
<1> QED  BY <1>1, <1>2, PTL DEF Spec

\* PDMCritSectLeave finds its caller to be the owner: whoever has entered a
\* section, or left it where it could only be queued, owns it.
THEOREM OwnerHoldsCorrect == Spec => []OwnerHolds
<1>1. NestAll => OwnerHolds
  BY DEF NestAll, NestInv, OwnerHolds
<1> QED  BY <1>1, NestCorrect, PTL

\* apQueuedCritSectsLeaves holds no section twice, and is empty whenever a
\* thread runs client code, spins or blocks in ring-3.
THEOREM QueuedOnceCorrect == Spec => []QueuedOnce
<1>1. NestAll => QueuedOnce
  BY DEF NestAll, Control, NoRepeats, LeavePcs, QueuedOnce
<1> QED  BY <1>1, NestCorrect, PTL

\* cNestings is what the client entered and the queued leave it has pending.
THEOREM NestingCountCorrect == Spec => []NestingCount
<1>1. TypeOK /\ NestAll => NestingCount
  <2> SUFFICES ASSUME TypeOK, NestAll, NEW t \in Threads, NEW s \in Sects,
                      pc[t] = "idle", owner[s] = t
               PROVE  cNestings[s] = depth[t][s] + (IF Queued(t, s) THEN 1 ELSE 0)
    BY DEF NestingCount
  <2>1. NestInv(t, s) /\ Leaving(t, s) = 0 /\ depth[t][s] \in Int
    BY DEF NestAll, Leaving, LeavingPcs, At, TypeOK
  <2> QED  BY <2>1 DEF NestInv, QueuedCount
<1> QED  BY <1>1, TypeCorrect, NestCorrect, PTL

\* EventToSignal is never left behind in a section nobody owns.
THEOREM ExitEventCorrect == Spec => []ExitEventOwned
<1>1. NestAll => ExitEventOwned
  BY DEF NestAll, ExitOwned, ExitEventOwned
<1> QED  BY <1>1, NestCorrect, PTL

-----------------------------------------------------------------------------
(* Refinement: the step in which an enter returns is the Enter of          *)
(* RecursiveLock, the one in which a leave begins its Leave.               *)

LEMMA EnteredLocks ==
    ASSUME TypeOK, MutexInv, NestAll, NEW t \in Threads, Own(t) \/ Nest(t)
    PROVE  Lock!Enter(t, sect[t])
<1> SUFFICES ASSUME NEW s \in Sects, s = sect[t]  PROVE Lock!Enter(t, s)
  BY DEF TypeOK
<1>1. Inside(t, s) /\ SectInv(s)
  <2>1. SectInv(s) /\ pc[t] \in {"own", "nest"}
    BY DEF MutexInv, Own, Nest
  <2> QED  BY <2>1 DEF SectInv, PcOwner, Inside, At, OwnerPcs, HandlingPcs
<1>2. \A u \in Threads \ {t} : owner[s] # u
  BY <1>1 DEF SectInv, Exclusive, Inside
<1>3. ASSUME NEW u \in Threads \ {t}  PROVE depth[u][s] = 0
  <2>1. NestInv(u, s) /\ owner[s] # u /\ depth[u][s] \in Int
    BY <1>2 DEF NestAll, TypeOK
  <2> QED  BY <2>1 DEF NestInv, Holds
<1> QED  BY <1>3 DEF Own, Nest, Entered, Deepen, Lock!Enter

LEMMA StepLocks == TypeOK /\ MutexInv /\ NestAll /\ [Next]_vars => [Lock!Next]_depth
<1> SUFFICES ASSUME TypeOK, MutexInv, NestAll, [Next]_vars,
                    depth' # depth
             PROVE  Lock!Next
  OBVIOUS
<1>1. PICK t \in Threads : Client(t) \/ Step(t)
  BY DEF Next, vars
<1>2. ASSUME NEW s \in Sects, Leave(t, s) \/ Yield(t, s)  PROVE Lock!Next
  BY <1>2 DEF Leave, Yield, Shallow, Holds, Lock!Next, Lock!Leave
<1>3. CASE Own(t) \/ Nest(t)
  BY <1>3, EnteredLocks DEF Lock!Next, TypeOK
<1>4. Client(t) => \E s \in Sects : Leave(t, s) \/ Yield(t, s)
  BY DEF Client, RunGuest, ToRing3, Enter, TryEnter, EnterFrame, ScheduleExitEvent
<1>5. Enters(t) => Own(t) \/ Nest(t)
  BY DEF Enters, EnterAgain, SpinWin, SpinOut, Busy, RingCall, Contend, Wake, First, EnterFrame
<1>6. ~Leaves(t)
  BY DEF Leaves, Unnest, Flag, Release, Count, Unlock, Signal, ExitSignal, LeaveFrame
<1>7. ~RzLeaves(t)
  BY DEF RzLeaves, RzNest, RzFlag, RzOwner, RzCas, RzRetake, RzRenest, RzQueue, LeaveFrame
<1>8. ~FF(t)
  BY DEF FF, FFLeave, FFDone, FFReturns
<1> QED  BY <1>1, <1>2, <1>3, <1>4, <1>5, <1>6, <1>7, <1>8 DEF Step

\* The sections implement the recursive lock: whoever's enter returns is alone
\* with the section, whichever context its predecessor left it from.
THEOREM LockImplemented == Spec => ImplementsLock
<1>1. Init => Lock!Init
  BY DEF Init, Lock!Init
<1> QED
  BY <1>1, StepLocks, TypeCorrect, MutexCorrect, NestCorrect, PTL
     DEF Spec, ImplementsLock, Lock!Spec

-----------------------------------------------------------------------------
(* The counts.  cLockers counts the waiters and, as long as somebody is    *)
(* inside and has not passed the section on, the share of that thread.     *)

LEMMA FiniteWaiters ==
    ASSUME NEW s \in Sects
    PROVE  /\ IsFiniteSet(Waiters(s)) /\ Cardinality(Waiters(s)) \in Nat
           /\ IsFiniteSet(Waiters(s)') /\ Cardinality(Waiters(s)') \in Nat
<1>1. Waiters(s) \subseteq Threads /\ Waiters(s)' \subseteq Threads
  BY DEF Waiters
<1> QED  BY <1>1, FiniteAssumption, FS_Subset, FS_CardinalityType

\* A step changes the waiters of its section by its own thread at most.
LEMMA WaitersStep ==
    ASSUME NEW t \in Threads, NEW s \in Sects, Moves(t, s)
    PROVE  /\ Cardinality(Waiters(s)) \in Nat /\ Cardinality(Waiters(s)') \in Nat
           /\ pc[t] # "wait" /\ pc'[t] # "wait" =>
                Cardinality(Waiters(s)') = Cardinality(Waiters(s))
           /\ pc[t] # "wait" /\ pc'[t] = "wait" =>
                Cardinality(Waiters(s)') = Cardinality(Waiters(s)) + 1
           /\ pc[t] = "wait" /\ pc'[t] # "wait" =>
                Cardinality(Waiters(s)') = Cardinality(Waiters(s)) - 1
<1>1. /\ IsFiniteSet(Waiters(s)) /\ Cardinality(Waiters(s)) \in Nat
      /\ IsFiniteSet(Waiters(s)') /\ Cardinality(Waiters(s)') \in Nat
  BY FiniteWaiters
<1>2. /\ Waiters(s) \ {t} = Waiters(s)' \ {t}
      /\ t \in Waiters(s) <=> pc[t] = "wait"
      /\ t \in Waiters(s)' <=> pc'[t] = "wait"
  BY DEF Moves, Acts, Waiters, At
<1>3. CASE pc[t] # "wait" /\ pc'[t] # "wait"
  <2>1. Waiters(s)' = Waiters(s)
    BY <1>2, <1>3
  <2> QED  BY <1>1, <1>3, <2>1
<1>4. CASE pc[t] # "wait" /\ pc'[t] = "wait"
  <2>1. Waiters(s)' = Waiters(s) \cup {t} /\ t \notin Waiters(s)
    BY <1>2, <1>4
  <2> QED  BY <1>1, <1>4, <2>1, FS_AddElement
<1>5. CASE pc[t] = "wait" /\ pc'[t] # "wait"
  <2>1. Waiters(s)' = Waiters(s) \ {t} /\ t \in Waiters(s)
    BY <1>2, <1>5
  <2> QED  BY <1>1, <1>5, <2>1, FS_RemoveElement
<1>6. CASE pc[t] = "wait" /\ pc'[t] = "wait"
  BY <1>1, <1>6
<1> QED  BY <1>3, <1>4, <1>5, <1>6

\* A free section: nobody is inside and nobody waits.
LEMMA FreeCount ==
    ASSUME CountAll, MutexInv, NEW s \in Sects, cLockers[s] = -1
    PROVE  Cardinality(Waiters(s)) = 0 /\ \A u \in Threads : ~Inside(u, s)
BY FiniteWaiters DEF CountAll, CountInv, Counts, MutexInv, SectInv, FreeIsFree

\* A step outside the section, which may make t one more of its waiters.
LEMMA QuietCounts ==
    ASSUME TypeOK, MutexInv, CountAll, NEW t \in Threads, NEW s \in Sects, Moves(t, s),
           pc[t] \notin InPcs \cup {"wait"}, pc'[t] \notin InPcs,
           UNCHANGED <<cNestings, owner>>,
           cLockers'[s] = cLockers[s] + (IF pc'[t] = "wait" THEN 1 ELSE 0)
    PROVE  CountInv(s)'
<1>1. CountInv(s) /\ cLockers[s] \in Int /\ cNestings[s] \in Int
  BY DEF CountAll, TypeOK
<1>2. ASSUME NEW u \in Threads
      PROVE  (Counts(u, s)' <=> Counts(u, s)) /\ Share(u, s)' = Share(u, s)
  <2>1. ASSUME NEW L, L \subseteq InPcs  PROVE At(u, s, L)' <=> At(u, s, L)
    BY <2>1 DEF Moves, Acts, At
  <2>2. /\ At(u, s, HandlingPcs)' <=> At(u, s, HandlingPcs)
        /\ At(u, s, {"signal"})' <=> At(u, s, {"signal"})
        /\ At(u, s, {"nest", "unnest"})' <=> At(u, s, {"nest", "unnest"})
        /\ At(u, s, {"first", "unlock", "rzFlag", "rzOwner", "rzCas", "rzRetake", "rzRenest"})'
             <=> At(u, s, {"first", "unlock", "rzFlag", "rzOwner", "rzCas", "rzRetake", "rzRenest"})
    BY <2>1 DEF InPcs, OwnerPcs, HandlingPcs
  <2> QED  BY <2>2 DEF Counts, Inside, Share
<1>3. Cardinality(Waiters(s)') - Cardinality(Waiters(s)) = cLockers'[s] - cLockers[s]
  BY <1>1, WaitersStep
<1>4. /\ Cardinality(Waiters(s)) \in Nat /\ Cardinality(Waiters(s)') \in Nat
      /\ \A u \in Threads : Share(u, s) \in Int
  BY <1>1, WaitersStep DEF Share
<1>5. ASSUME NEW u \in Threads, Counts(u, s)'
      PROVE  cLockers'[s] = Share(u, s)' + Cardinality(Waiters(s)')
  <2>1. cLockers[s] = Share(u, s) + Cardinality(Waiters(s))
    BY <1>1, <1>2, <1>5 DEF CountInv
  <2> QED  BY <1>1, <1>2, <1>3, <1>4, <2>1
<1>6. ASSUME \A u \in Threads : ~Counts(u, s)'
      PROVE  cLockers'[s] = Cardinality(Waiters(s)') - 1
  <2>1. cLockers[s] = Cardinality(Waiters(s)) - 1
    BY <1>1, <1>2, <1>6 DEF CountInv
  <2> QED  BY <1>1, <1>3, <1>4, <2>1
<1> QED  BY <1>5, <1>6 DEF CountInv

\* A step of the thread inside that changes its share and cLockers alike.
LEMMA InsideCounts ==
    ASSUME TypeOK, MutexInv, MutexInv', CountAll, NEW t \in Threads, NEW s \in Sects,
           Moves(t, s), pc[t] # "wait", pc'[t] # "wait",
           Counts(t, s), Counts(t, s)',
           cLockers'[s] - Share(t, s)' = cLockers[s] - Share(t, s),
           cLockers'[s] \in Int, Share(t, s)' \in Int
    PROVE  CountInv(s)'
<1>1. cLockers[s] = Share(t, s) + Cardinality(Waiters(s))
  BY DEF CountAll, CountInv
<1>2. Cardinality(Waiters(s)') = Cardinality(Waiters(s)) /\ Cardinality(Waiters(s)) \in Nat
  BY WaitersStep
<1>3. Share(t, s) \in Int /\ cLockers[s] \in Int
  BY DEF Share, TypeOK
<1>4. cLockers'[s] = Share(t, s)' + Cardinality(Waiters(s)')
  BY <1>1, <1>2, <1>3
<1>5. Exclusive(s)'
  BY DEF MutexInv, SectInv
<1> QED  BY <1>4, <1>5 DEF CountInv, Counts, Exclusive

\* Where a section is taken: nobody was inside, and t is from now on.
LEMMA TakenCounts ==
    ASSUME MutexInv', NEW t \in Threads, NEW s \in Sects, Counts(t, s)', Share(t, s)' = 0,
           cLockers'[s] = Cardinality(Waiters(s)')
    PROVE  CountInv(s)'
<1>1. Exclusive(s)'
  BY DEF MutexInv, SectInv
<1>2. Cardinality(Waiters(s)') = Share(t, s)' + Cardinality(Waiters(s)')
  BY FiniteWaiters
<1> QED  BY <1>1, <1>2 DEF CountInv, Counts, Exclusive

LEMMA EnterCasCounts ==
    ASSUME TypeOK, MutexInv, MutexInv', CountAll, NEW t \in Threads, NEW s \in Sects,
           Moves(t, s), pc[t] \notin InPcs \cup {"wait"}, EnterCas(t, s), EnterFrame
    PROVE  CountInv(s)'
<1>1. sect'[t] = s /\ SectInv(s) /\ cLockers[s] \in Int /\ cNestings[s] \in Int
  BY DEF Moves, Acts, MutexInv, TypeOK
<1>2. CASE Lucky(t, s)
  <2>1. cLockers[s] = -1 /\ cLockers'[s] = 0 /\ pc'[t] = "first"
    BY <1>2 DEF Lucky, NextPc, TypeOK
  <2>2. Cardinality(Waiters(s)') = 0
    BY <2>1, FreeCount, WaitersStep
  <2>3. Counts(t, s)' /\ Share(t, s)' = 0
    BY <1>1, <2>1 DEF Counts, Inside, Share, At, HandlingPcs
  <2> QED  BY <2>1, <2>2, <2>3, TakenCounts
<1>3. CASE Nested(t, s)
  <2>1. /\ cLockers'[s] = cLockers[s] + 1 /\ pc'[t] = "nest" /\ owner[s] = t
        /\ owner' = owner /\ cNestings' = cNestings
    BY <1>3 DEF Nested, EnterFrame, NextPc, TypeOK
  <2>2. /\ Counts(t, s) /\ Share(t, s) = cNestings[s] - 1
        /\ Counts(t, s)' /\ Share(t, s)' = cNestings[s]
    BY <1>1, <2>1 DEF Counts, Inside, Share, At, InPcs, OwnerPcs, HandlingPcs
  <2> QED  BY <1>1, <2>1, <2>2, InsideCounts
<1>4. CASE NextPc(t, "spin") /\ UNCHANGED cLockers
  <2>1. pc'[t] = "spin"
    BY <1>4 DEF NextPc, TypeOK
  <2> QED
    BY <1>1, <1>4, <2>1, QuietCounts DEF EnterFrame, InPcs, OwnerPcs, HandlingPcs
<1> QED  BY <1>2, <1>3, <1>4 DEF EnterCas

LEMMA EntersCount ==
    ASSUME TypeOK, MutexInv, MutexInv', CountAll, NEW t \in Threads, Enters(t),
           NEW s \in Sects, s = sect[t]
    PROVE  CountInv(s)'
<1>1. /\ Moves(t, s) /\ sect'[t] = s /\ SectInv(s)
      /\ cLockers[s] \in Int /\ cNestings[s] \in Int
  BY EntersMoves DEF Moves, Acts, MutexInv, TypeOK
<1>2. CASE EnterAgain(t) \/ SpinWin(t)
  BY <1>1, <1>2, EnterCasCounts
     DEF EnterAgain, SpinWin, EnterCas, InPcs, OwnerPcs, HandlingPcs
<1>3. CASE SpinOut(t) \/ Busy(t) \/ RingCall(t)
  <2>1. /\ pc[t] = "spin" /\ pc'[t] \in {"contend", "idle", "ff"}
        /\ UNCHANGED <<cLockers, cNestings, owner>>
    BY <1>3 DEF SpinOut, Busy, RingCall, EnterFrame, shared, NextPc, TypeOK
  <2> QED  BY <1>1, <2>1, QuietCounts DEF InPcs, OwnerPcs, HandlingPcs
<1>4. CASE Contend(t)
  <2>1. /\ pc[t] = "contend" /\ cLockers'[s] = cLockers[s] + 1
        /\ pc'[t] = (IF cLockers[s] = -1 THEN "first" ELSE "wait")
        /\ UNCHANGED <<cNestings, owner>>
    BY <1>4 DEF Contend, ContendWins, EnterFrame, NextPc, TypeOK
  <2>2. CASE cLockers[s] = -1
    <3>1. Cardinality(Waiters(s)') = 0
      BY <1>1, <2>1, <2>2, FreeCount, WaitersStep
    <3>2. Counts(t, s)' /\ Share(t, s)' = 0
      BY <1>1, <2>1, <2>2 DEF Counts, Inside, Share, At, HandlingPcs
    <3> QED  BY <2>1, <2>2, <3>1, <3>2, TakenCounts
  <2>3. CASE cLockers[s] # -1
    BY <1>1, <2>1, <2>3, QuietCounts DEF InPcs, OwnerPcs, HandlingPcs
  <2> QED  BY <2>2, <2>3
<1>5. CASE Wake(t)
  <2>1. pc[t] = "wait" /\ pc'[t] = "first" /\ event[s] /\ cLockers' = cLockers
    BY <1>5 DEF Wake, NextPc, TypeOK
  <2>2. cLockers[s] = Cardinality(Waiters(s)) - 1
    <3>1. \A u \in Threads : ~Inside(u, s)
      BY <1>1, <2>1 DEF SectInv, Exclusive
    <3> QED  BY <3>1 DEF CountAll, CountInv, Counts
  <2>3. cLockers'[s] = Cardinality(Waiters(s)')
    BY <1>1, <2>1, <2>2, WaitersStep
  <2>4. Counts(t, s)' /\ Share(t, s)' = 0
    BY <1>1, <2>1 DEF Counts, Inside, Share, At, HandlingPcs
  <2> QED  BY <2>3, <2>4, TakenCounts
<1>6. CASE First(t)
  <2>1. pc[t] = "first" /\ pc'[t] = "own" /\ cNestings'[s] = 1 /\ cLockers' = cLockers
    BY <1>6 DEF First, NextPc, TypeOK
  <2>2. /\ Counts(t, s) /\ Share(t, s) = 0
        /\ Counts(t, s)' /\ Share(t, s)' = 0
    BY <1>1, <2>1 DEF Counts, Inside, Share, At, HandlingPcs
  <2> QED  BY <1>1, <2>1, <2>2, InsideCounts
<1>7. CASE Own(t)
  <2>1. /\ pc[t] = "own" /\ pc'[t] = "idle" /\ owner'[s] = t
        /\ cNestings' = cNestings /\ cLockers' = cLockers
    BY <1>7 DEF Own, Entered, NextPc, TypeOK
  <2>2. /\ Counts(t, s) /\ Share(t, s) = cNestings[s] - 1
        /\ Counts(t, s)' /\ Share(t, s)' = cNestings[s] - 1
    BY <1>1, <2>1 DEF Counts, Inside, Share, At, HandlingPcs
  <2> QED  BY <1>1, <2>1, <2>2, InsideCounts
<1>8. CASE Nest(t)
  <2>1. /\ pc[t] = "nest" /\ pc'[t] = "idle" /\ owner' = owner
        /\ cNestings'[s] = cNestings[s] + 1 /\ cLockers' = cLockers
    BY <1>8 DEF Nest, Entered, NextPc, TypeOK
  <2>2. owner[s] = t
    BY <1>1, <2>1 DEF SectInv, PcOwner, At, OwnerPcs
  <2>3. /\ Counts(t, s) /\ Share(t, s) = cNestings[s]
        /\ Counts(t, s)' /\ Share(t, s)' = cNestings[s]
    BY <1>1, <2>1, <2>2 DEF Counts, Inside, Share, At
  <2> QED  BY <1>1, <2>1, <2>3, InsideCounts
<1> QED  BY <1>2, <1>3, <1>4, <1>5, <1>6, <1>7, <1>8 DEF Enters

LEMMA LeavesCount ==
    ASSUME TypeOK, MutexInv, MutexInv', NestAll, CountAll, NEW t \in Threads, Leaves(t),
           NEW s \in Sects, s = sect[t]
    PROVE  CountInv(s)'
<1>1. /\ Moves(t, s) /\ sect'[t] = s /\ SectInv(s) /\ NestInv(t, s)
      /\ cLockers[s] \in Int /\ cNestings[s] \in Int
  BY LeavesMove DEF Moves, Acts, MutexInv, NestAll, TypeOK
<1>2. AfterLeave(t) \notin InPcs \cup {"wait"} /\ AfterUnlock(t) \notin InPcs \cup {"wait"}
  BY AfterLeavePc, AfterUnlockPc DEF InPcs, OwnerPcs, HandlingPcs
<1>3. CASE Unnest(t)
  <2>1. /\ pc[t] = "unnest" /\ pc'[t] = AfterLeave(t) /\ cLockers'[s] = cLockers[s] - 1
        /\ owner' = owner /\ cNestings' = cNestings
    BY <1>3 DEF Unnest, LeaveFrame, NextPc, TypeOK
  <2>2. owner[s] = t
    BY <1>1, <2>1 DEF SectInv, PcOwner, At, OwnerPcs
  <2>3. /\ Counts(t, s) /\ Share(t, s) = cNestings[s]
        /\ Counts(t, s)' /\ Share(t, s)' = cNestings[s] - 1
    BY <1>1, <1>2, <2>1, <2>2 DEF Counts, Inside, Share, At, InPcs, OwnerPcs, HandlingPcs
  <2> QED  BY <1>1, <1>2, <2>1, <2>3, InsideCounts
<1>4. CASE Flag(t)
  <2>1. /\ pc[t] = "flag" /\ pc'[t] = "release" /\ owner' = owner
        /\ cNestings' = cNestings /\ cLockers' = cLockers
    BY <1>4 DEF Flag, LeaveFrame, NextPc, TypeOK
  <2>2. owner[s] = t
    BY <1>1, <2>1 DEF SectInv, PcOwner, At, OwnerPcs
  <2>3. /\ Counts(t, s) /\ Share(t, s) = cNestings[s] - 1
        /\ Counts(t, s)' /\ Share(t, s)' = cNestings[s] - 1
    BY <1>1, <2>1, <2>2 DEF Counts, Inside, Share, At
  <2> QED  BY <1>1, <2>1, <2>3, InsideCounts
<1>5. CASE Release(t)
  <2>1. /\ pc[t] = "release" /\ pc'[t] = "count"
        /\ cNestings' = cNestings /\ cLockers' = cLockers
    BY <1>5 DEF Release, NextPc, TypeOK
  <2>2. owner[s] = t
    BY <1>1, <2>1 DEF SectInv, PcOwner, At, OwnerPcs
  <2>3. /\ Counts(t, s) /\ Share(t, s) = cNestings[s] - 1
        /\ Counts(t, s)' /\ Share(t, s)' = cNestings[s] - 1
    BY <1>1, <2>1, <2>2 DEF Counts, Inside, Share, At, HandlingPcs
  <2> QED  BY <1>1, <2>1, <2>3, InsideCounts
<1>6. CASE Count(t)
  <2>1. pc[t] = "count" /\ pc'[t] = "unlock" /\ cLockers' = cLockers
    BY <1>6 DEF Count, LeaveFrame, NextPc, TypeOK
  <2>2. cNestings[s] = 1
    BY <1>1, <2>1 DEF NestInv, At
  <2>3. /\ Counts(t, s) /\ Share(t, s) = 0
        /\ Counts(t, s)' /\ Share(t, s)' = 0
    BY <1>1, <2>1, <2>2 DEF Counts, Inside, Share, At, HandlingPcs
  <2> QED  BY <1>1, <2>1, <2>3, InsideCounts
<1>7. CASE Unlock(t)
  <2>1. /\ pc[t] = "unlock" /\ pc'[t] \in {"signal", AfterUnlock(t)}
        /\ cLockers'[s] = cLockers[s] - 1 /\ owner' = owner
    BY <1>7 DEF Unlock, LeaveFrame, NextPc, TypeOK
  <2>2. Counts(t, s) /\ Share(t, s) = 0 /\ owner[s] # t
    BY <1>1, <2>1 DEF SectInv, PcOwner, Counts, Inside, Share, At, HandlingPcs
  <2>3. cLockers[s] = Cardinality(Waiters(s))
    BY <1>1, <2>2, WaitersStep DEF CountAll, CountInv
  <2>4. cLockers'[s] = Cardinality(Waiters(s)') - 1
    BY <1>1, <1>2, <2>1, <2>3, WaitersStep
  <2>5. \A u \in Threads : ~Counts(u, s)'
    <3>1. ~Counts(t, s)'
      BY <1>1, <1>2, <2>1, <2>2 DEF Counts, Inside, At, InPcs
    <3>2. ASSUME NEW u \in Threads, u # t  PROVE ~Counts(u, s)'
      BY <1>1, <2>1, <2>2, <3>2 DEF SectInv, Exclusive, Counts, Inside, At, Moves, Acts
    <3> QED  BY <3>1, <3>2
  <2> QED  BY <2>4, <2>5 DEF CountInv
<1>8. CASE Signal(t)
  <2>1. /\ pc[t] = "signal" /\ pc'[t] = AfterUnlock(t) /\ cLockers' = cLockers /\ owner' = owner
    BY <1>8 DEF Signal, NextPc, TypeOK
  <2>2. Inside(t, s) /\ ~Counts(t, s) /\ owner[s] # t
    BY <1>1, <2>1 DEF SectInv, PcOwner, Counts, Inside, At, HandlingPcs
  <2>3. \A u \in Threads : u # t => ~Inside(u, s)
    BY <1>1, <2>2 DEF SectInv, Exclusive
  <2>4. cLockers[s] = Cardinality(Waiters(s)) - 1
    BY <2>2, <2>3 DEF CountAll, CountInv, Counts
  <2>5. cLockers'[s] = Cardinality(Waiters(s)') - 1
    BY <1>1, <1>2, <2>1, <2>4, WaitersStep
  <2>6. \A u \in Threads : ~Counts(u, s)'
    <3>1. ~Counts(t, s)'
      BY <1>1, <1>2, <2>1, <2>2 DEF Counts, Inside, At, InPcs
    <3>2. ASSUME NEW u \in Threads, u # t  PROVE ~Counts(u, s)'
      BY <1>1, <2>1, <2>3, <3>2 DEF Counts, Inside, At, Moves, Acts
    <3> QED  BY <3>1, <3>2
  <2> QED  BY <2>5, <2>6 DEF CountInv
<1>9. CASE ExitSignal(t)
  <2>1. /\ pc[t] = "exitsig" /\ pc'[t] = AfterLeave(t)
        /\ UNCHANGED <<cLockers, cNestings, owner>>
    BY <1>9 DEF ExitSignal, shared, NextPc, TypeOK
  <2> QED  BY <1>1, <1>2, <2>1, QuietCounts DEF InPcs, OwnerPcs, HandlingPcs
<1> QED  BY <1>3, <1>4, <1>5, <1>6, <1>7, <1>8, <1>9 DEF Leaves

LEMMA RzLeavesCount ==
    ASSUME TypeOK, MutexInv, MutexInv', NestAll, CountAll, NEW t \in Threads, RzLeaves(t),
           NEW s \in Sects, s = sect[t]
    PROVE  CountInv(s)'
<1>1. /\ Moves(t, s) /\ sect'[t] = s /\ SectInv(s) /\ NestInv(t, s)
      /\ cLockers[s] \in Int /\ cNestings[s] \in Int
  BY RzLeavesMove DEF Moves, Acts, MutexInv, NestAll, TypeOK
<1>2. At(t, s, OwnerPcs) => owner[s] = t
  BY <1>1 DEF SectInv, PcOwner
<1>3. CASE RzNest(t)
  <2>1. /\ pc[t] = "rzNest" /\ pc'[t] = "rzFlag" /\ owner' = owner
        /\ cNestings[s] = 1 /\ cLockers' = cLockers
    BY <1>1, <1>3 DEF RzNest, LeaveFrame, NextPc, NestInv, LeavingPcs, At, TypeOK
  <2>2. /\ Counts(t, s) /\ Share(t, s) = 0
        /\ Counts(t, s)' /\ Share(t, s)' = 0
    BY <1>1, <1>2, <2>1 DEF Counts, Inside, Share, At, OwnerPcs
  <2> QED  BY <1>1, <2>1, <2>2, InsideCounts
<1>4. CASE RzFlag(t) \/ RzOwner(t) \/ RzRetake(t)
  <2>1. /\ pc[t] \in {"rzFlag", "rzOwner", "rzRetake"}
        /\ pc'[t] \in {"rzOwner", "rzCas", "rzRenest"}
        /\ pc'[t] \in {"rzOwner", "rzRenest"} => owner'[s] = t
        /\ cLockers' = cLockers
    BY <1>1, <1>2, <1>4 DEF RzFlag, RzOwner, RzRetake, LeaveFrame, NextPc, At, OwnerPcs, TypeOK
  <2>2. /\ Counts(t, s) /\ Share(t, s) = 0
        /\ Counts(t, s)' /\ Share(t, s)' = 0
    BY <1>1, <1>2, <2>1 DEF Counts, Inside, Share, At, OwnerPcs, HandlingPcs
  <2> QED  BY <1>1, <2>1, <2>2, InsideCounts
<1>5. CASE RzCas(t)
  <2>1. /\ pc[t] = "rzCas" /\ owner' = owner
        /\ IF cLockers[s] = 0
             THEN cLockers'[s] = -1 /\ pc'[t] = AfterLeave(t)
             ELSE cLockers'[s] = cLockers[s] /\ pc'[t] = "rzRetake"
    BY <1>1, <1>5 DEF RzCas, RzAlone, LeaveFrame, NextPc, TypeOK
  <2>2. Counts(t, s) /\ Share(t, s) = 0 /\ owner[s] # t
    BY <1>1, <2>1 DEF SectInv, PcOwner, Counts, Inside, Share, At, HandlingPcs
  <2>3. CASE cLockers[s] = 0
    <3>1. pc'[t] \notin InPcs \cup {"wait"}
      BY <2>1, <2>3, AfterLeavePc DEF InPcs, OwnerPcs, HandlingPcs
    <3>2. Cardinality(Waiters(s)) = 0
      BY <2>2, <2>3, <1>1, WaitersStep DEF CountAll, CountInv
    <3>3. cLockers'[s] = Cardinality(Waiters(s)') - 1
      BY <1>1, <2>1, <2>3, <3>1, <3>2, WaitersStep
    <3>4. ~Counts(t, s)'
      BY <1>1, <2>1, <2>2, <3>1 DEF Counts, Inside, At, InPcs
    <3>5. ASSUME NEW u \in Threads, u # t  PROVE ~Counts(u, s)'
      BY <1>1, <2>1, <2>2, <3>5 DEF SectInv, Exclusive, Counts, Inside, At, Moves, Acts
    <3> QED  BY <3>3, <3>4, <3>5 DEF CountInv
  <2>4. CASE cLockers[s] # 0
    <3>1. Counts(t, s)' /\ Share(t, s)' = 0
      BY <1>1, <2>1, <2>4 DEF Counts, Inside, Share, At, HandlingPcs
    <3> QED  BY <1>1, <2>1, <2>2, <2>4, <3>1, InsideCounts
  <2> QED  BY <2>3, <2>4
<1>6. CASE RzRenest(t)
  <2>1. /\ pc[t] = "rzRenest" /\ pc'[t] = "rzQueue" /\ owner' = owner
        /\ cNestings'[s] = 1 /\ cLockers' = cLockers
    BY <1>6 DEF RzRenest, LeaveFrame, NextPc, TypeOK
  <2>2. /\ Counts(t, s) /\ Share(t, s) = 0
        /\ Counts(t, s)' /\ Share(t, s)' = 0
    BY <1>1, <1>2, <2>1 DEF Counts, Inside, Share, At, OwnerPcs
  <2> QED  BY <1>1, <2>1, <2>2, InsideCounts
<1>7. CASE RzQueue(t)
  <2>1. /\ pc[t] = "rzQueue" /\ pc'[t] = "idle" /\ owner' = owner
        /\ cNestings' = cNestings /\ cLockers' = cLockers
    BY <1>7 DEF RzQueue, NextPc, TypeOK
  <2>2. /\ Counts(t, s) /\ Share(t, s) = cNestings[s] - 1
        /\ Counts(t, s)' /\ Share(t, s)' = cNestings[s] - 1
    BY <1>1, <1>2, <2>1 DEF Counts, Inside, Share, At, OwnerPcs
  <2> QED  BY <1>1, <2>1, <2>2, InsideCounts
<1> QED  BY <1>3, <1>4, <1>5, <1>6, <1>7 DEF RzLeaves

LEMMA LeaveByCounts ==
    ASSUME TypeOK, MutexInv, MutexInv', CountAll, NEW t \in Threads, NEW s \in Sects, NEW c,
           Moves(t, s), pc[t] \in {"idle", "ff"}, LeaveBy(t, s, c)
    PROVE  CountInv(s)'
<1>1. /\ sect'[t] = s /\ cLockers[s] \in Int /\ cNestings[s] \in Int
      /\ owner[s] = t /\ owner' = owner /\ cLockers' = cLockers
  BY DEF Moves, Acts, TypeOK, LeaveBy
<1>2. CASE LeaveNested(t, s)
  <2>1. pc'[t] = "unnest" /\ cNestings'[s] = cNestings[s] - 1
    BY <1>2 DEF LeaveNested, NextPc, TypeOK
  <2>2. /\ Counts(t, s) /\ Share(t, s) = cNestings[s] - 1
        /\ Counts(t, s)' /\ Share(t, s)' = cNestings[s] - 1
    BY <1>1, <2>1 DEF Counts, Inside, Share, At
  <2> QED  BY <1>1, <2>1, <2>2, InsideCounts
<1>3. CASE LeaveForReal(t, s) \/ LeaveTry(t, s)
  <2>1. pc'[t] \in {"flag", "rzNest", "rzQueue"} /\ cNestings' = cNestings
    BY <1>3 DEF LeaveForReal, LeaveTry, NextPc, TypeOK
  <2>2. /\ Counts(t, s) /\ Share(t, s) = cNestings[s] - 1
        /\ Counts(t, s)' /\ Share(t, s)' = cNestings[s] - 1
    BY <1>1, <2>1 DEF Counts, Inside, Share, At
  <2> QED  BY <1>1, <2>1, <2>2, InsideCounts
<1> QED  BY <1>2, <1>3 DEF LeaveBy

LEMMA FFCounts ==
    ASSUME TypeOK, MutexInv, MutexInv', NestAll, CountAll, NEW t \in Threads, FF(t)
    PROVE  CountAll'
<1>1. Control(t)
  BY DEF NestAll
<1>2. CASE FFLeave(t)
  <2>1. PICK s \in Sects : s = queue[t][fi[t] + 1]
    <3>1. queue[t][fi[t] + 1] \in Sects
      BY <1>2 DEF FFLeave, TypeOK
    <3> QED  BY <3>1
  <2>2. pc[t] = "ff" /\ LeaveBy(t, s, "ff") /\ Moves(t, s)
    BY <1>1, <1>2, <2>1, FFLeaveMoves DEF FFLeave
  <2> QED  BY <2>2, LeaveByCounts, CountFrame
<1>3. CASE FFDone(t)
  <2>1. PICK s \in Sects : s = sect'[t]
    BY <1>3 DEF FFDone, FFReturns, TypeOK
  <2>2. /\ pc[t] = "ff" /\ pc'[t] \in {"idle", "enter"} /\ Moves(t, s)
        /\ UNCHANGED <<cLockers, cNestings, owner>>
    BY <1>3, <2>1, FFDoneMoves DEF FFDone, FFReturns, shared, NextPc, TypeOK
  <2>3. cLockers'[s] = cLockers[s] + (IF pc'[t] = "wait" THEN 1 ELSE 0)
    BY <2>2 DEF TypeOK
  <2>4. CountInv(s)'
    BY <2>2, <2>3, QuietCounts DEF InPcs, OwnerPcs, HandlingPcs
  <2> QED  BY <2>2, <2>4, CountFrame
<1> QED  BY <1>2, <1>3 DEF FF

LEMMA ClientCounts ==
    ASSUME TypeOK, MutexInv, MutexInv', CountAll, NEW t \in Threads, Client(t)
    PROVE  CountAll'
<1>1. CASE RunGuest(t) \/ ToRing3(t)
  <2>1. PICK s \in Sects : s = sect[t]
    BY DEF TypeOK
  <2>2. /\ pc[t] = "idle" /\ pc'[t] \in {"idle", "ff"} /\ Moves(t, s)
        /\ UNCHANGED <<cLockers, cNestings, owner>>
    BY <1>1, <2>1, CrossMoves DEF RunGuest, ToRing3, shared, NextPc, TypeOK
  <2>3. cLockers'[s] = cLockers[s] + (IF pc'[t] = "wait" THEN 1 ELSE 0)
    BY <2>2 DEF TypeOK
  <2>4. CountInv(s)'
    BY <2>2, <2>3, QuietCounts DEF InPcs, OwnerPcs, HandlingPcs
  <2> QED  BY <2>2, <2>4, CountFrame
<1>2. ASSUME NEW s \in Sects, Enter(t, s) \/ TryEnter(t, s)  PROVE CountAll'
  <2>1. pc[t] \notin InPcs \cup {"wait"} /\ EnterCas(t, s) /\ EnterFrame /\ Moves(t, s)
    BY <1>2, EnterMoves DEF Enter, TryEnter, EnterCas, InPcs, OwnerPcs, HandlingPcs
  <2> QED  BY <2>1, EnterCasCounts, CountFrame
<1>3. ASSUME NEW s \in Sects, Leave(t, s) \/ Yield(t, s)  PROVE CountAll'
  <2>1. pc[t] = "idle" /\ Moves(t, s) /\ \E c : LeaveBy(t, s, c)
    BY <1>3, LeaveMoves DEF Leave, Yield
  <2> QED  BY <2>1, LeaveByCounts, CountFrame
<1>4. ASSUME NEW s \in Sects, ScheduleExitEvent(t, s)  PROVE CountAll'
  BY <1>4 DEF ScheduleExitEvent, local, CountAll, CountInv, Counts, Inside, Share, At, Waiters
<1> QED  BY <1>1, <1>2, <1>3, <1>4 DEF Client

LEMMA InitCounts == Init => CountAll
<1> SUFFICES ASSUME Init, NEW s \in Sects  PROVE CountInv(s)
  BY DEF CountAll
<1>1. Waiters(s) = {} /\ \A t \in Threads : ~Counts(t, s)
  BY ThreadsAssumption DEF Init, Waiters, Counts, Inside, At, HandlingPcs
<1>2. cLockers[s] = -1 /\ Cardinality(Waiters(s)) = 0
  BY <1>1, FS_EmptySet DEF Init
<1> QED  BY <1>1, <1>2 DEF CountInv

LEMMA NextCounts ==
    TypeOK /\ MutexInv /\ MutexInv' /\ NestAll /\ CountAll /\ [Next]_vars => CountAll'
<1> SUFFICES ASSUME TypeOK, MutexInv, MutexInv', NestAll, CountAll, [Next]_vars
             PROVE  CountAll'
  OBVIOUS
<1>1. ASSUME NEW t \in Threads, Step(t)  PROVE CountAll'
  <2>1. PICK s \in Sects : s = sect[t]
    BY DEF TypeOK
  <2>2. CASE Enters(t)
    BY <2>1, <2>2, EntersMoves, EntersCount, CountFrame
  <2>3. CASE Leaves(t)
    BY <2>1, <2>3, LeavesMove, LeavesCount, CountFrame
  <2>4. CASE RzLeaves(t)
    BY <2>1, <2>4, RzLeavesMove, RzLeavesCount, CountFrame
  <2> QED  BY <1>1, <2>2, <2>3, <2>4, FFCounts DEF Step
<1>2. CASE UNCHANGED vars
  BY <1>2 DEF vars, CountAll, CountInv, Counts, Inside, Share, At, Waiters
<1> QED  BY <1>1, <1>2, ClientCounts DEF Next

\* The counts are exact in every reachable state.
THEOREM CountCorrect == Spec => []CountAll
<1>1. Init => TypeOK /\ MutexInv /\ NestAll /\ CountAll
  BY InitType, InitMutex, InitNests, InitCounts
<1>2. TypeOK /\ MutexInv /\ NestAll /\ CountAll /\ [Next]_vars
        => TypeOK' /\ MutexInv' /\ NestAll' /\ CountAll'
  BY NextType, NextMutex, NextNests, NextCounts
<1> QED  BY <1>1, <1>2, PTL DEF Spec

\* cLockers tells exactly who waits, so the test of PDMCritSectHasWaiters and
\* PDMR3CritSectYield is exact for an owner in client code.
THEOREM LockerCountCorrect == Spec => []LockerCount
<1>1. TypeOK /\ MutexInv /\ CountAll => LockerCount
  <2> SUFFICES ASSUME TypeOK, MutexInv, CountAll, NEW s \in Sects
               PROVE  /\ cLockers[s] = OwnLockers(s) + Cardinality(Waiters(s))
                      /\ \A t \in Threads :
                           pc[t] = "idle" /\ owner[s] = t => (HasWaiters(s) <=> Waiters(s) # {})
    BY DEF LockerCount
  <2>1. /\ CountInv(s) /\ Exclusive(s) /\ cNestings[s] \in Int
        /\ IsFiniteSet(Waiters(s)) /\ Cardinality(Waiters(s)) \in Nat
    BY FiniteWaiters DEF CountAll, MutexInv, SectInv, TypeOK
  <2>2. ASSUME NEW t \in Threads, Counts(t, s)  PROVE OwnLockers(s) = Share(t, s)
    <3>1. (CHOOSE u \in Threads : Inside(u, s)) = t
      BY <2>1, <2>2 DEF Counts, Exclusive
    <3> QED  BY <2>2, <3>1 DEF OwnLockers, Counts, Share
  <2>3. ASSUME \A t \in Threads : ~Counts(t, s)  PROVE OwnLockers(s) = -1
    BY <2>3 DEF OwnLockers, Counts
  <2>4. cLockers[s] = OwnLockers(s) + Cardinality(Waiters(s))
    <3>1. CASE \E t \in Threads : Counts(t, s)
      BY <2>1, <2>2, <3>1 DEF CountInv
    <3>2. CASE \A t \in Threads : ~Counts(t, s)
      BY <2>1, <2>3, <3>2 DEF CountInv
    <3> QED  BY <3>1, <3>2
  <2>5. ASSUME NEW t \in Threads, pc[t] = "idle", owner[s] = t
        PROVE  HasWaiters(s) <=> Waiters(s) # {}
    <3>1. Counts(t, s) /\ Share(t, s) = cNestings[s] - 1
      BY <2>5 DEF Counts, Inside, Share, At
    <3>2. cLockers[s] = cNestings[s] - 1 + Cardinality(Waiters(s))
      BY <2>1, <3>1 DEF CountInv
    <3>3. Cardinality(Waiters(s)) = 0 <=> Waiters(s) = {}
      BY <2>1, FS_EmptySet
    <3> QED  BY <2>1, <3>2, <3>3 DEF HasWaiters
  <2> QED  BY <2>4, <2>5
<1> QED  BY <1>1, TypeCorrect, MutexCorrect, CountCorrect, PTL

\* A signal, given or about to be, has somebody to wake: a section is never
\* left with its semaphore signalled and nobody to take it.
THEOREM NoLostWakeupCorrect == Spec => []NoLostWakeup
<1>1. TypeOK /\ MutexInv /\ CountAll => NoLostWakeup
  <2> SUFFICES ASSUME TypeOK, MutexInv, CountAll, NEW s \in Sects,
                      event[s] \/ \E t \in Threads : At(t, s, {"signal"})
               PROVE  Waiters(s) # {}
    BY DEF NoLostWakeup
  <2>1. /\ CountInv(s) /\ Exclusive(s) /\ FreeIsFree(s) /\ PcOwner(s)
        /\ cLockers[s] \in Int
    BY DEF CountAll, MutexInv, SectInv, TypeOK
  <2>2. cLockers[s] >= 0
    <3>1. event[s] \/ \E t \in Threads : Inside(t, s)
      BY DEF Inside, At, HandlingPcs
    <3> QED  BY <2>1, <3>1 DEF FreeIsFree
  <2>3. \A u \in Threads : ~Counts(u, s)
    <3>1. ASSUME NEW t \in Threads, At(t, s, {"signal"})
          PROVE  \A u \in Threads : ~Counts(u, s)
      <4>1. Inside(t, s)
        BY <3>1 DEF Inside, At, HandlingPcs
      <4>2. \A u \in Threads : Inside(u, s) => u = t
        BY <2>1, <4>1 DEF Exclusive
      <4> QED  BY <3>1, <4>2 DEF Counts
    <3>2. event[s] => \A u \in Threads : ~Counts(u, s)
      BY <2>1 DEF Exclusive, Counts
    <3> QED  BY <3>1, <3>2
  <2>4. Cardinality(Waiters(s)) > 0
    BY <2>1, <2>2, <2>3, FiniteWaiters DEF CountInv
  <2> QED  BY <2>4, FS_EmptySet
<1> QED  BY <1>1, TypeCorrect, MutexCorrect, CountCorrect, PTL

\* Nobody passes a waiter: the exchange and the increment that let a thread in
\* find cLockers at -1, and then nobody waits.
THEOREM NoBargingCorrect == Spec => NoBarging
<1> DEFINE Barges(t) == pc[t] # "first" /\ pc'[t] = "first"
           Fair(t) == Barges(t) => pc[t] = "wait" \/ Waiters(sect'[t]) = {}
<1>1. ASSUME TypeOK, MutexInv, CountAll, [Next]_vars, NEW t \in Threads, Barges(t)
      PROVE  pc[t] = "wait" \/ Waiters(sect'[t]) = {}
  <2>1. PICK u \in Threads : Client(u) \/ Step(u)
    BY <1>1 DEF Next, vars
  <2>2. ASSUME NEW s \in Sects, cLockers[s] = -1  PROVE Waiters(s) = {}
    BY <1>1, <2>2, FreeCount, FiniteWaiters, FS_EmptySet
  <2>3. ASSUME NEW s \in Sects, EnterCas(u, s), sect' = [sect EXCEPT ![u] = s]
        PROVE  Waiters(sect'[t]) = {}
    <3>1. Lucky(u, s) /\ u = t
      <4>1. CASE Lucky(u, s)
        BY <1>1, <4>1 DEF Lucky, NextPc, TypeOK
      <4>2. ~Nested(u, s)
        BY <1>1 DEF Nested, NextPc, TypeOK
      <4>3. ~NextPc(u, "spin")
        BY <1>1 DEF NextPc, TypeOK
      <4> QED  BY <2>3, <4>1, <4>2, <4>3 DEF EnterCas
    <3>2. cLockers[s] = -1 /\ sect'[t] = s
      BY <1>1, <2>3, <3>1 DEF Lucky, TypeOK
    <3> QED  BY <2>2, <3>2
  <2>4. CASE Client(u)
    <3>1. \E s \in Sects : EnterCas(u, s) /\ sect' = [sect EXCEPT ![u] = s]
      <4>1. ~RunGuest(u) /\ ~ToRing3(u)
        BY <1>1 DEF RunGuest, ToRing3, NextPc, TypeOK
      <4>2. ASSUME NEW s \in Sects, NEW c  PROVE ~LeaveBy(u, s, c)
        BY <1>1 DEF LeaveBy, LeaveNested, LeaveForReal, LeaveTry, NextPc, TypeOK
      <4>3. \A s \in Sects : ~Leave(u, s) /\ ~Yield(u, s) /\ ~ScheduleExitEvent(u, s)
        BY <1>1, <4>2 DEF Leave, Yield, ScheduleExitEvent, local
      <4> QED  BY <2>4, <4>1, <4>3 DEF Client, Enter, TryEnter, EnterCas
    <3> QED  BY <2>3, <3>1
  <2>5. CASE Enters(u)
    <3>1. sect' = sect /\ sect[u] \in Sects /\ sect' = [sect EXCEPT ![u] = sect[u]]
      BY <1>1, <2>5 DEF Enters, EnterAgain, SpinWin, SpinOut, Busy, RingCall, Contend, Wake,
         First, Own, Nest, Entered, TypeOK
    <3>2. CASE EnterAgain(u) \/ SpinWin(u)
      BY <2>3, <3>1, <3>2 DEF EnterAgain, SpinWin, EnterCas
    <3>3. CASE Contend(u)
      <4>1. u = t /\ cLockers[sect[t]] = -1
        BY <1>1, <3>3 DEF Contend, ContendWins, NextPc, TypeOK
      <4> QED  BY <2>2, <3>1, <4>1
    <3>4. CASE Wake(u)
      BY <1>1, <3>4 DEF Wake, NextPc, TypeOK
    <3>5. CASE SpinOut(u) \/ Busy(u) \/ RingCall(u) \/ First(u)
      BY <1>1, <3>5 DEF SpinOut, Busy, RingCall, First, NextPc, TypeOK
    <3>6. CASE Own(u) \/ Nest(u)
      BY <1>1, <3>6 DEF Own, Nest, Entered, NextPc, TypeOK
    <3> QED  BY <2>5, <3>2, <3>3, <3>4, <3>5, <3>6 DEF Enters
  <2>6. ~Leaves(u)
    <3>1. AfterLeave(u) # "first" /\ AfterUnlock(u) # "first"
      BY <1>1, AfterLeavePc, AfterUnlockPc
    <3> QED
      BY <1>1, <3>1 DEF Leaves, Unnest, Flag, Release, Count, Unlock, Signal, ExitSignal,
         NextPc, TypeOK
  <2>7. ~RzLeaves(u)
    <3>1. AfterLeave(u) # "first"
      BY <1>1, AfterLeavePc
    <3> QED
      BY <1>1, <3>1 DEF RzLeaves, RzNest, RzFlag, RzOwner, RzCas, RzRetake, RzRenest, RzQueue,
         NextPc, TypeOK
  <2>8. ~FF(u)
    BY <1>1 DEF FF, FFLeave, FFDone, FFReturns, LeaveBy, LeaveNested, LeaveForReal, LeaveTry,
       NextPc, TypeOK
  <2> QED  BY <2>1, <2>4, <2>5, <2>6, <2>7, <2>8 DEF Step
<1>2. TypeOK /\ MutexInv /\ CountAll /\ [Next]_vars
        => [\A t \in Threads : Fair(t)]_vars
  BY <1>1
<1> QED
  BY <1>2, TypeCorrect, MutexCorrect, CountCorrect, PTL DEF Spec, NoBarging
=============================================================================
