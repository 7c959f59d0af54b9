------------------------ MODULE PDMCritSect_proof ------------------------
(***************************************************************************)
(* Proofs about PDMCritSect, for every set of threads and sections.        *)
(***************************************************************************)
EXTENDS PDMCritSect, TLAPS

\* Every branch a leave can return to is a program counter in none of OwnerPcs and HandlingPcs.
LEMMA AfterLeavePc ==
    ASSUME TypeOK, NEW t \in Threads
    PROVE  AfterLeave(t) \in {"idle", "ff", "enter"}
BY DEF AfterLeave, TypeOK

LEMMA AfterUnlockPc ==
    ASSUME TypeOK, NEW t \in Threads
    PROVE  AfterUnlock(t) \in {"idle", "ff", "enter", "exitsig"}
BY AfterLeavePc DEF AfterUnlock

\* Initially every variable has its type.
LEMMA InitType == Init => TypeOK
BY ThreadsAssumption, SectsAssumption DEF Init, TypeOK, Pcs, Contexts

LEMMA EnterCasType ==
    ASSUME TypeOK, NEW t \in Threads, NEW s \in Sects,
           EnterCas(t, s) \/ Lucky(t, s) \/ Nested(t, s), EnterFrame,
           sect' \in [Threads -> Sects]
    PROVE  TypeOK'
<1>1. cLockers' \in [Sects -> Int] /\ pc' \in [Threads -> Pcs]
  <2>1. CASE Lucky(t, s)
    <3>1. cLockers' = [cLockers EXCEPT ![s] = 0] /\ NextPc(t, "first")
      BY <2>1 DEF Lucky
    <3>2. cLockers' \in [Sects -> Int]
      BY <3>1 DEF TypeOK
    <3>3. pc' \in [Threads -> Pcs]
      BY <3>1 DEF NextPc, TypeOK, Pcs
    <3> QED  BY <3>2, <3>3
  <2>2. CASE Nested(t, s)
    BY <2>2 DEF Nested, NextPc, TypeOK, Pcs
  <2>3. CASE NextPc(t, "spin") /\ UNCHANGED cLockers
    BY <2>3 DEF NextPc, TypeOK, Pcs
  <2> QED  BY <2>1, <2>2, <2>3 DEF EnterCas
<1> QED  BY <1>1 DEF EnterFrame, TypeOK

LEMMA LeaveByType ==
    ASSUME TypeOK, NEW t \in Threads, NEW s \in Sects,
           NEW c \in {"client", "ff", "yield"}, LeaveBy(t, s, c),
           fi' \in [Threads -> Nat], \A u \in Threads : fi'[u] <= Len(queue[u]),
           depth' \in [Threads -> [Sects -> Int]]
    PROVE  TypeOK'
<1>1. LeaveNested(t, s) \/ LeaveForReal(t, s) \/ LeaveTry(t, s)
  BY DEF LeaveBy
<1>2. /\ sect' \in [Threads -> Sects]
      /\ caller' \in [Threads -> {"client", "ff", "yield"}]
      /\ UNCHANGED <<cLockers, owner, pending, event, ctx, call, want, queue>>
  BY DEF LeaveBy, TypeOK
<1>3. /\ cNestings' \in [Sects -> Int]
      /\ pc' \in [Threads -> Pcs]
      /\ exitEvent' \in [Sects -> BOOLEAN]
      /\ toSignal' \in [Threads -> BOOLEAN]
  <2>1. CASE LeaveNested(t, s)
    BY <2>1 DEF LeaveNested, NextPc, TypeOK, Pcs
  <2>2. CASE LeaveForReal(t, s)
    BY <2>2 DEF LeaveForReal, NextPc, TypeOK, Pcs
  <2>3. CASE LeaveTry(t, s)
    BY <2>3 DEF LeaveTry, NextPc, TypeOK, Pcs
  <2> QED  BY <1>1, <2>1, <2>2, <2>3
<1> QED  BY <1>2, <1>3 DEF TypeOK

\* A step of the client keeps the types.
LEMMA ClientType ==
    ASSUME TypeOK, NEW t \in Threads, Client(t)
    PROVE  TypeOK'
<1>1. CASE RunGuest(t)
  BY <1>1 DEF RunGuest, TypeOK, shared, Contexts
<1>2. CASE ToRing3(t)
  BY <1>2 DEF ToRing3, NextPc, TypeOK, shared, Contexts, Pcs
<1>3. ASSUME NEW s \in Sects, Enter(t, s)  PROVE TypeOK'
  <2>1. sect' \in [Threads -> Sects]  BY <1>3 DEF Enter, TypeOK
  <2> QED  BY <1>3, <2>1, EnterCasType DEF Enter
<1>4. ASSUME NEW s \in Sects, TryEnter(t, s)  PROVE TypeOK'
  <2>1. sect' \in [Threads -> Sects]  BY <1>4 DEF TryEnter, TypeOK
  <2> QED  BY <1>4, <2>1, EnterCasType DEF TryEnter
<1>5. ASSUME NEW s \in Sects, Leave(t, s)  PROVE TypeOK'
  <2>1. /\ fi' = fi /\ depth' \in [Threads -> [Sects -> Int]]
    BY <1>5 DEF Leave, Shallow, TypeOK
  <2>2. fi' \in [Threads -> Nat] /\ \A u \in Threads : fi'[u] <= Len(queue[u])
    BY <2>1 DEF TypeOK
  <2> QED  BY <1>5, <2>1, <2>2, LeaveByType DEF Leave
<1>6. ASSUME NEW s \in Sects, Yield(t, s)  PROVE TypeOK'
  <2>1. /\ fi' = fi /\ depth' \in [Threads -> [Sects -> Int]]
    BY <1>6 DEF Yield, Shallow, TypeOK
  <2>2. fi' \in [Threads -> Nat] /\ \A u \in Threads : fi'[u] <= Len(queue[u])
    BY <2>1 DEF TypeOK
  <2> QED  BY <1>6, <2>1, <2>2, LeaveByType DEF Yield
<1>7. ASSUME NEW s \in Sects, ScheduleExitEvent(t, s)  PROVE TypeOK'
  BY <1>7 DEF ScheduleExitEvent, TypeOK, local
<1> QED  BY <1>1, <1>2, <1>3, <1>4, <1>5, <1>6, <1>7 DEF Client

\* So do the steps of an enter...
LEMMA EntersType ==
    ASSUME TypeOK, NEW t \in Threads, Enters(t)
    PROVE  TypeOK'
<1>1. CASE EnterAgain(t)
  BY <1>1, EnterCasType DEF EnterAgain, TypeOK
<1>2. CASE SpinWin(t)
  BY <1>2, EnterCasType DEF SpinWin, TypeOK
<1>3. CASE SpinOut(t) \/ Busy(t)
  BY <1>3 DEF SpinOut, Busy, EnterFrame, NextPc, TypeOK, Pcs
<1>4. CASE RingCall(t)
  BY <1>4 DEF RingCall, shared, NextPc, TypeOK, Pcs, Contexts
<1>5. CASE Contend(t)
  BY <1>5 DEF Contend, ContendWins, EnterFrame, NextPc, TypeOK, Pcs
<1>6. CASE Wake(t)
  BY <1>6 DEF Wake, NextPc, TypeOK, Pcs
<1>7. CASE First(t)
  BY <1>7 DEF First, NextPc, TypeOK, Pcs
<1>8. ASSUME Entered(t)
      PROVE  /\ depth' \in [Threads -> [Sects -> Int]]
             /\ pc' \in [Threads -> Pcs]
             /\ ctx' \in [Threads -> Contexts]
             /\ call' \in [Threads -> {"none", "R0", "RZ"}]
             /\ UNCHANGED <<cLockers, pending, event, exitEvent, sect, caller,
                            toSignal, want, queue, fi>>
  BY <1>8 DEF Entered, Deepen, NextPc, TypeOK, Pcs, Contexts
<1>9. CASE Own(t)
  <2>1. cNestings' = cNestings /\ owner' \in [Sects -> Threads \cup {NIL}]
    BY <1>9 DEF Own, TypeOK
  <2> QED  BY <1>8, <1>9, <2>1 DEF Own, TypeOK
<1>10. CASE Nest(t)
  <2>1. owner' = owner /\ cNestings' \in [Sects -> Int]
    BY <1>10 DEF Nest, TypeOK
  <2> QED  BY <1>8, <1>10, <2>1 DEF Nest, TypeOK
<1> QED  BY <1>1, <1>2, <1>3, <1>4, <1>5, <1>6, <1>7, <1>9, <1>10 DEF Enters

\* ... of a leave...
LEMMA LeavesType ==
    ASSUME TypeOK, NEW t \in Threads, Leaves(t)
    PROVE  TypeOK'
<1>1. CASE Unnest(t)
  BY <1>1, AfterLeavePc DEF Unnest, LeaveFrame, NextPc, TypeOK, Pcs
<1>2. CASE Flag(t)
  BY <1>2 DEF Flag, LeaveFrame, NextPc, TypeOK, Pcs
<1>3. CASE Release(t)
  BY <1>3 DEF Release, NextPc, TypeOK, Pcs
<1>4. CASE Count(t)
  <2>1. cNestings' \in [Sects -> Int]
    BY <1>4 DEF Count, TypeOK
  <2> QED  BY <1>4, <2>1 DEF Count, LeaveFrame, NextPc, TypeOK, Pcs
<1>5. CASE Unlock(t)
  <2>1. cLockers' \in [Sects -> Int]
    BY <1>5 DEF Unlock, TypeOK
  <2>2. (IF UnlockWakes(sect[t]) THEN "signal" ELSE AfterUnlock(t)) \in Pcs
    BY AfterUnlockPc DEF Pcs
  <2>3. pc' \in [Threads -> Pcs]
    BY <1>5, <2>2 DEF Unlock, UnlockWakes, NextPc, TypeOK
  <2> QED  BY <1>5, <2>1, <2>3 DEF Unlock, LeaveFrame, TypeOK
<1>6. CASE Signal(t)
  BY <1>6, AfterUnlockPc DEF Signal, NextPc, TypeOK, Pcs
<1>7. CASE ExitSignal(t)
  BY <1>7, AfterLeavePc DEF ExitSignal, shared, NextPc, TypeOK, Pcs
<1> QED  BY <1>1, <1>2, <1>3, <1>4, <1>5, <1>6, <1>7 DEF Leaves

\* ... of a leave that may not signal...
LEMMA RzLeavesType ==
    ASSUME TypeOK, NEW t \in Threads, RzLeaves(t)
    PROVE  TypeOK'
<1>1. CASE RzNest(t)
  BY <1>1 DEF RzNest, LeaveFrame, NextPc, TypeOK, Pcs
<1>2. CASE RzFlag(t)
  BY <1>2 DEF RzFlag, LeaveFrame, NextPc, TypeOK, Pcs
<1>3. CASE RzOwner(t)
  BY <1>3 DEF RzOwner, NextPc, TypeOK, Pcs
<1>4. CASE RzCas(t)
  <2>1. cLockers' \in [Sects -> Int]
    BY <1>4 DEF RzCas, RzAlone, TypeOK
  <2>2. pc' \in [Threads -> Pcs]
    <3>1. AfterLeave(t) \in Pcs /\ "rzRetake" \in Pcs
      BY AfterLeavePc DEF Pcs
    <3> QED  BY <1>4, <3>1 DEF RzCas, RzAlone, NextPc, TypeOK
  <2> QED  BY <1>4, <2>1, <2>2 DEF RzCas, RzAlone, LeaveFrame, TypeOK
<1>5. CASE RzRetake(t)
  BY <1>5 DEF RzRetake, NextPc, TypeOK, Pcs
<1>6. CASE RzRenest(t)
  BY <1>6 DEF RzRenest, LeaveFrame, NextPc, TypeOK, Pcs
<1>7. CASE RzQueue(t)
  BY <1>7 DEF RzQueue, NextPc, TypeOK, Pcs
<1> QED  BY <1>1, <1>2, <1>3, <1>4, <1>5, <1>6, <1>7 DEF RzLeaves

\* ... and of PDMCritSectFF.
LEMMA FFType ==
    ASSUME TypeOK, NEW t \in Threads, FF(t)
    PROVE  TypeOK'
<1>1. CASE FFLeave(t)
  <2>1. queue[t][fi[t] + 1] \in Sects
    BY <1>1 DEF FFLeave, TypeOK
  <2>2. fi' \in [Threads -> Nat] /\ depth' \in [Threads -> [Sects -> Int]]
    <3>1. fi[t] + 1 \in Nat
      BY DEF TypeOK
    <3> QED  BY <1>1, <3>1 DEF FFLeave, TypeOK
  <2>3. ASSUME NEW u \in Threads  PROVE fi'[u] <= Len(queue[u])
    BY <1>1 DEF FFLeave, TypeOK
  <2> QED  BY <1>1, <2>1, <2>2, <2>3, LeaveByType DEF FFLeave
<1>2. CASE FFDone(t)
  BY <1>2 DEF FFDone, FFReturns, shared, NextPc, TypeOK, Pcs
<1> QED  BY <1>1, <1>2 DEF FF

LEMMA NextType == TypeOK /\ [Next]_vars => TypeOK'
<1> SUFFICES ASSUME TypeOK, [Next]_vars  PROVE TypeOK'
  OBVIOUS
<1>1. CASE Next
  BY <1>1, ClientType, EntersType, LeavesType, RzLeavesType, FFType DEF Next, Step
<1>2. CASE UNCHANGED vars
  BY <1>2 DEF vars, TypeOK
<1> QED  BY <1>1, <1>2

\* Type correctness: in every reachable state each variable has its type.
THEOREM TypeCorrect == Spec => []TypeOK
BY InitType, NextType, PTL DEF Spec

-----------------------------------------------------------------------------
(* Mutual exclusion.  MutexInv is a conjunction over the sections, and a   *)
(* step is about one section: Frame carries the others over.  There is a   *)
(* lemma for every kind of access to the section's shared state.           *)

InPcs == OwnerPcs \cup HandlingPcs

Untouched(r) ==
    /\ cLockers'[r] = cLockers[r]
    /\ cNestings'[r] = cNestings[r]
    /\ owner'[r] = owner[r]
    /\ pending'[r] = pending[r]
    /\ event'[r] = event[r]

\* A step of t that changes shared state of s only.
Acts(t, s) ==
    /\ \A u \in Threads \ {t} : pc'[u] = pc[u] /\ sect'[u] = sect[u]
    /\ sect'[t] = s
    /\ pc[t] \in InPcs => sect[t] = s
    /\ \A r \in Sects \ {s} : Untouched(r)

\* Such a step keeps the invariant if it keeps the part of s.
LEMMA Frame ==
    ASSUME MutexInv, NEW t \in Threads, NEW s \in Sects, Acts(t, s), SectInv(s)'
    PROVE  MutexInv'
<1> SUFFICES ASSUME NEW r \in Sects, r # s  PROVE SectInv(r)'
  BY DEF MutexInv
<1>1. SectInv(r) /\ Untouched(r)
  BY DEF MutexInv, Acts
<1>2. ASSUME NEW u \in Threads, NEW L, L \subseteq InPcs
      PROVE  At(u, r, L)' <=> At(u, r, L)
  BY <1>2 DEF Acts, At
<1>3. \A u \in Threads : Inside(u, r)' <=> Inside(u, r)
  BY <1>1, <1>2 DEF Inside, Untouched, InPcs
<1>4. Exclusive(r)'
  BY <1>1, <1>3 DEF SectInv, Exclusive, Untouched
<1>5. PcOwner(r)'
  <2>1. \A u \in Threads : /\ At(u, r, OwnerPcs)' <=> At(u, r, OwnerPcs)
                           /\ At(u, r, HandlingPcs)' <=> At(u, r, HandlingPcs)
    BY <1>2 DEF InPcs
  <2> QED  BY <1>1, <2>1 DEF SectInv, PcOwner, Untouched
<1>6. FreeIsFree(r)'
  BY <1>1, <1>3 DEF SectInv, FreeIsFree, Untouched
<1>7. CountersOK(r)'
  <2>1. \A u \in Threads :
           /\ At(u, r, {"own"})' <=> At(u, r, {"own"})
           /\ At(u, r, {"nest", "unnest"})' <=> At(u, r, {"nest", "unnest"})
           /\ At(u, r, {"rzFlag", "rzOwner", "rzRenest"})'
                <=> At(u, r, {"rzFlag", "rzOwner", "rzRenest"})
    BY <1>2 DEF InPcs, OwnerPcs, HandlingPcs
  <2> QED  BY <1>1, <2>1 DEF SectInv, CountersOK, Untouched
<1>8. PendingOwned(r)'
  <2>1. \A u \in Threads :
           At(u, r, {"release", "rzOwner"})' <=> At(u, r, {"release", "rzOwner"})
    BY <1>2 DEF InPcs, OwnerPcs, HandlingPcs
  <2> QED  BY <1>1, <2>1 DEF SectInv, PendingOwned, Untouched
<1> QED  BY <1>4, <1>5, <1>6, <1>7, <1>8 DEF SectInv

\* What every one of the lemmas below knows about its section.
Here(t, s) ==
    /\ MutexInv /\ Acts(t, s)
    /\ cLockers[s] \in Int /\ cNestings[s] \in Int
    /\ owner[s] \in Threads \cup {NIL}
    /\ AfterLeave(t) \notin InPcs /\ AfterUnlock(t) \notin InPcs
    /\ NIL \notin Threads

LEMMA ActsHere ==
    ASSUME TypeOK, MutexInv, NEW t \in Threads, NEW s \in Sects, Acts(t, s)
    PROVE  Here(t, s)
BY AfterLeavePc, AfterUnlockPc, ThreadsAssumption
   DEF TypeOK, Here, InPcs, OwnerPcs, HandlingPcs

\* A step outside every section changes nothing the invariant speaks of.
LEMMA QuietMutex ==
    ASSUME TypeOK, MutexInv, NEW t \in Threads, NEW s \in Sects, Acts(t, s),
           pc[t] \notin InPcs, pc'[t] \notin InPcs,
           UNCHANGED <<cLockers, cNestings, owner, pending, event>>
    PROVE  MutexInv'
<1>1. SectInv(s)'
  BY ActsHere DEF Here, MutexInv, SectInv, Exclusive, PcOwner, FreeIsFree,
     CountersOK, PendingOwned, Acts, At, Inside, InPcs, HandlingPcs, OwnerPcs
<1> QED  BY <1>1, Frame

LeaveFrames(t, s) ==
    owner[s] = t /\ UNCHANGED <<cLockers, owner, pending, event>>

\* The exchange of -1 for 0 finds the section free.
LEMMA LuckyMutex ==
    ASSUME TypeOK, MutexInv, NEW t \in Threads, NEW s \in Sects, pc[t] \notin InPcs,
           Lucky(t, s), EnterFrame, sect' = [sect EXCEPT ![t] = s]
    PROVE  MutexInv'
<1>1. Acts(t, s)
  BY DEF Lucky, EnterFrame, NextPc, TypeOK, Acts, Untouched
<1>2. /\ pc'[t] = "first"
      /\ cLockers[s] = -1
      /\ cLockers'[s] = 0
      /\ UNCHANGED <<cNestings, owner, pending, event>>
  BY DEF Lucky, EnterFrame, NextPc, TypeOK
<1>3. SectInv(s)'
  BY <1>1, <1>2, ActsHere DEF Here, MutexInv, SectInv, Exclusive, PcOwner,
     FreeIsFree, CountersOK, PendingOwned, Acts, At, Inside, InPcs, HandlingPcs,
     OwnerPcs
<1> QED  BY <1>1, <1>3, Frame

\* A nested enter counts the locker before the nesting.
LEMMA NestedMutex ==
    ASSUME TypeOK, MutexInv, NEW t \in Threads, NEW s \in Sects, pc[t] \notin InPcs,
           Nested(t, s), EnterFrame, sect' = [sect EXCEPT ![t] = s]
    PROVE  MutexInv'
<1>1. Acts(t, s)
  BY DEF Nested, EnterFrame, NextPc, TypeOK, Acts, Untouched
<1>2. /\ pc'[t] = "nest"
      /\ owner[s] = t
      /\ cLockers'[s] = cLockers[s] + 1
      /\ UNCHANGED <<cNestings, owner, pending, event>>
  BY DEF Nested, EnterFrame, NextPc, TypeOK
<1>3. SectInv(s)'
  BY <1>1, <1>2, ActsHere DEF Here, MutexInv, SectInv, Exclusive, PcOwner,
     FreeIsFree, CountersOK, PendingOwned, Acts, At, Inside, InPcs, HandlingPcs,
     OwnerPcs
<1> QED  BY <1>1, <1>3, Frame

\* A nested leave counts the nesting before the locker.
LEMMA LeaveNestedMutex ==
    ASSUME TypeOK, MutexInv, NEW t \in Threads, NEW s \in Sects, pc[t] \notin InPcs,
           LeaveNested(t, s), LeaveFrames(t, s), sect' = [sect EXCEPT ![t] = s]
    PROVE  MutexInv'
<1>1. Acts(t, s)
  BY DEF LeaveNested, LeaveFrames, NextPc, TypeOK, Acts, Untouched
<1>2. /\ pc'[t] = "unnest"
      /\ owner[s] = t
      /\ cNestings[s] > 1
      /\ cNestings'[s] = cNestings[s] - 1
      /\ UNCHANGED <<cLockers, owner, pending, event>>
  BY DEF LeaveNested, LeaveFrames, NextPc, TypeOK
<1>3. SectInv(s)'
  BY <1>1, <1>2, ActsHere DEF Here, MutexInv, SectInv, Exclusive, PcOwner,
     FreeIsFree, CountersOK, PendingOwned, Acts, At, Inside, InPcs, HandlingPcs,
     OwnerPcs
<1> QED  BY <1>1, <1>3, Frame

\* A real leave begins by its owner.
LEMMA LeaveForRealMutex ==
    ASSUME TypeOK, MutexInv, NEW t \in Threads, NEW s \in Sects, pc[t] \notin InPcs,
           LeaveForReal(t, s), LeaveFrames(t, s), sect' = [sect EXCEPT ![t] = s]
    PROVE  MutexInv'
<1>1. Acts(t, s)
  BY DEF LeaveForReal, LeaveFrames, NextPc, TypeOK, Acts, Untouched
<1>2. /\ pc'[t] = "flag"
      /\ owner[s] = t
      /\ UNCHANGED <<cLockers, cNestings, owner, pending, event>>
  BY DEF LeaveForReal, LeaveFrames, NextPc, TypeOK
<1>3. SectInv(s)'
  BY <1>1, <1>2, ActsHere DEF Here, MutexInv, SectInv, Exclusive, PcOwner,
     FreeIsFree, CountersOK, PendingOwned, Acts, At, Inside, InPcs, HandlingPcs,
     OwnerPcs
<1> QED  BY <1>1, <1>3, Frame

\* So does a leave that may not signal.
LEMMA LeaveTryMutex ==
    ASSUME TypeOK, MutexInv, NEW t \in Threads, NEW s \in Sects, pc[t] \notin InPcs,
           LeaveTry(t, s), LeaveFrames(t, s), sect' = [sect EXCEPT ![t] = s]
    PROVE  MutexInv'
<1>1. Acts(t, s)
  BY DEF LeaveTry, LeaveFrames, NextPc, TypeOK, Acts, Untouched
<1>2. /\ pc'[t] \in {"rzNest", "rzQueue"}
      /\ owner[s] = t
      /\ UNCHANGED <<cLockers, cNestings, owner, pending, event>>
  BY DEF LeaveTry, LeaveFrames, NextPc, TypeOK
<1>3. SectInv(s)'
  BY <1>1, <1>2, ActsHere DEF Here, MutexInv, SectInv, Exclusive, PcOwner,
     FreeIsFree, CountersOK, PendingOwned, Acts, At, Inside, InPcs, HandlingPcs,
     OwnerPcs
<1> QED  BY <1>1, <1>3, Frame

\* Registering as a locker lets in whoever finds the section free.
LEMMA ContendMutex ==
    ASSUME TypeOK, MutexInv, NEW t \in Threads, Contend(t)
    PROVE  MutexInv'
<1> SUFFICES ASSUME NEW s \in Sects, s = sect[t]  PROVE MutexInv'
  BY DEF TypeOK
<1>1. Acts(t, s)
  BY DEF Contend, ContendWins, EnterFrame, NextPc, TypeOK, Acts, Untouched
<1>2. /\ At(t, s, {"contend"})
      /\ pc'[t] = (IF cLockers[s] = -1 THEN "first" ELSE "wait")
      /\ cLockers'[s] = cLockers[s] + 1
      /\ UNCHANGED <<cNestings, owner, pending, event>>
  BY DEF Contend, ContendWins, EnterFrame, NextPc, TypeOK, At
<1>3. SectInv(s)'
  BY <1>1, <1>2, ActsHere DEF Here, MutexInv, SectInv, Exclusive, PcOwner,
     FreeIsFree, CountersOK, PendingOwned, Acts, At, Inside, InPcs, HandlingPcs,
     OwnerPcs
<1> QED  BY <1>1, <1>3, Frame

\* Consuming the signal takes the section over from the semaphore.
LEMMA WakeMutex ==
    ASSUME TypeOK, MutexInv, NEW t \in Threads, Wake(t)
    PROVE  MutexInv'
<1> SUFFICES ASSUME NEW s \in Sects, s = sect[t]  PROVE MutexInv'
  BY DEF TypeOK
<1>1. Acts(t, s)
  BY DEF Wake, NextPc, TypeOK, Acts, Untouched
<1>2. /\ At(t, s, {"wait"})
      /\ pc'[t] = "first"
      /\ event[s]
      /\ ~event'[s]
      /\ UNCHANGED <<cLockers, cNestings, owner, pending>>
  BY DEF Wake, NextPc, TypeOK, At
<1>3. SectInv(s)'
  BY <1>1, <1>2, ActsHere DEF Here, MutexInv, SectInv, Exclusive, PcOwner,
     FreeIsFree, CountersOK, PendingOwned, Acts, At, Inside, InPcs, HandlingPcs,
     OwnerPcs
<1> QED  BY <1>1, <1>3, Frame

\* The first enter sets the nestings before the owner...
LEMMA FirstMutex ==
    ASSUME TypeOK, MutexInv, NEW t \in Threads, First(t)
    PROVE  MutexInv'
<1> SUFFICES ASSUME NEW s \in Sects, s = sect[t]  PROVE MutexInv'
  BY DEF TypeOK
<1>1. Acts(t, s)
  BY DEF First, NextPc, TypeOK, Acts, Untouched
<1>2. /\ At(t, s, {"first"})
      /\ pc'[t] = "own"
      /\ cNestings'[s] = 1
      /\ UNCHANGED <<cLockers, owner, pending, event>>
  BY DEF First, NextPc, TypeOK, At
<1>3. SectInv(s)'
  BY <1>1, <1>2, ActsHere DEF Here, MutexInv, SectInv, Exclusive, PcOwner,
     FreeIsFree, CountersOK, PendingOwned, Acts, At, Inside, InPcs, HandlingPcs,
     OwnerPcs
<1> QED  BY <1>1, <1>3, Frame

\* ... and becomes the owner with both counters in step.
LEMMA OwnMutex ==
    ASSUME TypeOK, MutexInv, NEW t \in Threads, Own(t)
    PROVE  MutexInv'
<1> SUFFICES ASSUME NEW s \in Sects, s = sect[t]  PROVE MutexInv'
  BY DEF TypeOK
<1>1. Acts(t, s)
  BY DEF Own, Entered, NextPc, TypeOK, Acts, Untouched
<1>2. /\ At(t, s, {"own"})
      /\ pc'[t] = "idle"
      /\ owner'[s] = t
      /\ UNCHANGED <<cLockers, cNestings, pending, event>>
  BY DEF Own, Entered, NextPc, TypeOK, At
<1>3. SectInv(s)'
  BY <1>1, <1>2, ActsHere DEF Here, MutexInv, SectInv, Exclusive, PcOwner,
     FreeIsFree, CountersOK, PendingOwned, Acts, At, Inside, InPcs, HandlingPcs,
     OwnerPcs
<1> QED  BY <1>1, <1>3, Frame

\* A nested enter evens the counters again.
LEMMA NestMutex ==
    ASSUME TypeOK, MutexInv, NEW t \in Threads, Nest(t)
    PROVE  MutexInv'
<1> SUFFICES ASSUME NEW s \in Sects, s = sect[t]  PROVE MutexInv'
  BY DEF TypeOK
<1>1. Acts(t, s)
  BY DEF Nest, Entered, NextPc, TypeOK, Acts, Untouched
<1>2. /\ At(t, s, {"nest"})
      /\ pc'[t] = "idle"
      /\ cNestings'[s] = cNestings[s] + 1
      /\ UNCHANGED <<cLockers, owner, pending, event>>
  BY DEF Nest, Entered, NextPc, TypeOK, At
<1>3. SectInv(s)'
  BY <1>1, <1>2, ActsHere DEF Here, MutexInv, SectInv, Exclusive, PcOwner,
     FreeIsFree, CountersOK, PendingOwned, Acts, At, Inside, InPcs, HandlingPcs,
     OwnerPcs
<1> QED  BY <1>1, <1>3, Frame

\* So does a nested leave.
LEMMA UnnestMutex ==
    ASSUME TypeOK, MutexInv, NEW t \in Threads, Unnest(t)
    PROVE  MutexInv'
<1> SUFFICES ASSUME NEW s \in Sects, s = sect[t]  PROVE MutexInv'
  BY DEF TypeOK
<1>1. Acts(t, s)
  BY DEF Unnest, LeaveFrame, NextPc, TypeOK, Acts, Untouched
<1>2. /\ At(t, s, {"unnest"})
      /\ pc'[t] = AfterLeave(t)
      /\ cLockers'[s] = cLockers[s] - 1
      /\ UNCHANGED <<cNestings, owner, pending, event>>
  BY DEF Unnest, LeaveFrame, NextPc, TypeOK, At
<1>3. SectInv(s)'
  BY <1>1, <1>2, ActsHere DEF Here, MutexInv, SectInv, Exclusive, PcOwner,
     FreeIsFree, CountersOK, PendingOwned, Acts, At, Inside, InPcs, HandlingPcs,
     OwnerPcs
<1> QED  BY <1>1, <1>3, Frame

\* A real leave withdraws the pending unlock while it still owns the section,
LEMMA FlagMutex ==
    ASSUME TypeOK, MutexInv, NEW t \in Threads, Flag(t)
    PROVE  MutexInv'
<1> SUFFICES ASSUME NEW s \in Sects, s = sect[t]  PROVE MutexInv'
  BY DEF TypeOK
<1>1. Acts(t, s)
  BY DEF Flag, LeaveFrame, NextPc, TypeOK, Acts, Untouched
<1>2. /\ At(t, s, {"flag"})
      /\ pc'[t] = "release"
      /\ ~pending'[s]
      /\ UNCHANGED <<cLockers, cNestings, owner, event>>
  BY DEF Flag, LeaveFrame, NextPc, TypeOK, At
<1>3. SectInv(s)'
  BY <1>1, <1>2, ActsHere DEF Here, MutexInv, SectInv, Exclusive, PcOwner,
     FreeIsFree, CountersOK, PendingOwned, Acts, At, Inside, InPcs, HandlingPcs,
     OwnerPcs
<1> QED  BY <1>1, <1>3, Frame

\* gives up ownership but stays inside,
LEMMA ReleaseMutex ==
    ASSUME TypeOK, MutexInv, NEW t \in Threads, Release(t)
    PROVE  MutexInv'
<1> SUFFICES ASSUME NEW s \in Sects, s = sect[t]  PROVE MutexInv'
  BY DEF TypeOK
<1>1. Acts(t, s)
  BY DEF Release, NextPc, TypeOK, Acts, Untouched
<1>2. /\ At(t, s, {"release"})
      /\ pc'[t] = "count"
      /\ owner'[s] = NIL
      /\ UNCHANGED <<cLockers, cNestings, pending, event>>
  BY DEF Release, NextPc, TypeOK, At
<1>3. SectInv(s)'
  BY <1>1, <1>2, ActsHere DEF Here, MutexInv, SectInv, Exclusive, PcOwner,
     FreeIsFree, CountersOK, PendingOwned, Acts, At, Inside, InPcs, HandlingPcs,
     OwnerPcs
<1> QED  BY <1>1, <1>3, Frame

\* resets the nestings,
LEMMA CountMutex ==
    ASSUME TypeOK, MutexInv, NEW t \in Threads, Count(t)
    PROVE  MutexInv'
<1> SUFFICES ASSUME NEW s \in Sects, s = sect[t]  PROVE MutexInv'
  BY DEF TypeOK
<1>1. Acts(t, s)
  BY DEF Count, LeaveFrame, NextPc, TypeOK, Acts, Untouched
<1>2. /\ At(t, s, {"count"})
      /\ pc'[t] = "unlock"
      /\ UNCHANGED <<cLockers, owner, pending, event>>
  BY DEF Count, LeaveFrame, NextPc, TypeOK, At
<1>3. SectInv(s)'
  BY <1>1, <1>2, ActsHere DEF Here, MutexInv, SectInv, Exclusive, PcOwner,
     FreeIsFree, CountersOK, PendingOwned, Acts, At, Inside, InPcs, HandlingPcs,
     OwnerPcs
<1> QED  BY <1>1, <1>3, Frame

\* and frees the section, or keeps it for the waiter it signals.
LEMMA UnlockMutex ==
    ASSUME TypeOK, MutexInv, NEW t \in Threads, Unlock(t)
    PROVE  MutexInv'
<1> SUFFICES ASSUME NEW s \in Sects, s = sect[t]  PROVE MutexInv'
  BY DEF TypeOK
<1>1. Acts(t, s)
  BY DEF Unlock, UnlockWakes, LeaveFrame, NextPc, TypeOK, Acts, Untouched
<1>2. /\ At(t, s, {"unlock"})
      /\ pc'[t] = (IF cLockers[s] > 0 THEN "signal" ELSE AfterUnlock(t))
      /\ cLockers'[s] = cLockers[s] - 1
      /\ UNCHANGED <<cNestings, owner, pending, event>>
  BY DEF Unlock, UnlockWakes, LeaveFrame, NextPc, TypeOK, At
<1>3. SectInv(s)'
  BY <1>1, <1>2, ActsHere DEF Here, MutexInv, SectInv, Exclusive, PcOwner,
     FreeIsFree, CountersOK, PendingOwned, Acts, At, Inside, InPcs, HandlingPcs,
     OwnerPcs
<1> QED  BY <1>1, <1>3, Frame

\* The signal hands the section to the semaphore.
LEMMA SignalMutex ==
    ASSUME TypeOK, MutexInv, NEW t \in Threads, Signal(t)
    PROVE  MutexInv'
<1> SUFFICES ASSUME NEW s \in Sects, s = sect[t]  PROVE MutexInv'
  BY DEF TypeOK
<1>1. Acts(t, s)
  BY DEF Signal, NextPc, TypeOK, Acts, Untouched
<1>2. /\ At(t, s, {"signal"})
      /\ pc'[t] = AfterUnlock(t)
      /\ event'[s]
      /\ UNCHANGED <<cLockers, cNestings, owner, pending>>
  BY DEF Signal, NextPc, TypeOK, At
<1>3. SectInv(s)'
  BY <1>1, <1>2, ActsHere DEF Here, MutexInv, SectInv, Exclusive, PcOwner,
     FreeIsFree, CountersOK, PendingOwned, Acts, At, Inside, InPcs, HandlingPcs,
     OwnerPcs
<1> QED  BY <1>1, <1>3, Frame

\* A leave that may not signal empties the section...
LEMMA RzNestMutex ==
    ASSUME TypeOK, MutexInv, NEW t \in Threads, RzNest(t)
    PROVE  MutexInv'
<1> SUFFICES ASSUME NEW s \in Sects, s = sect[t]  PROVE MutexInv'
  BY DEF TypeOK
<1>1. Acts(t, s)
  BY DEF RzNest, LeaveFrame, NextPc, TypeOK, Acts, Untouched
<1>2. /\ At(t, s, {"rzNest"})
      /\ pc'[t] = "rzFlag"
      /\ UNCHANGED <<cLockers, owner, pending, event>>
  BY DEF RzNest, LeaveFrame, NextPc, TypeOK, At
<1>3. SectInv(s)'
  BY <1>1, <1>2, ActsHere DEF Here, MutexInv, SectInv, Exclusive, PcOwner,
     FreeIsFree, CountersOK, PendingOwned, Acts, At, Inside, InPcs, HandlingPcs,
     OwnerPcs
<1> QED  BY <1>1, <1>3, Frame

\* ... withdraws the pending unlock...
LEMMA RzFlagMutex ==
    ASSUME TypeOK, MutexInv, NEW t \in Threads, RzFlag(t)
    PROVE  MutexInv'
<1> SUFFICES ASSUME NEW s \in Sects, s = sect[t]  PROVE MutexInv'
  BY DEF TypeOK
<1>1. Acts(t, s)
  BY DEF RzFlag, LeaveFrame, NextPc, TypeOK, Acts, Untouched
<1>2. /\ At(t, s, {"rzFlag"})
      /\ pc'[t] = "rzOwner"
      /\ ~pending'[s]
      /\ UNCHANGED <<cLockers, cNestings, owner, event>>
  BY DEF RzFlag, LeaveFrame, NextPc, TypeOK, At
<1>3. SectInv(s)'
  BY <1>1, <1>2, ActsHere DEF Here, MutexInv, SectInv, Exclusive, PcOwner,
     FreeIsFree, CountersOK, PendingOwned, Acts, At, Inside, InPcs, HandlingPcs,
     OwnerPcs
<1> QED  BY <1>1, <1>3, Frame

\* ... gives up ownership...
LEMMA RzOwnerMutex ==
    ASSUME TypeOK, MutexInv, NEW t \in Threads, RzOwner(t)
    PROVE  MutexInv'
<1> SUFFICES ASSUME NEW s \in Sects, s = sect[t]  PROVE MutexInv'
  BY DEF TypeOK
<1>1. Acts(t, s)
  BY DEF RzOwner, NextPc, TypeOK, Acts, Untouched
<1>2. /\ At(t, s, {"rzOwner"})
      /\ pc'[t] = "rzCas"
      /\ owner'[s] = NIL
      /\ UNCHANGED <<cLockers, cNestings, pending, event>>
  BY DEF RzOwner, NextPc, TypeOK, At
<1>3. SectInv(s)'
  BY <1>1, <1>2, ActsHere DEF Here, MutexInv, SectInv, Exclusive, PcOwner,
     FreeIsFree, CountersOK, PendingOwned, Acts, At, Inside, InPcs, HandlingPcs,
     OwnerPcs
<1> QED  BY <1>1, <1>3, Frame

\* ... and either frees it or finds that a waiter raced in;
LEMMA RzCasMutex ==
    ASSUME TypeOK, MutexInv, NEW t \in Threads, RzCas(t)
    PROVE  MutexInv'
<1> SUFFICES ASSUME NEW s \in Sects, s = sect[t]  PROVE MutexInv'
  BY DEF TypeOK
<1>1. Acts(t, s)
  BY DEF RzCas, RzAlone, LeaveFrame, NextPc, TypeOK, Acts, Untouched
<1>2. /\ At(t, s, {"rzCas"})
      /\ IF cLockers[s] = 0 THEN cLockers'[s] = -1 /\ pc'[t] = AfterLeave(t)
                             ELSE cLockers'[s] = cLockers[s] /\ pc'[t] = "rzRetake"
      /\ UNCHANGED <<cNestings, owner, pending, event>>
  BY DEF RzCas, RzAlone, LeaveFrame, NextPc, TypeOK, At
<1>3. SectInv(s)'
  BY <1>1, <1>2, ActsHere DEF Here, MutexInv, SectInv, Exclusive, PcOwner,
     FreeIsFree, CountersOK, PendingOwned, Acts, At, Inside, InPcs, HandlingPcs,
     OwnerPcs
<1> QED  BY <1>1, <1>3, Frame

\* then it is still inside and takes ownership back,
LEMMA RzRetakeMutex ==
    ASSUME TypeOK, MutexInv, NEW t \in Threads, RzRetake(t)
    PROVE  MutexInv'
<1> SUFFICES ASSUME NEW s \in Sects, s = sect[t]  PROVE MutexInv'
  BY DEF TypeOK
<1>1. Acts(t, s)
  BY DEF RzRetake, NextPc, TypeOK, Acts, Untouched
<1>2. /\ At(t, s, {"rzRetake"})
      /\ pc'[t] = "rzRenest"
      /\ owner'[s] = t
      /\ UNCHANGED <<cLockers, cNestings, pending, event>>
  BY DEF RzRetake, NextPc, TypeOK, At
<1>3. SectInv(s)'
  BY <1>1, <1>2, ActsHere DEF Here, MutexInv, SectInv, Exclusive, PcOwner,
     FreeIsFree, CountersOK, PendingOwned, Acts, At, Inside, InPcs, HandlingPcs,
     OwnerPcs
<1> QED  BY <1>1, <1>3, Frame

\* restores the nestings,
LEMMA RzRenestMutex ==
    ASSUME TypeOK, MutexInv, NEW t \in Threads, RzRenest(t)
    PROVE  MutexInv'
<1> SUFFICES ASSUME NEW s \in Sects, s = sect[t]  PROVE MutexInv'
  BY DEF TypeOK
<1>1. Acts(t, s)
  BY DEF RzRenest, LeaveFrame, NextPc, TypeOK, Acts, Untouched
<1>2. /\ At(t, s, {"rzRenest"})
      /\ pc'[t] = "rzQueue"
      /\ cNestings'[s] = 1
      /\ UNCHANGED <<cLockers, owner, pending, event>>
  BY DEF RzRenest, LeaveFrame, NextPc, TypeOK, At
<1>3. SectInv(s)'
  BY <1>1, <1>2, ActsHere DEF Here, MutexInv, SectInv, Exclusive, PcOwner,
     FreeIsFree, CountersOK, PendingOwned, Acts, At, Inside, InPcs, HandlingPcs,
     OwnerPcs
<1> QED  BY <1>1, <1>3, Frame

\* and marks the unlock as pending.
LEMMA RzQueueMutex ==
    ASSUME TypeOK, MutexInv, NEW t \in Threads, RzQueue(t)
    PROVE  MutexInv'
<1> SUFFICES ASSUME NEW s \in Sects, s = sect[t]  PROVE MutexInv'
  BY DEF TypeOK
<1>1. Acts(t, s)
  BY DEF RzQueue, NextPc, TypeOK, Acts, Untouched
<1>2. /\ At(t, s, {"rzQueue"})
      /\ pc'[t] = "idle"
      /\ pending'[s]
      /\ UNCHANGED <<cLockers, cNestings, owner, event>>
  BY DEF RzQueue, NextPc, TypeOK, At
<1>3. SectInv(s)'
  BY <1>1, <1>2, ActsHere DEF Here, MutexInv, SectInv, Exclusive, PcOwner,
     FreeIsFree, CountersOK, PendingOwned, Acts, At, Inside, InPcs, HandlingPcs,
     OwnerPcs
<1> QED  BY <1>1, <1>3, Frame

-----------------------------------------------------------------------------
(* The operations, put together from these accesses.                       *)
LEMMA EnterCasMutex ==
    ASSUME TypeOK, MutexInv, NEW t \in Threads, NEW s \in Sects,
           pc[t] \notin InPcs, EnterCas(t, s), EnterFrame,
           sect' = [sect EXCEPT ![t] = s]
    PROVE  MutexInv'
<1>1. CASE NextPc(t, "spin") /\ UNCHANGED cLockers
  <2>1. Acts(t, s)
    BY <1>1 DEF EnterFrame, NextPc, TypeOK, Acts, Untouched
  <2>2. pc'[t] \notin InPcs
    BY <1>1 DEF NextPc, TypeOK, InPcs, OwnerPcs, HandlingPcs
  <2> QED  BY <1>1, <2>1, <2>2, QuietMutex DEF EnterFrame
<1> QED  BY <1>1, LuckyMutex, NestedMutex DEF EnterCas

LEMMA LeaveByMutex ==
    ASSUME TypeOK, MutexInv, NEW t \in Threads, NEW s \in Sects, NEW c,
           pc[t] \notin InPcs, LeaveBy(t, s, c)
    PROVE  MutexInv'
<1>1. LeaveFrames(t, s) /\ sect' = [sect EXCEPT ![t] = s]
  BY DEF LeaveBy, LeaveFrames
<1> QED
  BY <1>1, LeaveNestedMutex, LeaveForRealMutex, LeaveTryMutex DEF LeaveBy

\* A step that leaves sect[t] and the shared state alone is quiet.
LEMMA StillMutex ==
    ASSUME TypeOK, MutexInv, NEW t \in Threads,
           pc[t] \notin InPcs, pc'[t] \notin InPcs,
           \A u \in Threads \ {t} : pc'[u] = pc[u] /\ sect'[u] = sect[u],
           sect'[t] \in Sects,
           UNCHANGED <<cLockers, cNestings, owner, pending, event>>
    PROVE  MutexInv'
<1> SUFFICES ASSUME NEW s \in Sects, s = sect'[t]  PROVE MutexInv'
  OBVIOUS
<1>1. Acts(t, s)
  BY DEF Acts, Untouched
<1> QED  BY <1>1, QuietMutex

LEMMA ClientMutex ==
    ASSUME TypeOK, MutexInv, NEW t \in Threads, Client(t)
    PROVE  MutexInv'
<1> USE DEF InPcs, OwnerPcs, HandlingPcs
<1>1. CASE RunGuest(t)
  BY <1>1, StillMutex DEF RunGuest, shared, TypeOK
<1>2. CASE ToRing3(t)
  <2>1. /\ pc[t] \notin InPcs /\ pc'[t] \notin InPcs
        /\ \A u \in Threads \ {t} : pc'[u] = pc[u]
    BY <1>2 DEF ToRing3, shared, NextPc, TypeOK
  <2>2. sect' = sect /\ UNCHANGED <<cLockers, cNestings, owner, pending, event>>
    BY <1>2 DEF ToRing3, shared
  <2> QED  BY <2>1, <2>2, StillMutex DEF TypeOK
<1>3. ASSUME NEW s \in Sects, Enter(t, s)  PROVE MutexInv'
  BY <1>3, EnterCasMutex DEF Enter
<1>4. ASSUME NEW s \in Sects, TryEnter(t, s)  PROVE MutexInv'
  BY <1>4, EnterCasMutex DEF TryEnter, EnterCas
<1>5. ASSUME NEW s \in Sects, Leave(t, s)  PROVE MutexInv'
  BY <1>5, LeaveByMutex DEF Leave
<1>6. ASSUME NEW s \in Sects, Yield(t, s)  PROVE MutexInv'
  BY <1>6, LeaveByMutex DEF Yield
<1>7. ASSUME NEW s \in Sects, ScheduleExitEvent(t, s)  PROVE MutexInv'
  BY <1>7, StillMutex DEF ScheduleExitEvent, local, TypeOK
<1> QED  BY <1>1, <1>2, <1>3, <1>4, <1>5, <1>6, <1>7 DEF Client

LEMMA EntersMutex ==
    ASSUME TypeOK, MutexInv, NEW t \in Threads, Enters(t)
    PROVE  MutexInv'
<1> USE DEF InPcs, OwnerPcs, HandlingPcs
<1>1. /\ sect[t] \in Sects
      /\ sect' = sect => sect' = [sect EXCEPT ![t] = sect[t]]
  BY DEF TypeOK
<1>2. CASE EnterAgain(t)
  BY <1>1, <1>2, EnterCasMutex DEF EnterAgain
<1>3. CASE SpinWin(t)
  BY <1>1, <1>3, LuckyMutex DEF SpinWin
<1>4. CASE SpinOut(t) \/ Busy(t)
  <2>1. /\ pc[t] \notin InPcs /\ pc'[t] \notin InPcs
        /\ \A u \in Threads \ {t} : pc'[u] = pc[u]
    BY <1>4 DEF SpinOut, Busy, EnterFrame, NextPc, TypeOK
  <2>2. sect' = sect /\ UNCHANGED <<cLockers, cNestings, owner, pending, event>>
    BY <1>4 DEF SpinOut, Busy, EnterFrame
  <2> QED  BY <2>1, <2>2, StillMutex DEF TypeOK
<1>5. CASE RingCall(t)
  <2>1. /\ pc[t] \notin InPcs /\ pc'[t] \notin InPcs
        /\ \A u \in Threads \ {t} : pc'[u] = pc[u]
    BY <1>5 DEF RingCall, shared, NextPc, TypeOK
  <2>2. sect' = sect /\ UNCHANGED <<cLockers, cNestings, owner, pending, event>>
    BY <1>5 DEF RingCall, shared
  <2> QED  BY <2>1, <2>2, StillMutex DEF TypeOK
<1> QED
  BY <1>2, <1>3, <1>4, <1>5, ContendMutex, WakeMutex, FirstMutex, OwnMutex, NestMutex
  DEF Enters

LEMMA LeavesMutex ==
    ASSUME TypeOK, MutexInv, NEW t \in Threads, Leaves(t)
    PROVE  MutexInv'
<1>1. CASE ExitSignal(t)
  <2>1. /\ pc[t] \notin InPcs /\ pc'[t] \notin InPcs
        /\ \A u \in Threads \ {t} : pc'[u] = pc[u]
    BY <1>1, AfterLeavePc DEF ExitSignal, shared, NextPc, TypeOK, InPcs, OwnerPcs, HandlingPcs
  <2>2. sect' = sect /\ UNCHANGED <<cLockers, cNestings, owner, pending, event>>
    BY <1>1 DEF ExitSignal, shared
  <2> QED  BY <2>1, <2>2, StillMutex DEF TypeOK
<1> QED
  BY <1>1, UnnestMutex, FlagMutex, ReleaseMutex, CountMutex, UnlockMutex, SignalMutex
  DEF Leaves

LEMMA RzLeavesMutex ==
    ASSUME TypeOK, MutexInv, NEW t \in Threads, RzLeaves(t)
    PROVE  MutexInv'
BY RzNestMutex, RzFlagMutex, RzOwnerMutex, RzCasMutex, RzRetakeMutex,
   RzRenestMutex, RzQueueMutex
DEF RzLeaves

LEMMA FFMutex ==
    ASSUME TypeOK, MutexInv, NEW t \in Threads, FF(t)
    PROVE  MutexInv'
<1> USE DEF InPcs, OwnerPcs, HandlingPcs
<1>1. CASE FFLeave(t)
  <2>1. queue[t][fi[t] + 1] \in Sects
    BY <1>1 DEF FFLeave, TypeOK
  <2> QED  BY <1>1, <2>1, LeaveByMutex DEF FFLeave
<1>2. CASE FFDone(t)
  BY <1>2, StillMutex DEF FFDone, FFReturns, shared, NextPc, TypeOK
<1> QED  BY <1>1, <1>2 DEF FF

\* Every section is created free.
LEMMA InitMutex == Init => MutexInv
BY ThreadsAssumption
DEF Init, MutexInv, SectInv, Exclusive, PcOwner, FreeIsFree, CountersOK,
    PendingOwned, At, Inside, OwnerPcs, HandlingPcs

LEMMA NextMutex == TypeOK /\ MutexInv /\ [Next]_vars => MutexInv'
<1> SUFFICES ASSUME TypeOK, MutexInv, [Next]_vars  PROVE MutexInv'
  OBVIOUS
<1>1. CASE Next
  BY <1>1, ClientMutex, EntersMutex, LeavesMutex, RzLeavesMutex, FFMutex DEF Next, Step
<1>2. CASE UNCHANGED vars
  BY <1>2 DEF vars, MutexInv, SectInv, Exclusive, PcOwner, FreeIsFree, CountersOK,
     PendingOwned, At, Inside
<1> QED  BY <1>1, <1>2

\* The strengthened invariant holds in every reachable state.
THEOREM MutexCorrect == Spec => []MutexInv
<1>1. Init => TypeOK /\ MutexInv
  BY InitType, InitMutex
<1>2. TypeOK /\ MutexInv /\ [Next]_vars => TypeOK' /\ MutexInv'
  BY NextType, NextMutex
<1> QED  BY <1>1, <1>2, PTL DEF Spec

\* Mutual exclusion: no two threads are inside one section, and nobody is
\* while its semaphore is signalled.
THEOREM OneInsideCorrect == Spec => []OneInside
<1>1. MutexInv => OneInside
  BY DEF MutexInv, SectInv, OneInside
<1> QED  BY <1>1, MutexCorrect, PTL

\* The assertions of pdmCritSectEnterFirst never fail.
THEOREM EnterFirstCorrect == Spec => []EnterFirstAlone
<1>1. TypeOK /\ MutexInv => EnterFirstAlone
  <2> SUFFICES ASSUME TypeOK, MutexInv, NEW t \in Threads, NEW s \in Sects,
                      s = sect[t], pc[t] = "first"
               PROVE  /\ owner[s] = NIL
                      /\ ~pending[s]
                      /\ ~event[s]
                      /\ \A u \in Threads \ {t} : ~Inside(u, s)
    BY DEF EnterFirstAlone, TypeOK
  <2>1. At(t, s, HandlingPcs) /\ Inside(t, s) /\ SectInv(s)
    BY DEF At, HandlingPcs, Inside, MutexInv
  <2>2. ~event[s] /\ \A u \in Threads \ {t} : ~Inside(u, s)
    BY <2>1 DEF SectInv, Exclusive
  <2>3. owner[s] = NIL
    BY <2>1, <2>2 DEF SectInv, PcOwner, Inside, TypeOK
  <2> QED  BY <2>1, <2>2, <2>3 DEF SectInv, PendingOwned
<1> QED  BY <1>1, TypeCorrect, MutexCorrect, PTL
=============================================================================
