------------------------ MODULE EMTRendezvous_proof ------------------------
(***************************************************************************)
(* Proofs about EMTRendezvous, for every number of EMTs, every set of      *)
(* statuses and any number of rounds.  A rendezvous goes through phases:   *)
(* the slate is cleared, the EMTs come, they run the handler, they leave.  *)
(* The invariant says in each where every EMT may be and what the flags,   *)
(* the semaphores and the counters then are; no phase is entered before    *)
(* the one before it is over for all EMTs, which is why one set of         *)
(* semaphores and counters can serve every rendezvous.                     *)
(***************************************************************************)
EXTENDS EMTRendezvous, FiniteSetTheorems, TLAPS

\* An EMT's locals.
MyRecs == [want : Flags, calls : BOOLEAN, flags : Flags, caller : BOOLEAN, cDone : 0 .. cCpus, rc : Rets]

Quiet(e)  == pc[e] \in {"idle", "lock"}
NoEvents  == /\ ~oneByOne /\ ~allAtOnce /\ ~done /\ ~doneCaller
             /\ \A e \in EMTs : ~ordered[e]

\* What an EMT knows: who may be where, with the flags of the rendezvous that all take
\* part in.
Knows(e) ==
    /\ my[e].want.stop => MayStop(my[e].want.type)
    /\ pc[e] \in {"reset", "slate", "raise", "caller", "result", "unlock"} => e = lock
    /\ pc[e] \in {"idle", "lock", "done", "leave", "return", "wake"} => e # lock
    /\ pc[e] \notin {"idle", "lock", "reset", "slate"} => my[e].flags = flags
    /\ pc[e] \notin {"reset", "slate"} => my[e].caller = (e = lock)

\* The first failure, or the lowest of the others: Outcome as a relation.
OutcomeIs(rets, rc) ==
    \/ rets = <<>> /\ rc = 0
    \/ \E i \in DOMAIN rets : rc = rets[i] /\ rets[i] < 0 /\ \A j \in DOMAIN rets : j < i => rets[j] > 0
    \/ /\ \A i \in DOMAIN rets : rets[i] > 0 /\ rc <= rets[i]
       /\ \E i \in DOMAIN rets : rc = rets[i]

\* No rendezvous.
Free == lock = NoBody /\ ~ff /\ (\A e \in EMTs : Quiet(e)) /\ returned = <<>>

\* The slate is being cleared.
Prepare ==
    /\ lock \in EMTs /\ ~ff /\ returned = <<>>
    /\ pc[lock] \in {"reset", "slate", "raise"}
    /\ \A e \in EMTs \ {lock} : Quiet(e)
    /\ pc[lock] \in {"slate", "raise"} => NoEvents
    /\ pc[lock] = "raise" => cEntered = 0 /\ cDone = 0 /\ cReturned = 0 /\ status = 0

\* The EMTs come.
WaitingPcs == {"turn", "caller", "done"}
Entered    == {e \in EMTs : pc[e] \in {"last"} \cup WaitingPcs}

Gather ==
    /\ lock \in EMTs /\ ff /\ returned = <<>> /\ status = 0 /\ NoEvents
    /\ cDone = 0 /\ cReturned = 0 /\ cEntered = Cardinality(Entered)
    /\ \A e \in EMTs :
         /\ pc[e] \in {"idle", "lock", "enter", "last"} \cup WaitingPcs
         /\ pc[e] = "turn" => flags.type # "ONCE"
         /\ pc[e] \in {"caller", "done"} => flags.type = "ONCE"
         /\ pc[e] = "last" => \A d \in EMTs \ {e} : pc[d] \in WaitingPcs

\* They run the handler: one of them ...
ActivePcs == {"handler", "over", "inside", "finished"}
RunPcs    == ActivePcs \cup WaitingPcs \cup {"next", "tell"}
Busy(e)   == pc[e] \in ActivePcs \cup {"next", "tell"}
Alone(e)  == \A d \in EMTs \ {e} : pc[d] \in WaitingPcs

RunOnce == \A e \in EMTs :
    /\ pc[e] \notin {"turn", "next"}
    /\ Busy(e) => Alone(e)
    /\ pc[e] \in ActivePcs => cDone = 0
    /\ pc[e] = "tell" => cDone = 1

\* ... or each.
Through == {e \in EMTs : pc[e] \in {"next", "tell", "caller", "done"}}

Before(d, e) == IF flags.type = "ASCENDING" THEN d < e ELSE d > e
Turned(e) == \A d \in EMTs \ {e} :
    /\ ~ordered[d]
    /\ IF Before(d, e) THEN pc[d] \in {"caller", "done"} ELSE pc[d] = "turn"

TurnOf(e) ==
    /\ pc[e] = "tell" => \A d \in EMTs \ {e} : pc[d] \in {"next", "caller", "done"}
    /\ pc[e] = "next" => my[e].cDone < cCpus
    /\ pc[e] = "next" /\ flags.type = "ASCENDING"  => my[e].cDone = e + 1
    /\ pc[e] = "next" /\ flags.type = "DESCENDING" => my[e].cDone = cCpus - e
    /\ flags.type # "ALL_AT_ONCE" /\ Busy(e)          => Alone(e)
    /\ flags.type = "ONE_BY_ONE" /\ oneByOne          => ~Busy(e)
    /\ flags.type \in Ordered /\ (ordered[e] \/ Busy(e)) => Turned(e)
    /\ flags.type \in Ordered /\ ordered[e]           => pc[e] = "turn"

RunEach == cDone = Cardinality(Through) /\ \A e \in EMTs : TurnOf(e)

Run ==
    /\ lock \in EMTs /\ ~ff /\ ~done /\ ~doneCaller /\ cReturned = 0
    /\ OutcomeIs(returned, status)
    /\ status # 0 => cDone # 0 \/ \E e \in EMTs : pc[e] = "finished"
    /\ \A e \in EMTs : pc[e] \in RunPcs /\ (pc[e] = "over" => flags.stop /\ status < 0)
    /\ IF flags.type = "ONCE" THEN RunOnce ELSE RunEach

\* They leave.
LeavePcs == {"next", "caller", "done", "leave", "return", "wake", "idle", "lock", "result", "unlock"}
Gone     == {e \in EMTs \ {lock} : pc[e] \in {"idle", "lock", "wake"}}

LeaveOf(e) ==
    /\ pc[e] \in LeavePcs
    /\ pc[e] = "next" => flags.type = "ALL_AT_ONCE"
    /\ pc[e] = "wake" => \A d \in EMTs \ {e, lock} : Quiet(d)
    /\ doneCaller \/ pc[lock] \in {"result", "unlock"} => e = lock \/ Quiet(e)
    /\ pc[e] = "unlock" => my[e].rc = status
    /\ pc[e] \in {"return", "wake"} => my[e].rc = NonCallerStatus(status)

Leave ==
    /\ lock \in EMTs /\ ~ff /\ done /\ cDone # 0
    /\ OutcomeIs(returned, status)
    /\ cReturned = Cardinality(Gone)
    /\ \A e \in EMTs : LeaveOf(e)

Phase == Free \/ Prepare \/ Gather \/ Run \/ Leave

RoundInv == /\ TypeOK /\ \A e \in EMTs : Knows(e)
            /\ flags.stop => MayStop(flags.type)
            /\ Phase

-----------------------------------------------------------------------------
(* Counting EMTs.                                                          *)

LEMMA CpusAre == /\ IsFiniteSet(EMTs) /\ Cardinality(EMTs) = cCpus
                 /\ EMTs \subseteq Int /\ NoBody \notin EMTs /\ cCpus \in Nat /\ cCpus >= 2
<1>1. cCpus - 1 \in Int /\ 0 \in Int /\ ~(0 > cCpus - 1) /\ (cCpus - 1) - 0 + 1 = cCpus
  BY CpusAssumption
<1>2. IsFiniteSet(EMTs) /\ Cardinality(EMTs) = cCpus
  BY <1>1, FS_Interval DEF EMTs
<1> QED  BY <1>2, CpusAssumption DEF EMTs, NoBody

\* How many EMTs a set has.
LEMMA CountOf ==
    ASSUME NEW S \in SUBSET EMTs
    PROVE  /\ IsFiniteSet(S) /\ Cardinality(S) \in 0 .. cCpus
           /\ Cardinality(S) = cCpus => S = EMTs
           /\ Cardinality(S) = 0 <=> S = {}
<1>1. IsFiniteSet(S) /\ Cardinality(S) \in Nat /\ Cardinality(S) <= cCpus
  BY CpusAre, FS_Subset, FS_CardinalityType
<1>2. Cardinality(S) = cCpus => S = EMTs
  BY CpusAre, FS_Subset
<1>3. Cardinality(S) = 0 <=> S = {}
  BY <1>1, FS_EmptySet
<1> QED  BY <1>1, <1>2, <1>3, CpusAre

LEMMA CountOne ==
    ASSUME NEW S \in SUBSET EMTs, NEW e \in EMTs, e \notin S
    PROVE  /\ Cardinality(S \cup {e}) = Cardinality(S) + 1
           /\ Cardinality(S) \in 0 .. cCpus - 1 /\ Cardinality(S) + 1 \in 0 .. cCpus
<1>1. IsFiniteSet(S) /\ Cardinality(S) \in Nat
  BY CountOf
<1>2. Cardinality(S \cup {e}) = Cardinality(S) + 1
  BY <1>1, FS_AddElement
<1>3. S \cup {e} \in SUBSET EMTs
  OBVIOUS
<1>4. Cardinality(S \cup {e}) \in 0 .. cCpus
  BY <1>3, CountOf
<1> QED  BY <1>1, <1>2, <1>4, CpusAre

\* The EMTs before one of them, and after it.
LEMMA CountTurns ==
    ASSUME NEW e \in EMTs
    PROVE  /\ Cardinality({d \in EMTs : d < e}) = e
           /\ Cardinality({d \in EMTs : d > e}) = cCpus - 1 - e
<1>1. e \in Nat /\ e <= cCpus - 1
  BY CpusAre DEF EMTs
<1>2. {d \in EMTs : d < e} = 0 .. e - 1 /\ {d \in EMTs : d > e} = e + 1 .. cCpus - 1
  BY <1>1, CpusAre DEF EMTs
<1>3. Cardinality(0 .. e - 1) = IF 0 > e - 1 THEN 0 ELSE (e - 1) - 0 + 1
  BY <1>1, FS_Interval
<1>4. Cardinality(e + 1 .. cCpus - 1) = IF e + 1 > cCpus - 1 THEN 0 ELSE (cCpus - 1) - (e + 1) + 1
  BY <1>1, CpusAre, FS_Interval
<1>5. Cardinality(0 .. e - 1) = e
  BY <1>1, <1>3
<1>6. Cardinality(e + 1 .. cCpus - 1) = cCpus - 1 - e
  BY <1>1, <1>4, CpusAre
<1> QED  BY <1>2, <1>5, <1>6

-----------------------------------------------------------------------------
(* The outcome.                                                            *)

LEMMA RetsAre == Rets \subseteq Int /\ Statuses \subseteq Rets /\ 0 \in Rets /\ Statuses \subseteq Int
BY StatusesAssumption DEF Rets

\* The loop of the exchange keeps the outcome.
LEMMA OutcomeStep ==
    ASSUME NEW rets \in Seq(Statuses), NEW s \in Rets, OutcomeIs(rets, s), NEW rc \in Statuses, rc # 0
    PROVE  OutcomeIs(Append(rets, rc), IF Keeps(s, rc) THEN s ELSE rc)
<1> DEFINE n == Len(rets)
           a == Append(rets, rc)
<1>1. /\ n \in Nat /\ DOMAIN rets = 1 .. n /\ DOMAIN a = 1 .. n + 1 /\ a[n + 1] = rc
      /\ \A i \in 1 .. n : a[i] = rets[i] /\ rets[i] \in Int
  <2>1. \A i \in 1 .. n : rets[i] \in Statuses
    OBVIOUS
  <2>2. \A i \in 1 .. n : rets[i] \in Int
    BY <2>1, RetsAre
  <2>3. /\ n \in Nat /\ DOMAIN rets = 1 .. n /\ DOMAIN a = 1 .. n + 1 /\ a[n + 1] = rc
        /\ \A i \in 1 .. n : a[i] = rets[i]
    OBVIOUS
  <2> HIDE DEF n, a
  <2> QED  BY <2>2, <2>3
<1>2. s \in Int /\ rc \in Int
  BY RetsAre
<1> HIDE DEF n, a
<1>3. 1 .. n \subseteq 1 .. n + 1 /\ n + 1 \in 1 .. n + 1 /\ \A i \in 1 .. n + 1 : i \in 1 .. n \/ i = n + 1
  BY <1>1
<1>4. CASE rets = <<>> /\ s = 0
  <2>1. n = 0
    BY <1>4 DEF n
  <2>2. ~Keeps(s, rc)
    BY <1>2, <1>4 DEF Keeps
  <2>3. \A i \in DOMAIN a : i = n + 1 /\ a[i] = rc
    BY <1>1, <2>1
  <2>4. n + 1 \in DOMAIN a
    BY <1>1, <1>3
  <2>5. CASE rc < 0
    <3>1. rc = a[n + 1] /\ a[n + 1] < 0 /\ \A j \in DOMAIN a : j < n + 1 => a[j] > 0
      BY <1>1, <2>3, <2>5
    <3>2. OutcomeIs(a, rc)
      BY <2>4, <3>1 DEF OutcomeIs
    <3> QED  BY <2>2, <3>2 DEF a
  <2>6. CASE rc > 0
    <3>1. \A i \in DOMAIN a : a[i] > 0 /\ rc <= a[i]
      BY <1>2, <2>3, <2>6
    <3>2. rc = a[n + 1]
      BY <1>1
    <3>3. OutcomeIs(a, rc)
      BY <2>4, <3>1, <3>2 DEF OutcomeIs
    <3> QED  BY <2>2, <3>3 DEF a
  <2> QED  BY <1>2, <2>5, <2>6
<1>5. ASSUME NEW i \in DOMAIN rets, s = rets[i], rets[i] < 0, \A j \in DOMAIN rets : j < i => rets[j] > 0
      PROVE  OutcomeIs(a, IF Keeps(s, rc) THEN s ELSE rc)
  <2>1. Keeps(s, rc)
    BY <1>5 DEF Keeps
  <2>2. i \in DOMAIN a /\ s = a[i] /\ a[i] < 0 /\ \A j \in DOMAIN a : j < i => a[j] > 0
    <3>1. \A j \in DOMAIN a : j < i => j \in DOMAIN rets
      BY <1>1, <1>5
    <3> QED  BY <1>1, <1>3, <1>5, <3>1
  <2>3. OutcomeIs(a, s)
    BY <2>2 DEF OutcomeIs
  <2> QED  BY <2>1, <2>3
<1>6. ASSUME \A i \in DOMAIN rets : rets[i] > 0 /\ s <= rets[i], NEW k \in DOMAIN rets, s = rets[k]
      PROVE  OutcomeIs(a, IF Keeps(s, rc) THEN s ELSE rc)
  <2>1. s > 0 /\ \A i \in 1 .. n : a[i] > 0 /\ s <= a[i]
    BY <1>1, <1>6
  <2>2. CASE rc < 0
    <3>1. ~Keeps(s, rc)
      BY <1>2, <2>1, <2>2 DEF Keeps
    <3>2. /\ n + 1 \in DOMAIN a /\ rc = a[n + 1] /\ a[n + 1] < 0
          /\ \A j \in DOMAIN a : j < n + 1 => a[j] > 0
      BY <1>1, <1>3, <2>1, <2>2
    <3>3. OutcomeIs(a, rc)
      BY <3>2 DEF OutcomeIs
    <3> QED  BY <3>1, <3>3
  <2>3. CASE rc > 0
    <3>1. Keeps(s, rc) <=> rc >= s
      BY <1>2, <2>1, <2>3 DEF Keeps
    <3>2. CASE rc >= s
      <4>1. \A i \in DOMAIN a : a[i] > 0 /\ s <= a[i]
        BY <1>1, <1>3, <2>1, <2>3, <3>2
      <4>2. k \in DOMAIN a /\ s = a[k]
        BY <1>1, <1>3, <1>6
      <4>3. OutcomeIs(a, s)
        BY <4>1, <4>2 DEF OutcomeIs
      <4> QED  BY <3>1, <3>2, <4>3
    <3>3. CASE ~(rc >= s)
      <4>1. \A i \in DOMAIN a : a[i] > 0 /\ rc <= a[i]
        BY <1>1, <1>2, <1>3, <2>1, <2>3, <3>3
      <4>2. n + 1 \in DOMAIN a /\ rc = a[n + 1]
        BY <1>1, <1>3
      <4>3. OutcomeIs(a, rc)
        BY <4>1, <4>2 DEF OutcomeIs
      <4> QED  BY <3>1, <3>3, <4>3
    <3> QED  BY <3>2, <3>3
  <2> QED  BY <1>2, <2>2, <2>3
<1> QED  BY <1>4, <1>5, <1>6 DEF OutcomeIs, a

\* Outcome is the value OutcomeIs tells.
LEMMA OutcomeUnique ==
    ASSUME returned \in Seq(Statuses), NEW rc, OutcomeIs(returned, rc)
    PROVE  Outcome = rc
<1>1. DOMAIN returned \subseteq Int /\ \A i \in DOMAIN returned : returned[i] \in Int
  <2>1. DOMAIN returned = 1 .. Len(returned) /\ Len(returned) \in Nat
    OBVIOUS
  <2>2. \A i \in 1 .. Len(returned) : returned[i] \in Statuses
    OBVIOUS
  <2>3. \A i \in DOMAIN returned : returned[i] \in Statuses
    BY <2>1, <2>2
  <2>4. \A x \in Statuses : x \in Int
    BY RetsAre
  <2>5. DOMAIN returned \subseteq Int
    BY <2>1
  <2> QED  BY <2>3, <2>4, <2>5
<1>2. CASE returned = <<>> /\ rc = 0
  BY <1>2 DEF Outcome
<1>3. ASSUME NEW i \in DOMAIN returned, rc = returned[i], returned[i] < 0,
             \A j \in DOMAIN returned : j < i => returned[j] > 0
      PROVE  Outcome = rc
  <2> DEFINE F == {j \in DOMAIN returned : returned[j] < 0}
  <2>1. i \in F /\ \A j \in F : i <= j
    BY <1>1, <1>3
  <2>2. \A k \in F : (\A j \in F : k <= j) => k = i
    BY <1>1, <2>1
  <2>3. Min(F) = i
    BY <2>1, <2>2 DEF Min
  <2> QED  BY <1>3, <2>3 DEF Outcome, FirstError
<1>4. ASSUME \A i \in DOMAIN returned : returned[i] > 0 /\ rc <= returned[i],
             NEW k \in DOMAIN returned, rc = returned[k]
      PROVE  Outcome = rc
  <2> DEFINE R == {returned[i] : i \in DOMAIN returned}
  <2>1. rc \in R
    BY <1>4
  <2>a. \A x \in R : x \in Int /\ rc <= x
    BY <1>1, <1>4
  <2>2. \A y \in R : (\A x \in R : y <= x) => y = rc
    <3> SUFFICES ASSUME NEW y \in R, \A x \in R : y <= x  PROVE y = rc
      OBVIOUS
    <3>1. y <= rc /\ rc <= y /\ y \in Int /\ rc \in Int
      BY <2>1, <2>a
    <3> QED  BY <3>1
  <2> HIDE DEF R
  <2>3. Min(R) = rc
    BY <2>1, <2>a, <2>2 DEF Min
  <2>4. ~(\E i \in DOMAIN returned : returned[i] < 0) /\ returned # <<>>
    BY <1>1, <1>4
  <2> QED  BY <2>3, <2>4 DEF Outcome, R
<1> QED  BY <1>2, <1>3, <1>4 DEF OutcomeIs

-----------------------------------------------------------------------------
(* The types.                                                              *)

AllPcs == {"idle", "lock", "reset", "slate", "raise", "enter", "wake", "last", "turn", "handler",
           "over", "inside", "finished", "caller", "done", "next", "tell", "leave", "return",
           "result", "unlock"}

\* The places are those named.
LEMMA PcsAreThese == Pcs = AllPcs
BY DEF Pcs, AllPcs, AwayPcs, HerePcs, InsidePcs, WaitPcs, ThroughPcs

\* A step of an EMT moves that one, and changes the locals of no other.
LEMMA PcStep ==
    ASSUME TypeOK, NEW e \in EMTs, Step(e) \/ \E f \in Flags : VMMR3EmtRendezvous(e, f)
    PROVE  /\ pc' \in [EMTs -> Pcs]
           /\ \A d \in EMTs \ {e} : pc'[d] = pc[d]
<1> USE DEF TypeOK, Goto
<1>1. \E l \in AllPcs : pc' = [pc EXCEPT ![e] = l]
  <2>1. CASE Calling(e)
    BY <2>1 DEF Calling, TakeLock, ResetEvents, ClearSlate, Raise, CallerWakes, Result, Unlock, AllPcs
  <2>2. CASE TakingPart(e)
    <3>1. CASE CountReturn(e) \/ WakeCaller(e)
      BY <3>1 DEF CountReturn, WakeCaller, Back, AllPcs
    <3>2. CASE Enter(e) \/ Last(e)
      BY <3>2 DEF Enter, Last, AllPcs
    <3>3. CASE CallHandler(e) \/ CountDone(e) \/ SignalNext(e) \/ TellDone(e)
      BY <3>3 DEF CallHandler, CountDone, SignalNext, TellDone, AllPcs
    <3>4. CASE VMMR3EmtRendezvousFF(e) \/ TakeTurn(e) \/ (\E rc \in Statuses : HandlerReturns(e, rc))
               \/ AwaitDone(e) \/ ReadStatus(e)
      BY <3>4 DEF VMMR3EmtRendezvousFF, TakeTurn, HandlerReturns, AwaitDone, ReadStatus, AllPcs
    <3> QED  BY <2>2, <3>1, <3>2, <3>3, <3>4 DEF TakingPart
  <2>3. CASE \E f \in Flags : VMMR3EmtRendezvous(e, f)
    BY <2>3 DEF VMMR3EmtRendezvous, AllPcs
  <2> QED  BY <2>1, <2>2, <2>3 DEF Step
<1>2. PICK l \in AllPcs : pc' = [pc EXCEPT ![e] = l]
  BY <1>1
<1>3. l \in Pcs
  BY PcsAreThese
<1> QED  BY <1>2, <1>3

LEMMA MyStep ==
    ASSUME TypeOK, NEW e \in EMTs, Step(e) \/ \E f \in Flags : VMMR3EmtRendezvous(e, f),
           cDone' \in 0 .. cCpus
    PROVE  /\ my' \in [EMTs -> MyRecs]
           /\ \A d \in EMTs \ {e} : my'[d] = my[d]
<1>0. my \in [EMTs -> MyRecs] /\ flags \in Flags /\ status \in Rets /\ my[e] \in MyRecs /\ 0 \in 0 .. cCpus
      /\ 0 \in Rets
  BY CpusAre, RetsAre DEF TypeOK, MyRecs
<1>1. my' = my \/ \E r \in MyRecs : my' = [my EXCEPT ![e] = r]
  <2>0. NoFlags \in Flags
    BY DEF NoFlags, Flags, Types
  <2>1. CASE UNCHANGED my
    BY <2>1
  <2>2. ASSUME NEW f \in Flags, VMMR3EmtRendezvous(e, f)  PROVE <1>1!2
    <3>1. [my[e] EXCEPT !.want = f, !.calls = TRUE] \in MyRecs
      BY <1>0 DEF MyRecs
    <3> QED  BY <1>0, <2>2, <3>1 DEF VMMR3EmtRendezvous
  <2>3. CASE VMMR3EmtRendezvousFF(e)
    <3>1. [my[e] EXCEPT !.flags = flags] \in MyRecs
      BY <1>0 DEF MyRecs
    <3> QED  BY <1>0, <2>3, <3>1 DEF VMMR3EmtRendezvousFF
  <2>4. CASE ClearSlate(e)
    <3>1. [my[e] EXCEPT !.flags = my[e].want, !.caller = TRUE] \in MyRecs
      BY <1>0 DEF MyRecs
    <3> QED  BY <1>0, <2>4, <3>1 DEF ClearSlate
  <2>5. CASE Result(e) \/ ReadStatus(e)
    <3>1. /\ [my[e] EXCEPT !.rc = status] \in MyRecs
          /\ [my[e] EXCEPT !.rc = NonCallerStatus(status)] \in MyRecs
      BY <1>0 DEF MyRecs, NonCallerStatus
    <3> QED  BY <1>0, <2>5, <3>1 DEF Result, ReadStatus
  <2>6. CASE Unlock(e)
    <3>1. Nobody \in MyRecs
      BY <1>0, <2>0 DEF MyRecs, Nobody
    <3> QED  BY <1>0, <2>6, <3>1 DEF Unlock
  <2>7. CASE CountDone(e)
    <3>1. [my[e] EXCEPT !.cDone = IF WasLast(e) THEN 0 ELSE cDone'] \in MyRecs
      BY <1>0 DEF MyRecs
    <3> QED  BY <1>0, <2>7, <3>1 DEF CountDone
  <2>8. CASE SignalNext(e)
    <3>1. [my[e] EXCEPT !.cDone = 0] \in MyRecs
      BY <1>0 DEF MyRecs
    <3> QED  BY <1>0, <2>8, <3>1 DEF SignalNext
  <2>9. CASE CountReturn(e) \/ WakeCaller(e)
    <3>1. [Nobody EXCEPT !.want = my[e].want, !.calls = my[e].calls] \in MyRecs
      BY <1>0, <2>0 DEF MyRecs, Nobody
    <3>2. my' = my \/ Back(e)
      BY <2>9 DEF CountReturn, WakeCaller
    <3> QED  BY <1>0, <3>1, <3>2 DEF Back
  <2>10. CASE Calling(e)
    <3>1. UNCHANGED my \/ ClearSlate(e) \/ Result(e) \/ Unlock(e)
      BY <2>10 DEF Calling, TakeLock, ResetEvents, Raise, CallerWakes
    <3> QED  BY <2>1, <2>4, <2>5, <2>6, <3>1
  <2>11. CASE TakingPart(e)
    <3>1. \/ UNCHANGED my \/ VMMR3EmtRendezvousFF(e) \/ CountDone(e) \/ SignalNext(e) \/ ReadStatus(e)
          \/ CountReturn(e) \/ WakeCaller(e)
      BY <2>11 DEF TakingPart, Enter, Last, TakeTurn, CallHandler, HandlerReturns, TellDone, AwaitDone
    <3> QED  BY <2>1, <2>3, <2>5, <2>7, <2>8, <2>9, <3>1
  <2> QED  BY <2>2, <2>10, <2>11 DEF Step
<1> QED  BY <1>0, <1>1

\* Types are kept where the counters stay in their range.
LEMMA TypesStep ==
    ASSUME TypeOK, NEW e \in EMTs, Step(e) \/ \E f \in Flags : VMMR3EmtRendezvous(e, f),
           cEntered' \in 0 .. cCpus, cDone' \in 0 .. cCpus, cReturned' \in 0 .. cCpus - 1
    PROVE  TypeOK'
<1>1. pc' \in [EMTs -> Pcs]
  BY PcStep
<1>2. my' \in [EMTs -> MyRecs]
  BY MyStep
<1>0. my[e].want \in Flags /\ 0 \in Rets /\ 0 \in Nat
  BY RetsAre DEF TypeOK
<1>3. lock' \in EMTs \cup {NoBody} /\ ff' \in BOOLEAN /\ flags' \in Flags /\ oneByOne' \in BOOLEAN
      /\ allAtOnce' \in BOOLEAN /\ done' \in BOOLEAN /\ doneCaller' \in BOOLEAN
      /\ status' \in Rets /\ rounds' \in 0 .. MaxRounds
  <2> USE DEF TypeOK, events, counters, history
  <2>1. CASE Calling(e)
    BY <1>0, <2>1 DEF Calling, TakeLock, ResetEvents, ClearSlate, Raise, CallerWakes, Result, Unlock
  <2>2. CASE TakingPart(e)
    <3>1. CASE \E rc \in Statuses : HandlerReturns(e, rc)
      BY <3>1, RetsAre DEF HandlerReturns
    <3>2. CASE Enter(e) \/ Last(e) \/ VMMR3EmtRendezvousFF(e) \/ TakeTurn(e) \/ CallHandler(e)
      BY <3>2 DEF Enter, Last, VMMR3EmtRendezvousFF, TakeTurn, CallHandler
    <3>3. CASE CountDone(e) \/ SignalNext(e) \/ TellDone(e) \/ AwaitDone(e) \/ ReadStatus(e)
               \/ CountReturn(e) \/ WakeCaller(e)
      BY <3>3 DEF CountDone, SignalNext, TellDone, AwaitDone, ReadStatus, CountReturn, WakeCaller
    <3> QED  BY <2>2, <3>1, <3>2, <3>3 DEF TakingPart
  <2>3. ASSUME NEW f \in Flags, VMMR3EmtRendezvous(e, f)  
          PROVE  /\ lock' \in EMTs \cup {NoBody} /\ ff' \in BOOLEAN /\ flags' \in Flags /\ oneByOne' \in BOOLEAN
                 /\ allAtOnce' \in BOOLEAN /\ done' \in BOOLEAN /\ doneCaller' \in BOOLEAN
                 /\ status' \in Rets /\ rounds' \in 0 .. MaxRounds
    <3>1. rounds \in 0 .. MaxRounds /\ rounds < MaxRounds /\ rounds' = rounds + 1
      BY <2>3 DEF VMMR3EmtRendezvous
    <3>2. rounds' \in 0 .. MaxRounds
      BY <3>1, RoundsAssumption
    <3> QED  BY <2>3, <3>2 DEF VMMR3EmtRendezvous
  <2> QED  BY <2>1, <2>2, <2>3 DEF Step
<1>4. ordered' \in [EMTs -> BOOLEAN]
  <2> USE DEF TypeOK, events
  <2>1. CASE Calling(e)
    BY <2>1 DEF Calling, TakeLock, ResetEvents, ClearSlate, Raise, CallerWakes, Result, Unlock
  <2>2. CASE Last(e) \/ TakeTurn(e) \/ SignalNext(e)
    BY <2>2 DEF Last, TakeTurn, SignalNext
  <2>3. CASE TakingPart(e) /\ ~(Last(e) \/ TakeTurn(e) \/ SignalNext(e))
    BY <2>3 DEF TakingPart, VMMR3EmtRendezvousFF, Enter, CallHandler, HandlerReturns, CountDone,
                TellDone, AwaitDone, ReadStatus, CountReturn, WakeCaller
  <2>4. CASE \E f \in Flags : VMMR3EmtRendezvous(e, f)
    BY <2>4 DEF VMMR3EmtRendezvous
  <2> QED  BY <2>1, <2>2, <2>3, <2>4 DEF Step
<1>5. returned' \in Seq(Statuses)
  <2> USE DEF TypeOK, history
  <2>1. CASE Calling(e)
    <3>1. returned' = returned \/ returned' = <<>>
      BY <2>1 DEF Calling, TakeLock, ResetEvents, ClearSlate, Raise, CallerWakes, Result, Unlock
    <3>2. returned \in Seq(Statuses)
      OBVIOUS
    <3>3. <<>> \in Seq(Statuses)
      OBVIOUS
    <3> HIDE DEF TypeOK, history
    <3> QED  BY <3>1, <3>2, <3>3
  <2>2. ASSUME NEW rc \in Statuses, HandlerReturns(e, rc)  PROVE returned' \in Seq(Statuses)
    BY <2>2 DEF HandlerReturns
  <2>3. CASE TakingPart(e) /\ ~(\E rc \in Statuses : HandlerReturns(e, rc))
    BY <2>3 DEF TakingPart, VMMR3EmtRendezvousFF, Enter, Last, TakeTurn, CallHandler, CountDone,
                SignalNext, TellDone, AwaitDone, ReadStatus, CountReturn, WakeCaller
  <2>4. CASE \E f \in Flags : VMMR3EmtRendezvous(e, f)
    BY <2>4 DEF VMMR3EmtRendezvous
  <2> QED  BY <2>1, <2>2, <2>3, <2>4 DEF Step
<1> QED  BY <1>1, <1>2, <1>3, <1>4, <1>5 DEF TypeOK, MyRecs

\* What an EMT knows, the steps of the others leave true.
LEMMA KnowsStays ==
    ASSUME NEW d \in EMTs, Knows(d), pc'[d] = pc[d], my'[d] = my[d],
           lock' = lock \/ (d # lock /\ d # lock'),
           flags' = flags \/ Quiet(d)
    PROVE  Knows(d)'
BY DEF Knows, Quiet

-----------------------------------------------------------------------------
(* The phases.                                                             *)

Counted == cEntered' \in 0 .. cCpus /\ cDone' \in 0 .. cCpus /\ cReturned' \in 0 .. cCpus - 1
Acts(e) == Step(e) \/ \E f \in Flags : VMMR3EmtRendezvous(e, f)

\* Goto.
LEMMA Goes ==
    ASSUME TypeOK, NEW e \in EMTs, NEW l, Goto(e, l)
    PROVE  pc'[e] = l /\ \A d \in EMTs \ {e} : pc'[d] = pc[d]
BY DEF TypeOK, Goto

LEMMA TypedCounters == RoundInv => /\ cEntered \in 0 .. cCpus /\ cDone \in 0 .. cCpus /\ cReturned \in 0 .. cCpus - 1
                                   /\ cEntered \in Int /\ cDone \in Int /\ cReturned \in Int
BY CpusAre DEF RoundInv, TypeOK

\* Which phase it is, as an EMT at some place can tell.
LEMMA PhaseOf ==
    ASSUME RoundInv, NEW e \in EMTs
    PROVE  /\ pc[e] \in {"reset", "slate", "raise"} => Prepare /\ e = lock
           /\ pc[e] \in {"enter", "last"} => Gather
           /\ ff => Gather
           /\ pc[e] \in ActivePcs \cup {"tell"} => Run
           /\ pc[e] = "turn" => Gather \/ Run
           /\ pc[e] = "turn" /\ (oneByOne \/ allAtOnce \/ ordered[e]) => Run
           /\ pc[e] = "next" => Run \/ Leave
           /\ pc[e] \in {"leave", "return", "wake", "result", "unlock"} => Leave
           /\ pc[e] \in {"caller", "done"} /\ (done \/ doneCaller) => Leave
           /\ Quiet(e) => ~Run
           /\ lock = NoBody => Free
<1> USE DEF RoundInv, Phase
<1>1. Free => lock = NoBody /\ ~ff /\ Quiet(e)
  BY DEF Free
<1>2. Prepare => lock \in EMTs /\ ~ff /\ ((pc[e] \in {"reset", "slate", "raise"} /\ e = lock) \/ Quiet(e))
  BY DEF Prepare
<1>3. Gather => /\ lock \in EMTs /\ pc[e] \in {"idle", "lock", "enter", "last"} \cup WaitingPcs
                /\ ~oneByOne /\ ~allAtOnce /\ ~done /\ ~doneCaller /\ ~ordered[e]
  BY DEF Gather, NoEvents
<1>4. Run => lock \in EMTs /\ ~ff /\ pc[e] \in RunPcs /\ ~done /\ ~doneCaller
  BY DEF Run
<1>5. Leave => lock \in EMTs /\ ~ff /\ pc[e] \in LeavePcs
  BY DEF Leave, LeaveOf
<1> QED  BY <1>1, <1>2, <1>3, <1>4, <1>5, CpusAre
            DEF Quiet, WaitingPcs, RunPcs, ActivePcs, LeavePcs

\* To keep the invariant is to keep the phase, the counters' range and what the
\* EMT itself knows.
LEMMA InvStep ==
    ASSUME RoundInv, NEW e \in EMTs, Acts(e), Counted, Knows(e)', Phase',
           \/ lock' = lock
           \/ lock = NoBody /\ lock' = e
           \/ lock = e /\ lock' = NoBody,
           flags' = flags \/ (pc[e] = "slate" /\ flags' = my[e].want)
    PROVE  RoundInv'
<1> USE DEF RoundInv
<1>1. TypeOK'
  BY TypesStep DEF Acts, Counted
<1>2. ASSUME NEW d \in EMTs \ {e}  PROVE Knows(d)'
  <2>1. pc'[d] = pc[d] /\ my'[d] = my[d] /\ Knows(d) /\ d \in EMTs
    BY PcStep, MyStep DEF Acts, Counted
  <2>2. lock' = lock \/ (d # lock /\ d # lock')
    BY CpusAre
  <2>3. flags' = flags \/ Quiet(d)
    BY PhaseOf DEF Prepare
  <2> QED  BY <2>1, <2>2, <2>3, KnowsStays
<1>3. flags'.stop => MayStop(flags'.type)
  BY DEF Knows
<1> QED  BY <1>1, <1>2, <1>3 DEF MayStop

-----------------------------------------------------------------------------
(* The call.                                                               *)

LEMMA CallStep ==
    ASSUME RoundInv, NEW e \in EMTs, NEW f \in Flags, VMMR3EmtRendezvous(e, f)
    PROVE  RoundInv'
<1>0. TypeOK /\ Knows(e)
  BY DEF RoundInv
<1>1. pc[e] = "idle" /\ pc'[e] = "lock" /\ \A d \in EMTs \ {e} : pc'[d] = pc[d]
  BY <1>0, Goes DEF VMMR3EmtRendezvous
<1>2. /\ UNCHANGED <<lock, ff, flags, status, cEntered, cDone, cReturned>>
      /\ UNCHANGED <<oneByOne, allAtOnce, ordered, done, doneCaller, returned>>
  BY DEF VMMR3EmtRendezvous, counters, events
<1>3. Knows(e)'
  <2>1. my'[e] = [my[e] EXCEPT !.want = f, !.calls = TRUE] /\ my[e] \in MyRecs /\ (f.stop => MayStop(f.type))
    BY <1>0 DEF VMMR3EmtRendezvous, TypeOK, MyRecs
  <2>2. my'[e].want = f /\ my'[e].caller = my[e].caller
    BY <2>1 DEF MyRecs
  <2> QED  BY <1>0, <1>1, <1>2, <2>1, <2>2 DEF Knows
<1>4. ASSUME Free  PROVE Phase'
  <2>1. Free'
    BY <1>1, <1>2, <1>4 DEF Free, Quiet
  <2> QED  BY <2>1 DEF Phase
<1>5. ASSUME Prepare  PROVE Phase'
  <2>1. e # lock
    BY <1>1, <1>5 DEF Prepare
  <2>2. Prepare'
    BY <1>0, <1>1, <1>2, <1>5, <2>1 DEF Prepare, Quiet, NoEvents
  <2> QED  BY <2>2 DEF Phase
<1>6. ASSUME Gather  PROVE Phase'
  <2>1. Entered' = Entered
    BY <1>1 DEF Entered, WaitingPcs
  <2>2. \A d \in EMTs : d # e => pc[d] # "last"
    BY <1>1, <1>6 DEF Gather, WaitingPcs
  <2>3. \A d \in EMTs :
         /\ pc'[d] \in {"idle", "lock", "enter", "last"} \cup WaitingPcs
         /\ pc'[d] = "turn" => flags.type # "ONCE"
         /\ pc'[d] \in {"caller", "done"} => flags.type = "ONCE"
         /\ pc'[d] = "last" => \A b \in EMTs \ {d} : pc'[b] \in WaitingPcs
    BY <1>6, <1>1, <2>2 DEF Gather, WaitingPcs
  <2>4. NoEvents'
    BY <1>2, <1>6 DEF Gather, NoEvents
  <2>5. Gather'
    BY <1>2, <1>6, <2>1, <2>3, <2>4 DEF Gather
  <2> QED  BY <2>5 DEF Phase
<1>7. ASSUME Leave  PROVE Phase'
  <2>1. Gone' = Gone
    BY <1>1, <1>2 DEF Gone
  <2>2. \A d \in EMTs : Quiet(d)' <=> Quiet(d)
    BY <1>1 DEF Quiet
  <2>3. my'[e].rc = my[e].rc /\ \A d \in EMTs \ {e} : my'[d] = my[d]
    BY <1>0 DEF VMMR3EmtRendezvous, TypeOK
  <2>5. lock # e /\ lock \in EMTs
    BY <1>0, <1>1, <1>7 DEF Knows, Leave
  <2>4. \A d \in EMTs : LeaveOf(d)'
    BY <1>1, <1>2, <1>7, <2>2, <2>3, <2>5 DEF Leave, LeaveOf, LeavePcs
  <2>6. Leave'
    BY <1>2, <1>7, <2>1, <2>4 DEF Leave, OutcomeIs
  <2> QED  BY <2>6 DEF Phase
<1>8. Phase'
  <2>1. ~Run
    BY <1>1, PhaseOf DEF Quiet
  <2> QED  BY <1>4, <1>5, <1>6, <1>7, <2>1 DEF RoundInv, Phase
<1>20. Counted
  BY <1>2, TypedCounters DEF Counted
<1> QED  BY <1>2, <1>3, <1>8, <1>20, InvStep DEF Acts

LEMMA TakeLockStep ==
    ASSUME RoundInv, NEW e \in EMTs, TakeLock(e)
    PROVE  RoundInv'
<1>0. TypeOK /\ Knows(e) /\ Free
  BY PhaseOf DEF RoundInv, TakeLock
<1>1. pc[e] = "lock" /\ pc'[e] = "reset" /\ \A d \in EMTs \ {e} : pc'[d] = pc[d]
  BY <1>0, Goes DEF TakeLock
<1>2. /\ UNCHANGED <<ff, flags, status, cEntered, cDone, cReturned, oneByOne>>
      /\ UNCHANGED <<allAtOnce, ordered, done, doneCaller, my, returned>>
      /\ lock = NoBody /\ lock' = e
  BY DEF TakeLock, counters, events, history
<1>3. Knows(e)'
  BY <1>0, <1>1, <1>2 DEF Knows
<1>4. Prepare'
  <2>1. pc'[lock'] = "reset" /\ lock' \in EMTs /\ ~ff' /\ returned' = <<>>
    BY <1>0, <1>1, <1>2 DEF Free
  <2>2. \A d \in EMTs \ {lock'} : Quiet(d)'
    BY <1>0, <1>1, <1>2 DEF Free, Quiet
  <2> QED  BY <2>1, <2>2 DEF Prepare
<1>20. Counted
  BY <1>2, TypedCounters DEF Counted
<1> QED  BY <1>2, <1>3, <1>4, <1>20, InvStep DEF Acts, Step, Calling, Phase

LEMMA ResetEventsStep ==
    ASSUME RoundInv, NEW e \in EMTs, ResetEvents(e)
    PROVE  RoundInv'
<1>0. TypeOK /\ Knows(e) /\ Prepare /\ e = lock
  BY PhaseOf DEF RoundInv, ResetEvents
<1>1. pc[e] = "reset" /\ pc'[e] = "slate" /\ \A d \in EMTs \ {e} : pc'[d] = pc[d]
  BY <1>0, Goes DEF ResetEvents
<1>2. /\ UNCHANGED <<lock, ff, flags, status, cEntered>>
      /\ UNCHANGED <<cDone, cReturned, my, returned>> /\ NoEvents'
  BY DEF ResetEvents, counters, history, NoEvents
<1>3. Knows(e)'
  BY <1>0, <1>1, <1>2 DEF Knows
<1>4. Prepare'
  BY <1>0, <1>1, <1>2 DEF Prepare, Quiet
<1>20. Counted
  BY <1>2, TypedCounters DEF Counted
<1> QED  BY <1>2, <1>3, <1>4, <1>20, InvStep DEF Acts, Step, Calling, Phase

LEMMA ClearSlateStep ==
    ASSUME RoundInv, NEW e \in EMTs, ClearSlate(e)
    PROVE  RoundInv'
<1>0. TypeOK /\ Knows(e) /\ Prepare /\ e = lock
  BY PhaseOf DEF RoundInv, ClearSlate
<1>1. pc[e] = "slate" /\ pc'[e] = "raise" /\ \A d \in EMTs \ {e} : pc'[d] = pc[d]
  BY <1>0, Goes DEF ClearSlate
<1>2. /\ UNCHANGED <<lock, ff, oneByOne, allAtOnce>>
      /\ UNCHANGED <<ordered, done, doneCaller, returned>>
      /\ cEntered' = 0 /\ cDone' = 0 /\ cReturned' = 0 /\ status' = 0 /\ flags' = my[e].want
      /\ my' = [my EXCEPT ![e] = [@ EXCEPT !.flags = my[e].want, !.caller = TRUE]]
  BY DEF ClearSlate, events, history
<1>3. Knows(e)'
  <2>1. my'[e] = [my[e] EXCEPT !.flags = my[e].want, !.caller = TRUE] /\ my[e] \in MyRecs
    BY <1>0, <1>2 DEF TypeOK, MyRecs
  <2>2. my'[e].want = my[e].want /\ my'[e].caller = TRUE /\ my'[e].flags = my[e].want
    BY <2>1 DEF MyRecs
  <2> QED  BY <1>0, <1>1, <1>2, <2>2 DEF Knows
<1>4. Prepare'
  BY <1>0, <1>1, <1>2 DEF Prepare, Quiet, NoEvents
<1>5. Counted
  BY <1>2, CpusAre DEF Counted
<1> QED  BY <1>1, <1>2, <1>3, <1>4, <1>5, InvStep DEF Acts, Step, Calling, Phase

LEMMA RaiseStep ==
    ASSUME RoundInv, NEW e \in EMTs, Raise(e)
    PROVE  RoundInv'
<1>0. TypeOK /\ Knows(e) /\ Prepare /\ e = lock
  BY PhaseOf DEF RoundInv, Raise
<1>1. pc[e] = "raise" /\ pc'[e] = "enter" /\ \A d \in EMTs \ {e} : pc'[d] = pc[d]
  BY <1>0, Goes DEF Raise
<1>2. /\ UNCHANGED <<lock, flags, status, cEntered, cDone, cReturned, oneByOne>>
      /\ UNCHANGED <<allAtOnce, ordered, done, doneCaller, my, returned>>
      /\ ff' = TRUE
  BY DEF Raise, counters, events, history
<1>3. Knows(e)'
  BY <1>0, <1>1, <1>2 DEF Knows
<1>4. Gather'
  <2>1. \A d \in EMTs : pc'[d] \in {"idle", "lock", "enter"}
    BY <1>0, <1>1 DEF Prepare, Quiet
  <2>2. Entered' = {}
    BY <2>1 DEF Entered, WaitingPcs
  <2>3. Entered' \in SUBSET EMTs
    BY <2>2
  <2>4. Cardinality(Entered') = 0
    BY <2>2, <2>3, CountOf
  <2>5. NoEvents'
    BY <1>0, <1>1, <1>2 DEF Prepare, NoEvents
  <2> QED  BY <1>0, <1>1, <1>2, <2>1, <2>4, <2>5 DEF Prepare, Gather
<1>20. Counted
  BY <1>2, TypedCounters DEF Counted
<1> QED  BY <1>2, <1>3, <1>4, <1>20, InvStep DEF Acts, Step, Calling, Phase

-----------------------------------------------------------------------------
(* The gathering.                                                          *)

LEMMA FFStep ==
    ASSUME RoundInv, NEW e \in EMTs, VMMR3EmtRendezvousFF(e)
    PROVE  RoundInv'
<1>0. TypeOK /\ Knows(e) /\ Gather
  BY PhaseOf DEF RoundInv, VMMR3EmtRendezvousFF
<1>1. pc[e] \in {"idle", "lock"} /\ pc'[e] = "enter" /\ \A d \in EMTs \ {e} : pc'[d] = pc[d]
  BY <1>0, Goes DEF VMMR3EmtRendezvousFF
<1>2. /\ UNCHANGED <<lock, ff, flags, status, cEntered, cDone, cReturned>>
      /\ UNCHANGED <<oneByOne, allAtOnce, ordered, done, doneCaller, returned>>
  BY DEF VMMR3EmtRendezvousFF, counters, events, history
<1>3. Knows(e)'
  <2>1. my'[e] = [my[e] EXCEPT !.flags = flags] /\ my[e] \in MyRecs
    BY <1>0 DEF VMMR3EmtRendezvousFF, TypeOK, MyRecs
  <2>2. my'[e].flags = flags /\ my'[e].caller = my[e].caller /\ my'[e].want = my[e].want
    BY <2>1 DEF MyRecs
  <2> QED  BY <1>0, <1>1, <1>2, <2>2 DEF Knows
<1>4. Gather'
  <2>1. Entered' = Entered
    BY <1>1 DEF Entered, WaitingPcs
  <2>2. \A d \in EMTs : d # e => pc[d] # "last"
    BY <1>0, <1>1 DEF Gather, WaitingPcs
  <2>3. \A d \in EMTs :
         /\ pc'[d] \in {"idle", "lock", "enter", "last"} \cup WaitingPcs
         /\ pc'[d] = "turn" => flags.type # "ONCE"
         /\ pc'[d] \in {"caller", "done"} => flags.type = "ONCE"
         /\ pc'[d] = "last" => \A b \in EMTs \ {d} : pc'[b] \in WaitingPcs
    BY <1>0, <1>1, <2>2 DEF Gather, WaitingPcs
  <2>4. NoEvents'
    BY <1>2, <1>0 DEF Gather, NoEvents
  <2> QED  BY <1>0, <1>2, <2>1, <2>3, <2>4 DEF Gather
<1>20. Counted
  BY <1>2, TypedCounters DEF Counted
<1> QED  BY <1>2, <1>3, <1>4, <1>20, InvStep DEF Acts, Step, TakingPart, Phase

LEMMA EnterStep ==
    ASSUME RoundInv, NEW e \in EMTs, Enter(e)
    PROVE  RoundInv'
<1> DEFINE l == IF cEntered' = cCpus THEN "last"
                ELSE IF Type(e) # "ONCE" THEN "turn"
                ELSE IF my[e].caller THEN "caller" ELSE "done"
<1>0. TypeOK /\ Knows(e) /\ Gather
  BY PhaseOf DEF RoundInv, Enter
<1>1. pc[e] = "enter" /\ pc'[e] = l /\ \A d \in EMTs \ {e} : pc'[d] = pc[d]
  BY <1>0, Goes DEF Enter
<1>2. /\ UNCHANGED <<lock, ff, flags, status, cDone, cReturned, oneByOne>>
      /\ UNCHANGED <<allAtOnce, ordered, done, doneCaller, my, returned>>
      /\ cEntered' = cEntered + 1
  BY DEF Enter, events, history
<1>3. Knows(e)'
  BY <1>0, <1>1, <1>2 DEF Knows
<1>4. /\ Entered \in SUBSET EMTs /\ e \notin Entered /\ Entered' = Entered \cup {e}
      /\ Entered' \in SUBSET EMTs
  BY <1>1 DEF Entered, WaitingPcs
<1>5. cEntered' = Cardinality(Entered') /\ cEntered' \in 0 .. cCpus
  BY <1>0, <1>2, <1>4, CountOne DEF Gather
<1>6. \A d \in EMTs \ {e} : pc[d] # "last"
  BY <1>0, <1>1 DEF Gather, WaitingPcs
<1>7. Type(e) = flags.type
  BY <1>0, <1>1 DEF Knows, Type
<1>8. cEntered' = cCpus => \A d \in EMTs \ {e} : pc[d] \in WaitingPcs
  <2>1. cEntered' = cCpus => Entered' = EMTs
    BY <1>4, <1>5, CountOf
  <2> QED  BY <1>4, <1>6, <2>1 DEF Entered
<1>9. Gather'
  <2>1. \A d \in EMTs :
         /\ pc'[d] \in {"idle", "lock", "enter", "last"} \cup WaitingPcs
         /\ pc'[d] = "turn" => flags.type # "ONCE"
         /\ pc'[d] \in {"caller", "done"} => flags.type = "ONCE"
         /\ pc'[d] = "last" => \A b \in EMTs \ {d} : pc'[b] \in WaitingPcs
    BY <1>0, <1>1, <1>6, <1>7, <1>8 DEF Gather, WaitingPcs
  <2>2. NoEvents'
    BY <1>0, <1>2 DEF Gather, NoEvents
  <2> QED  BY <1>0, <1>2, <1>5, <2>1, <2>2 DEF Gather
<1>20. Counted
  BY <1>2, <1>5, TypedCounters DEF Counted
<1> QED  BY <1>2, <1>3, <1>9, <1>20, InvStep DEF Acts, Step, TakingPart, Phase

-----------------------------------------------------------------------------
(* The handler's turns.                                                    *)

\* Nobody's turn comes before the first one's.
LEMMA FirstIs ==
    ASSUME RoundInv, NEW e \in EMTs, Type(e) = flags.type
    PROVE  /\ First(e) \in EMTs
           /\ \A d \in EMTs \ {First(e)} : flags.type \in Ordered => ~Before(d, First(e))
<1>1. First(e) = (IF flags.type = "ASCENDING" THEN 0 ELSE cCpus - 1)
  BY DEF First
<1>2. \A d \in EMTs : d \in Int /\ 0 <= d /\ d <= cCpus - 1
  BY CpusAre DEF EMTs
<1>3. 0 \in EMTs /\ cCpus - 1 \in EMTs
  BY CpusAre DEF EMTs
<1>4. ASSUME NEW d \in EMTs \ {First(e)}, flags.type \in Ordered  PROVE ~Before(d, First(e))
  BY <1>1, <1>2, <1>4, CpusAre DEF Before, Ordered
<1> QED  BY <1>1, <1>3, <1>4

LEMMA LastStep ==
    ASSUME RoundInv, NEW e \in EMTs, Last(e)
    PROVE  RoundInv'
<1>0. TypeOK /\ Knows(e) /\ Gather
  BY PhaseOf DEF RoundInv, Last
<1>1. /\ pc[e] = "last" /\ \A d \in EMTs \ {e} : pc'[d] = pc[d]
      /\ IF IsFirst(e) THEN pc'[e] = "handler" /\ ordered' = ordered
         ELSE pc'[e] = "turn" /\ ordered' = [ordered EXCEPT ![First(e)] = TRUE]
  <2>1. CASE IsFirst(e)
    BY <1>0, <2>1, Goes DEF Last
  <2>2. CASE ~IsFirst(e)
    BY <1>0, <2>2, Goes DEF Last
  <2> QED  BY <2>1, <2>2
<1>2. /\ UNCHANGED <<lock, flags, status, cEntered, cDone, cReturned>>
      /\ UNCHANGED <<oneByOne, done, doneCaller, my, returned>>
      /\ ff' = FALSE
  BY DEF Last, counters, history
<1>3. Knows(e)'
  BY <1>0, <1>1, <1>2 DEF Knows
<1>4. Type(e) = flags.type
  BY <1>0, <1>1 DEF Knows, Type
<1>5. \A d \in EMTs \ {e} : IF flags.type = "ONCE" THEN pc[d] \in {"caller", "done"} ELSE pc[d] = "turn"
  BY <1>0, <1>1 DEF Gather, WaitingPcs
<1>6. flags.type = "ONCE" => IsFirst(e)
  BY <1>4 DEF IsFirst, Ordered
<1>7. Run'
  <2>1. \A d \in EMTs : pc'[d] \in RunPcs /\ pc'[d] # "over"
    BY <1>1, <1>5 DEF RunPcs, ActivePcs, WaitingPcs
  <2>2. lock' \in EMTs /\ ~ff' /\ ~done' /\ ~doneCaller' /\ cReturned' = 0 /\ status' = 0
        /\ OutcomeIs(returned', status')
    BY <1>0, <1>2 DEF Gather, NoEvents, OutcomeIs
  <2>3. ASSUME flags.type = "ONCE"  PROVE RunOnce'
    <3>1. \A d \in EMTs : IF d = e THEN pc'[d] = "handler" ELSE pc'[d] \in {"caller", "done"}
      BY <1>1, <1>5, <1>6, <2>3
    <3>2. cDone' = 0
      BY <1>0, <1>2 DEF Gather
    <3> QED  BY <3>1, <3>2 DEF RunOnce, Busy, Alone, ActivePcs, WaitingPcs
  <2>4. ASSUME flags.type # "ONCE"  PROVE RunEach'
    <3>1. \A d \in EMTs : pc'[d] = "turn" \/ (d = e /\ pc'[d] = "handler")
      BY <1>1, <1>5, <2>4
    <3>2. cDone' = Cardinality(Through')
      <4>1. Through' = {}
        BY <3>1 DEF Through
      <4>2. Through' \in SUBSET EMTs
        BY <4>1
      <4>3. Cardinality(Through') = 0
        BY <4>1, <4>2, CountOf
      <4> QED  BY <1>0, <1>2, <4>3 DEF Gather
    <3>3. \A d \in EMTs : (ordered'[d] \/ Busy(d)') /\ flags.type \in Ordered => d = First(e)
      <4>1. \A d \in EMTs : ~ordered[d]
        BY <1>0 DEF Gather, NoEvents
      <4>2. CASE IsFirst(e)
        BY <1>1, <1>4, <3>1, <4>1, <4>2 DEF IsFirst, Busy, ActivePcs
      <4>3. CASE ~IsFirst(e)
        <5>1. \A d \in EMTs : ordered'[d] => d = First(e)
          BY <1>0, <1>1, <4>1, <4>3 DEF TypeOK
        <5> QED  BY <1>1, <3>1, <4>3, <5>1 DEF Busy, ActivePcs
      <4> QED  BY <4>2, <4>3
    <3>4. ASSUME NEW f \in EMTs, f = First(e), flags.type \in Ordered  PROVE Turned(f)'
      <4> SUFFICES ASSUME NEW d \in EMTs \ {f}
                   PROVE  ~ordered'[d] /\ ~Before(d, f) /\ pc'[d] = "turn"
        BY <1>2 DEF Turned, Before
      <4>1. ~Before(d, f)
        BY <1>4, <3>4, FirstIs
      <4>2. ~ordered'[d] /\ ~Busy(d)'
        BY <3>3, <3>4
      <4> QED  BY <3>1, <4>1, <4>2 DEF Busy, ActivePcs
    <3>5. \A d \in EMTs : Busy(d)' => d = e
      BY <3>1 DEF Busy, ActivePcs
    <3>6. ~oneByOne'
      BY <1>0, <1>2 DEF Gather, NoEvents
    <3>7. \A d \in EMTs : ordered'[d] /\ flags.type \in Ordered => pc'[d] = "turn"
      BY <1>0, <1>1, <3>1, <3>3, <1>4 DEF Gather, NoEvents, IsFirst
    <3>8. ASSUME NEW d \in EMTs  PROVE TurnOf(d)'
      <4>1. Busy(d)' => Alone(d)'
        BY <3>1, <3>5 DEF Alone, WaitingPcs
      <4>2. flags.type \in Ordered /\ (ordered'[d] \/ Busy(d)') => Turned(d)'
        BY <3>3, <3>4
      <4>3. pc'[d] \notin {"tell", "next"}
        BY <3>1
      <4> QED  BY <1>2, <3>6, <3>7, <4>1, <4>2, <4>3 DEF TurnOf
    <3> QED  BY <3>2, <3>8 DEF RunEach
  <2> QED  BY <1>2, <2>1, <2>2, <2>3, <2>4 DEF Run
<1>20. Counted
  BY <1>2, TypedCounters DEF Counted
<1> QED  BY <1>2, <1>3, <1>7, <1>20, InvStep DEF Acts, Step, TakingPart, Phase

LEMMA TakeTurnStep ==
    ASSUME RoundInv, NEW e \in EMTs, TakeTurn(e)
    PROVE  RoundInv'
<1>0. TypeOK /\ Knows(e) /\ Run
  BY PhaseOf DEF RoundInv, TakeTurn, Ordered
<1>1. pc[e] = "turn" /\ pc'[e] = "handler" /\ \A d \in EMTs \ {e} : pc'[d] = pc[d]
  BY <1>0, Goes DEF TakeTurn
<1>2. /\ UNCHANGED <<lock, ff, flags, status, cEntered, cDone, cReturned>>
      /\ UNCHANGED <<done, doneCaller, my, returned>>
  BY DEF TakeTurn, counters, history
<1>3. Knows(e)'
  BY <1>0, <1>1, <1>2 DEF Knows
<1>4. Type(e) = flags.type
  BY <1>0, <1>1 DEF Knows, Type
<1>5. flags.type # "ONCE" /\ RunEach
  BY <1>0, <1>1 DEF Run, RunOnce
<1>6. TurnOf(e) /\ \A d \in EMTs : TurnOf(d) /\ pc[d] \in RunPcs
  BY <1>0, <1>5 DEF RunEach, Run
<1>7. Run'
  <2>1. \A d \in EMTs : pc'[d] \in RunPcs /\ (pc'[d] = "over" => flags.stop /\ status < 0)
    BY <1>0, <1>1 DEF Run, RunPcs, ActivePcs
  <2>2. status # 0 => cDone # 0 \/ \E d \in EMTs : pc'[d] = "finished"
    BY <1>0, <1>1 DEF Run
  <2>3. RunEach'
    <3>1. Through' = Through
      BY <1>1 DEF Through
    <3>2. /\ flags.type = "ONE_BY_ONE" => oneByOne /\ ~oneByOne'
          /\ flags.type \in Ordered => ordered[e] /\ ordered' = [ordered EXCEPT ![e] = FALSE]
      BY <1>4 DEF TakeTurn, Ordered
    <3>3. flags.type # "ALL_AT_ONCE" => \A d \in EMTs \ {e} : pc[d] \in WaitingPcs
      <4>1. CASE flags.type = "ONE_BY_ONE"
        BY <1>6, <3>2, <4>1 DEF TurnOf, Busy, RunPcs
      <4>2. CASE flags.type \in Ordered
        BY <1>6, <3>2, <4>2 DEF TurnOf, Turned, WaitingPcs
      <4>3. flags.type \in Types
        BY <1>0 DEF TypeOK, Flags
      <4> QED  BY <1>5, <4>1, <4>2, <4>3 DEF Types, Ordered
    <3>4. ASSUME NEW d \in EMTs  PROVE TurnOf(d)'
      <4>1. pc'[d] = "tell" => \A b \in EMTs \ {d} : pc'[b] \in {"next", "caller", "done"}
        BY <1>1, <1>6 DEF TurnOf
      <4>2. pc'[d] # "next" \/ (d # e /\ pc[d] = "next")
        BY <1>1
      <4>3. flags.type # "ALL_AT_ONCE" /\ Busy(d)' => Alone(d)'
        BY <1>1, <3>3 DEF Busy, Alone, WaitingPcs, ActivePcs
      <4>4. flags.type = "ONE_BY_ONE" /\ oneByOne' => ~Busy(d)'
        BY <3>2
      <4>5. ASSUME flags.type \in Ordered  PROVE ~ordered'[d] /\ (Busy(d)' => Turned(d)')
        <5>1. Turned(e)
          BY <1>6, <3>2, <4>5 DEF TurnOf
        <5>2. \A b \in EMTs : ~ordered'[b]
          BY <1>0, <3>2, <4>5, <5>1 DEF Turned, TypeOK
        <5>3. Busy(d)' => d = e
          BY <1>1, <3>3, <4>5 DEF Busy, WaitingPcs, ActivePcs, Ordered
        <5>4. Turned(e)'
          BY <1>1, <1>2, <5>1, <5>2 DEF Turned, Before
        <5> QED  BY <5>2, <5>3, <5>4
      <4> QED  BY <1>2, <1>6, <4>1, <4>2, <4>3, <4>4, <4>5 DEF TurnOf
    <3>5. cDone' = Cardinality(Through')
      BY <1>2, <1>5, <3>1 DEF RunEach
    <3> QED  BY <3>4, <3>5 DEF RunEach
  <2> QED  BY <1>0, <1>2, <1>5, <2>1, <2>2, <2>3 DEF Run, OutcomeIs
<1>20. Counted
  BY <1>2, TypedCounters DEF Counted
<1> QED  BY <1>2, <1>3, <1>7, <1>20, InvStep DEF Acts, Step, TakingPart, Phase

\* An EMT whose turn it is goes from one place of the handler to another.
LEMMA ActiveStep ==
    ASSUME RoundInv, NEW e \in EMTs, Run, NEW l \in ActivePcs, pc[e] \in ActivePcs,
           pc'[e] = l, \A d \in EMTs \ {e} : pc'[d] = pc[d],
           UNCHANGED <<lock, ff, flags, cDone, cReturned, my>>,
           UNCHANGED <<oneByOne, ordered, done, doneCaller>>,
           OutcomeIs(returned, status)', status < 0 => status' < 0,
           status' # 0 => cDone # 0 \/ \E d \in EMTs : pc'[d] = "finished",
           l = "over" => flags.stop /\ status' < 0
    PROVE  Run'
<1>1. \A d \in EMTs : pc'[d] \in RunPcs /\ (pc'[d] = "over" => flags.stop /\ status' < 0)
  BY DEF Run, RunPcs
<1>2. \A d \in EMTs : /\ Busy(d)' <=> Busy(d)
                      /\ (pc'[d] \in ActivePcs) <=> (pc[d] \in ActivePcs)
                      /\ (pc'[d] \in WaitingPcs) <=> (pc[d] \in WaitingPcs)
  BY DEF Busy, ActivePcs, WaitingPcs
<1>3. \A d \in EMTs : \A p \in WaitingPcs \cup {"next", "tell"} : (pc'[d] = p) <=> (pc[d] = p)
  BY DEF ActivePcs, WaitingPcs
<1>4. \A d \in EMTs : Alone(d)' <=> Alone(d)
  BY <1>2 DEF Alone
<1>5. ASSUME flags.type = "ONCE"  PROVE RunOnce'
  BY <1>2, <1>3, <1>4, <1>5 DEF Run, RunOnce, WaitingPcs
<1>6. ASSUME flags.type # "ONCE"  PROVE RunEach'
  <2>1. Through' = Through
    BY <1>3 DEF Through, WaitingPcs
  <2>2. cDone' = Cardinality(Through')
    BY <1>6, <2>1 DEF Run, RunEach
  <2>3. ASSUME NEW d \in EMTs  PROVE TurnOf(d)'
    <3>0. TurnOf(d)
      BY <1>6 DEF Run, RunEach
    <3>1. Turned(d)' <=> Turned(d)
      BY <1>3 DEF Turned, Before, WaitingPcs
    <3>2. pc'[d] = "tell" => \A b \in EMTs \ {d} : pc'[b] \in {"next", "caller", "done"}
      BY <1>3, <3>0 DEF TurnOf, WaitingPcs
    <3>3. (pc'[d] = "next" <=> pc[d] = "next") /\ (pc'[d] = "turn" <=> pc[d] = "turn")
      BY <1>3 DEF WaitingPcs
    <3> QED  BY <1>2, <1>4, <3>0, <3>1, <3>2, <3>3 DEF TurnOf
  <2> QED  BY <2>2, <2>3 DEF RunEach
<1> QED  BY <1>1, <1>5, <1>6 DEF Run

LEMMA CallHandlerStep ==
    ASSUME RoundInv, NEW e \in EMTs, CallHandler(e)
    PROVE  RoundInv'
<1> DEFINE l == IF Stopped(e) THEN "over" ELSE "inside"
<1>0. TypeOK /\ Knows(e) /\ Run
  BY PhaseOf DEF RoundInv, CallHandler, ActivePcs
<1>1. pc[e] = "handler" /\ pc'[e] = l /\ \A d \in EMTs \ {e} : pc'[d] = pc[d]
  BY <1>0, Goes DEF CallHandler
<1>2. /\ UNCHANGED <<lock, ff, flags, status, cEntered, cDone, cReturned>>
      /\ UNCHANGED <<oneByOne, ordered, done, doneCaller, my, returned>>
  BY DEF CallHandler, counters, events, history
<1>3. Knows(e)'
  BY <1>0, <1>1, <1>2 DEF Knows
<1>4. l = "over" => flags.stop /\ status < 0
  BY <1>0, <1>1 DEF Knows, Stopped
<1>5. Run'
  <2>1. l \in ActivePcs /\ pc[e] \in ActivePcs
    BY <1>1 DEF ActivePcs
  <2>2. OutcomeIs(returned, status)'
    BY <1>0, <1>2 DEF Run, OutcomeIs
  <2>3. status' # 0 => cDone # 0 \/ \E d \in EMTs : pc'[d] = "finished"
    BY <1>0, <1>1, <1>2 DEF Run
  <2>4. pc'[e] = l
    BY <1>1
  <2> HIDE DEF l
  <2> QED  BY <1>0, <1>1, <1>2, <1>4, <2>1, <2>2, <2>3, <2>4, ActiveStep
<1>20. Counted
  BY <1>2, TypedCounters DEF Counted
<1> QED  BY <1>2, <1>3, <1>5, <1>20, InvStep DEF Acts, Step, TakingPart, Phase

LEMMA HandlerReturnsStep ==
    ASSUME RoundInv, NEW e \in EMTs, NEW rc \in Statuses, HandlerReturns(e, rc)
    PROVE  RoundInv'
<1>0. TypeOK /\ Knows(e) /\ Run
  BY PhaseOf DEF RoundInv, HandlerReturns, ActivePcs
<1>1. pc[e] = "inside" /\ pc'[e] = "finished" /\ \A d \in EMTs \ {e} : pc'[d] = pc[d]
  BY <1>0, Goes DEF HandlerReturns
<1>2. /\ UNCHANGED <<lock, ff, flags, cEntered, cDone, cReturned>>
      /\ UNCHANGED <<oneByOne, ordered, done, doneCaller, my>>
  BY DEF HandlerReturns, counters, events
<1>3. Knows(e)'
  BY <1>0, <1>1, <1>2 DEF Knows
<1>4. OutcomeIs(returned', status') /\ (status < 0 => status' < 0)
  <2>1. returned \in Seq(Statuses) /\ status \in Rets /\ OutcomeIs(returned, status)
    BY <1>0 DEF TypeOK, Run
  <2>2. CASE rc = 0
    BY <2>1, <2>2 DEF HandlerReturns
  <2>3. CASE rc # 0
    <3>1. returned' = Append(returned, rc) /\ status' = IF Keeps(status, rc) THEN status ELSE rc
      BY <2>3 DEF HandlerReturns
    <3>2. OutcomeIs(Append(returned, rc), IF Keeps(status, rc) THEN status ELSE rc)
      BY <2>1, <2>3, OutcomeStep
    <3> QED  BY <3>1, <3>2 DEF Keeps
  <2> QED  BY <2>2, <2>3
<1>5. Run'
  <2>1. "finished" \in ActivePcs /\ pc[e] \in ActivePcs
    BY <1>1 DEF ActivePcs
  <2>2. OutcomeIs(returned, status)'
    BY <1>4 DEF OutcomeIs
  <2> QED  BY <1>0, <1>1, <1>2, <1>4, <2>1, <2>2, ActiveStep
<1>20. Counted
  BY <1>2, TypedCounters DEF Counted
<1> QED  BY <1>2, <1>3, <1>5, <1>20, InvStep DEF Acts, Step, TakingPart, Phase

\* The turns are counted.
LEMMA TurnsCounted ==
    ASSUME RoundInv, RunEach, NEW e \in EMTs, flags.type \in Ordered, Turned(e), pc[e] \in ActivePcs
    PROVE  cDone = IF flags.type = "ASCENDING" THEN e ELSE cCpus - 1 - e
<1>0. Through \subseteq EMTs
  BY DEF Through
<1>1. e \in Int /\ \A d \in EMTs : d \in Int
  BY CpusAre
<1>2. \A d \in EMTs : d \in Through <=> (d # e /\ Before(d, e))
  BY DEF Through, Turned, ActivePcs
<1>3. CASE flags.type = "ASCENDING"
  <2>0. \A d \in EMTs : d \in Through <=> d < e
    BY <1>1, <1>2, <1>3 DEF Before
  <2>1. Through = {d \in EMTs : d < e}
    BY <1>0, <2>0
  <2> QED  BY <1>3, <2>1, CountTurns DEF RunEach
<1>4. CASE flags.type = "DESCENDING"
  <2>0. \A d \in EMTs : d \in Through <=> d > e
    BY <1>1, <1>2, <1>4 DEF Before
  <2>1. Through = {d \in EMTs : d > e}
    BY <1>0, <2>0
  <2> QED  BY <1>4, <2>1, CountTurns DEF RunEach
<1> QED  BY <1>3, <1>4 DEF Ordered

LEMMA CountDoneStep ==
    ASSUME RoundInv, NEW e \in EMTs, CountDone(e)
    PROVE  RoundInv'
<1> DEFINE l == IF WasLast(e) THEN "tell" ELSE "next"
           c == IF WasLast(e) THEN 0 ELSE cDone + 1
<1>0. TypeOK /\ Knows(e) /\ Run
  BY PhaseOf DEF RoundInv, CountDone, ActivePcs
<1>1. pc[e] \in {"over", "finished"} /\ pc'[e] = l /\ \A d \in EMTs \ {e} : pc'[d] = pc[d]
  BY <1>0, Goes DEF CountDone
<1>2. /\ UNCHANGED <<lock, ff, flags, status, cEntered, cReturned>>
      /\ UNCHANGED <<oneByOne, ordered, done, doneCaller, returned>>
      /\ cDone' = cDone + 1
  BY DEF CountDone, events, history
<1>3. /\ my'[e].cDone = c /\ my'[e].want = my[e].want /\ my'[e].flags = my[e].flags
      /\ my'[e].caller = my[e].caller
      /\ \A d \in EMTs \ {e} : my'[d] = my[d]
  <2>1. my[e] \in MyRecs
    BY <1>0 DEF TypeOK, MyRecs
  <2>2. my' = [my EXCEPT ![e].cDone = c]
    BY <1>2 DEF CountDone
  <2> HIDE DEF c
  <2>3. my'[e] = [my[e] EXCEPT !.cDone = c] /\ \A d \in EMTs \ {e} : my'[d] = my[d]
    BY <1>0, <2>2 DEF TypeOK
  <2> QED  BY <2>1, <2>3 DEF MyRecs
<1>4. Knows(e)'
  BY <1>0, <1>1, <1>2, <1>3 DEF Knows
<1>5. Type(e) = flags.type
  BY <1>0, <1>1 DEF Knows, Type
<1>6. cDone \in Nat /\ cDone' \in 0 .. cCpus /\ (flags.type # "ONCE" => cDone' = Cardinality(Through \cup {e}))
  <2>1. CASE flags.type = "ONCE"
    <3>1. cDone = 0
      BY <1>0, <1>1, <2>1 DEF Run, RunOnce, ActivePcs
    <3> QED  BY <1>2, <2>1, <3>1, CpusAre
  <2>2. CASE flags.type # "ONCE"
    <3>1. Through \in SUBSET EMTs /\ e \notin Through /\ cDone = Cardinality(Through)
      BY <1>0, <1>1, <2>2 DEF Through, Run, RunEach
    <3>2. Cardinality(Through \cup {e}) = cDone + 1 /\ cDone \in 0 .. cCpus - 1 /\ cDone + 1 \in 0 .. cCpus
      BY <3>1, CountOne
    <3> QED  BY <1>2, <2>2, <3>2
  <2> QED  BY <2>1, <2>2
<1>7. Run'
  <2>1. \A d \in EMTs : pc'[d] \in RunPcs /\ (pc'[d] = "over" => flags.stop /\ status < 0)
    BY <1>0, <1>1 DEF Run, RunPcs
  <2>2. cDone' # 0
    BY <1>2, <1>6
  <2>3. ASSUME flags.type = "ONCE"  PROVE RunOnce'
    <3>1. pc'[e] = "tell" /\ cDone' = 1
      <4>1. cDone = 0
        BY <1>0, <1>1, <2>3 DEF Run, RunOnce, ActivePcs
      <4> QED  BY <1>1, <1>2, <1>5, <2>3, <4>1 DEF WasLast
    <3>2. \A d \in EMTs \ {e} : pc[d] \in WaitingPcs /\ pc[d] # "turn"
      BY <1>0, <1>1, <2>3 DEF Run, RunOnce, Busy, Alone, ActivePcs
    <3> QED  BY <1>1, <3>1, <3>2 DEF RunOnce, Busy, Alone, ActivePcs, WaitingPcs
  <2>4. ASSUME flags.type # "ONCE"  PROVE RunEach'
    <3>0. RunEach /\ \A d \in EMTs : TurnOf(d)
      BY <1>0, <2>4 DEF Run, RunEach
    <3>1. Through' = Through \cup {e}
      BY <1>1 DEF Through
    <3>2. WasLast(e) <=> cDone' = cCpus
      BY <1>2, <1>5, <2>4 DEF WasLast
    <3>3. cDone' = cCpus => \A d \in EMTs \ {e} : pc[d] \in {"next", "tell", "caller", "done"}
      <4>1. Through \cup {e} \in SUBSET EMTs
        BY DEF Through
      <4>2. cDone' = cCpus => Through \cup {e} = EMTs
        BY <1>6, <2>4, <4>1, CountOf
      <4> QED  BY <4>2 DEF Through
    <3>4. \A d \in EMTs \ {e} : pc[d] # "tell"
      BY <1>1, <3>0 DEF TurnOf
    <3>5. Busy(e) /\ pc[e] \in ActivePcs
      BY <1>1 DEF Busy, ActivePcs
    <3>6. ~WasLast(e) => my'[e].cDone = cDone + 1 /\ cDone + 1 < cCpus
      BY <1>2, <1>3, <1>6, <3>2, CpusAre
    <3>7. flags.type \in Ordered => cDone = IF flags.type = "ASCENDING" THEN e ELSE cCpus - 1 - e
      BY <3>0, <3>5, TurnsCounted DEF TurnOf
    <3>8. TurnOf(e)'
      <4>1. pc'[e] = "tell" => \A b \in EMTs \ {e} : pc'[b] \in {"next", "caller", "done"}
        BY <1>1, <3>2, <3>3, <3>4
      <4>2. pc'[e] = "next" => my'[e].cDone < cCpus /\ my'[e].cDone = cDone + 1
        BY <1>1, <3>6
      <4>3. pc'[e] = "next" /\ flags.type = "ASCENDING" => my'[e].cDone = e + 1
        BY <3>7, <4>2 DEF Ordered
      <4>4. pc'[e] = "next" /\ flags.type = "DESCENDING" => my'[e].cDone = cCpus - e
        <5>1. flags.type = "DESCENDING" => cDone = cCpus - 1 - e
          BY <3>7 DEF Ordered
        <5> QED  BY <4>2, <5>1, CpusAre
      <4>5. Alone(e)' <=> Alone(e)
        BY <1>1 DEF Alone
      <4>6. Turned(e)' <=> Turned(e)
        BY <1>1, <1>2 DEF Turned, Before
      <4>7. ~(flags.type \in Ordered /\ ordered[e])
        BY <1>1, <3>0 DEF TurnOf
      <4> QED  BY <1>2, <3>0, <3>5, <4>1, <4>2, <4>3, <4>4, <4>5, <4>6, <4>7 DEF TurnOf
    <3>9. ASSUME NEW d \in EMTs, d # e  PROVE TurnOf(d)'
      <4>1. pc'[d] = pc[d] /\ my'[d] = my[d] /\ pc[d] # "tell" /\ (Busy(d)' <=> Busy(d))
        BY <1>1, <1>3, <3>4, <3>9 DEF Busy
      <4>2. Alone(d) => FALSE
        BY <1>1, <3>9 DEF Alone, WaitingPcs
      <4>3. Turned(d) => FALSE
        BY <1>1, <3>9 DEF Turned
      <4> QED  BY <1>2, <3>0, <4>1, <4>2, <4>3 DEF TurnOf
    <3> QED  BY <1>6, <2>4, <3>1, <3>8, <3>9 DEF RunEach
  <2> QED  BY <1>0, <1>2, <2>1, <2>2, <2>3, <2>4 DEF Run, OutcomeIs
<1>20. Counted
  BY <1>2, <1>6, TypedCounters DEF Counted
<1> QED  BY <1>2, <1>4, <1>7, <1>20, InvStep DEF Acts, Step, TakingPart, Phase

\* Those who leave do not touch what the others read.
LEMMA LeaveKeeps ==
    ASSUME RoundInv, NEW e \in EMTs, Leave,
           UNCHANGED <<lock, ff, flags, status, cDone, done, returned>>,
           cReturned' = Cardinality(Gone'), \A d \in EMTs : LeaveOf(d)'
    PROVE  Phase'
<1>1. Leave'
  BY DEF Leave, OutcomeIs
<1> QED  BY <1>1 DEF Phase

LEMMA SignalNextStep ==
    ASSUME RoundInv, NEW e \in EMTs, SignalNext(e)
    PROVE  RoundInv'
<1> DEFINE l == IF my[e].caller THEN "caller" ELSE "done"
<1>0. TypeOK /\ Knows(e) /\ (Run \/ Leave)
  BY PhaseOf DEF RoundInv, SignalNext
<1>1. pc[e] = "next" /\ pc'[e] = l /\ \A d \in EMTs \ {e} : pc'[d] = pc[d]
  BY <1>0, Goes DEF SignalNext
<1>2. /\ UNCHANGED <<lock, ff, flags, status, cEntered, cDone, cReturned>>
      /\ UNCHANGED <<done, doneCaller, returned>>
  BY DEF SignalNext, counters, history
<1>3. /\ my'[e].want = my[e].want /\ my'[e].flags = my[e].flags
      /\ my'[e].caller = my[e].caller /\ my'[e].rc = my[e].rc
      /\ \A d \in EMTs \ {e} : my'[d] = my[d]
  <2>1. my[e] \in MyRecs
    BY <1>0 DEF TypeOK, MyRecs
  <2>2. my'[e] = [my[e] EXCEPT !.cDone = 0] /\ \A d \in EMTs \ {e} : my'[d] = my[d]
    BY <1>0 DEF TypeOK, SignalNext
  <2> QED  BY <2>1, <2>2 DEF MyRecs
<1>4. Knows(e)'
  BY <1>0, <1>1, <1>2, <1>3 DEF Knows
<1>5. Type(e) = flags.type /\ (pc'[e] = IF e = lock THEN "caller" ELSE "done")
  BY <1>0, <1>1 DEF Knows, Type
<1>6. ASSUME Run  PROVE Phase'
  <2>0. RunEach /\ flags.type # "ONCE" /\ \A d \in EMTs : TurnOf(d)
    BY <1>1, <1>6 DEF Run, RunOnce, RunEach
  <2>1. \A d \in EMTs : pc'[d] \in RunPcs /\ (pc'[d] = "over" => flags.stop /\ status < 0)
    BY <1>1, <1>6 DEF Run, RunPcs, WaitingPcs
  <2>2. status # 0 => cDone # 0 \/ \E d \in EMTs : pc'[d] = "finished"
    BY <1>1, <1>6 DEF Run
  <2>3. Through' = Through
    BY <1>1 DEF Through
  <2>4. Busy(e) /\ ~Busy(e)' /\ pc'[e] \in WaitingPcs /\ \A d \in EMTs \ {e} : Busy(d)' <=> Busy(d)
    BY <1>1 DEF Busy, ActivePcs, WaitingPcs
  <2>5. oneByOne' = (oneByOne \/ flags.type = "ONE_BY_ONE")
        /\ ordered' = IF flags.type \in Ordered THEN [ordered EXCEPT ![Successor(e)] = TRUE] ELSE ordered
    BY <1>5 DEF SignalNext
  <2>6. ASSUME flags.type \in Ordered
        PROVE  LET s == Successor(e) IN
               /\ s \in EMTs /\ s # e /\ pc[s] = "turn"
               /\ \A d \in EMTs \ {s} : ~ordered'[d] /\ IF Before(d, s) THEN pc'[d] \in {"caller", "done"}
                                                                      ELSE pc'[d] = "turn"
    <3> DEFINE s == Successor(e)
    <3>0. Turned(e) /\ ~ordered[e]
      BY <1>1, <2>0, <2>4, <2>6 DEF TurnOf
    <3>1. e \in 0 .. cCpus - 1 /\ cCpus \in Nat /\ \A d \in EMTs : d \in Int
      BY CpusAre DEF EMTs
    <3>2. my[e].cDone < cCpus /\ my[e].cDone = (IF flags.type = "ASCENDING" THEN e + 1 ELSE cCpus - e)
      BY <1>1, <2>0, <2>6 DEF TurnOf, Ordered
    <3>3. s = IF flags.type = "ASCENDING" THEN e + 1 ELSE e - 1
      <4>1. CASE flags.type = "ASCENDING"
        BY <1>5, <4>1 DEF Successor
      <4>2. CASE flags.type # "ASCENDING"
        <5>1. s = cCpus - (cCpus - e) - 1
          BY <1>5, <3>2, <4>2 DEF Successor
        <5> QED  BY <3>1, <4>2, <5>1
      <4> QED  BY <4>1, <4>2
    <3> HIDE DEF s
    <3>4. s \in EMTs /\ s # e
      BY <3>1, <3>2, <3>3 DEF EMTs
    <3>5. \A d \in EMTs : Before(d, s) <=> d = e \/ Before(d, e)
      BY <3>1, <3>3 DEF Before
    <3>6. ~Before(s, e) /\ ~Before(s, s)
      BY <3>1, <3>3 DEF Before
    <3>7. pc[s] = "turn"
      BY <3>0, <3>4, <3>6 DEF Turned
    <3>8. \A d \in EMTs \ {s} : ~ordered'[d]
      <4>1. ordered' = [ordered EXCEPT ![s] = TRUE]
        BY <2>5, <2>6 DEF s
      <4> QED  BY <1>0, <3>0, <4>1 DEF TypeOK, Turned
    <3>9. ASSUME NEW d \in EMTs \ {s}
          PROVE  IF Before(d, s) THEN pc'[d] \in {"caller", "done"} ELSE pc'[d] = "turn"
      <4>1. CASE d = e
        BY <1>1, <3>5, <4>1
      <4>2. CASE d # e
        BY <1>1, <3>0, <3>5, <4>2 DEF Turned
      <4> QED  BY <4>1, <4>2
    <3> QED  BY <3>4, <3>7, <3>8, <3>9 DEF s
  <2>7. ASSUME NEW d \in EMTs  PROVE TurnOf(d)'
    <3>0. TurnOf(d) /\ TurnOf(e)
      BY <2>0
    <3>1. pc'[d] = "tell" => \A b \in EMTs \ {d} : pc'[b] \in {"next", "caller", "done"}
      BY <1>1, <3>0 DEF TurnOf
    <3>2. pc'[d] = "next" => d # e /\ pc[d] = "next" /\ my'[d] = my[d]
      BY <1>1, <1>3
    <3>3. flags.type # "ALL_AT_ONCE" /\ Busy(d)' => FALSE
      <4>1. flags.type # "ALL_AT_ONCE" => \A b \in EMTs \ {e} : pc[b] \in WaitingPcs
        BY <2>4, <3>0 DEF TurnOf, Alone
      <4> QED  BY <1>1, <2>4, <4>1 DEF Busy, WaitingPcs, ActivePcs
    <3>4. ASSUME flags.type \in Ordered, ordered'[d]  PROVE Turned(d)' /\ pc'[d] = "turn"
      <4>1. d = Successor(e)
        BY <2>6, <3>4
      <4>2. pc'[d] = "turn"
        BY <1>1, <2>6, <3>4, <4>1
      <4>3. \A b \in EMTs \ {d} : ~ordered'[b] /\ IF Before(b, d) THEN pc'[b] \in {"caller", "done"}
                                                                ELSE pc'[b] = "turn"
        BY <2>6, <3>4, <4>1
      <4>4. \A b \in EMTs : Before(b, d)' <=> Before(b, d)
        BY <1>2 DEF Before
      <4> QED  BY <4>2, <4>3, <4>4 DEF Turned
    <3>5. flags.type \in Ordered => flags.type # "ALL_AT_ONCE"
      BY DEF Ordered
    <3>6. flags.type = "ONE_BY_ONE" => flags.type # "ALL_AT_ONCE"
      OBVIOUS
    <3> QED  BY <1>2, <3>0, <3>1, <3>2, <3>3, <3>4, <3>5, <3>6 DEF TurnOf
  <2>8. RunEach'
    BY <1>2, <2>0, <2>3, <2>7 DEF RunEach
  <2>9. Run'
    BY <1>2, <1>6, <2>0, <2>1, <2>2, <2>8 DEF Run, OutcomeIs
  <2> QED  BY <2>9 DEF Phase
<1>7. ASSUME Leave  PROVE Phase'
  <2>1. Gone' = Gone
    BY <1>1, <1>2 DEF Gone
  <2>2. \A d \in EMTs : Quiet(d)' <=> Quiet(d)
    BY <1>1 DEF Quiet
  <2>3. lock \in EMTs /\ \A d \in EMTs : LeaveOf(d)
    BY <1>7 DEF Leave
  <2>4. pc'[lock] \in {"result", "unlock"} => pc[lock] \in {"result", "unlock"}
    BY <1>1, <2>3
  <2>5. LeaveOf(e)'
    <3>1. doneCaller \/ pc[lock] \in {"result", "unlock"} => e = lock
      BY <1>1, <2>3 DEF LeaveOf, Quiet
    <3> QED  BY <1>1, <1>2, <2>4, <3>1 DEF LeaveOf, LeavePcs
  <2>6. ASSUME NEW d \in EMTs, d # e  PROVE LeaveOf(d)'
    <3>1. pc'[d] = pc[d] /\ my'[d] = my[d]
      BY <1>1, <1>3, <2>6
    <3> QED  BY <1>2, <2>2, <2>3, <2>4, <3>1 DEF LeaveOf
  <2>7. cReturned' = Cardinality(Gone')
    BY <1>2, <1>7, <2>1 DEF Leave
  <2> QED  BY <1>2, <1>7, <2>5, <2>6, <2>7, LeaveKeeps
<1>20. Counted
  BY <1>2, TypedCounters DEF Counted
<1> QED  BY <1>0, <1>2, <1>4, <1>6, <1>7, <1>20, InvStep DEF Acts, Step, TakingPart

-----------------------------------------------------------------------------
(* The return.                                                             *)

LEMMA TellDoneStep ==
    ASSUME RoundInv, NEW e \in EMTs, TellDone(e)
    PROVE  RoundInv'
<1> DEFINE l == IF my[e].caller THEN "caller" ELSE "leave"
<1>0. TypeOK /\ Knows(e) /\ Run
  BY PhaseOf DEF RoundInv, TellDone
<1>1. pc[e] = "tell" /\ pc'[e] = l /\ \A d \in EMTs \ {e} : pc'[d] = pc[d]
  BY <1>0, Goes DEF TellDone
<1>2. /\ UNCHANGED <<lock, ff, flags, status, cEntered, cDone, cReturned>>
      /\ UNCHANGED <<doneCaller, my, returned>>
      /\ done' = TRUE
  BY DEF TellDone, counters, history
<1>3. Knows(e)'
  BY <1>0, <1>1, <1>2 DEF Knows
<1>4. /\ cDone # 0
      /\ \A d \in EMTs \ {e} : pc[d] \in {"next", "caller", "done"} /\ (pc[d] = "next" => flags.type = "ALL_AT_ONCE")
  <2>1. CASE flags.type = "ONCE"
    <3>1. cDone = 1 /\ Alone(e)
      BY <1>0, <1>1, <2>1 DEF Run, RunOnce, Busy
    <3> QED  BY <1>0, <2>1, <3>1 DEF Run, RunOnce, Alone, WaitingPcs
  <2>2. CASE flags.type # "ONCE"
    <3>0. RunEach /\ TurnOf(e)
      BY <1>0, <2>2 DEF Run, RunEach
    <3>1. e \in Through /\ Through \in SUBSET EMTs
      BY <1>1 DEF Through
    <3>2. cDone # 0
      BY <3>0, <3>1, CountOf DEF RunEach
    <3>3. flags.type # "ALL_AT_ONCE" => Alone(e)
      BY <1>1, <3>0 DEF TurnOf, Busy
    <3> QED  BY <1>1, <3>0, <3>2, <3>3 DEF TurnOf, Alone, WaitingPcs
  <2> QED  BY <2>1, <2>2
<1>5. Leave'
  <2>1. pc'[e] = (IF e = lock THEN "caller" ELSE "leave")
    BY <1>0, <1>1 DEF Knows
  <2>2. \A d \in EMTs : pc'[d] \in {"next", "caller", "done", "leave"} /\ (pc'[d] = "next" => flags.type = "ALL_AT_ONCE")
    BY <1>1, <1>4
  <2>3. lock' \in EMTs /\ ~ff' /\ done' /\ ~doneCaller' /\ cDone' # 0 /\ OutcomeIs(returned', status') /\ cReturned' = 0
    BY <1>0, <1>2, <1>4 DEF Run
  <2>4. cReturned' = Cardinality(Gone')
    <3>1. Gone' = {}
      BY <2>2 DEF Gone
    <3>2. Gone' \in SUBSET EMTs
      BY <3>1
    <3>3. Cardinality(Gone') = 0
      BY <3>1, <3>2, CountOf
    <3> QED  BY <2>3, <3>3
  <2>5. \A d \in EMTs : LeaveOf(d)'
    BY <1>2, <2>2, <2>3 DEF LeaveOf, LeavePcs
  <2>6. OutcomeIs(returned, status)'
    BY <2>3 DEF OutcomeIs
  <2> QED  BY <2>3, <2>4, <2>5, <2>6 DEF Leave
<1>20. Counted
  BY <1>2, TypedCounters DEF Counted
<1> QED  BY <1>2, <1>3, <1>5, <1>20, InvStep DEF Acts, Step, TakingPart, Phase

LEMMA AwaitDoneStep ==
    ASSUME RoundInv, NEW e \in EMTs, AwaitDone(e)
    PROVE  RoundInv'
<1>0. TypeOK /\ Knows(e) /\ Leave
  BY PhaseOf DEF RoundInv, AwaitDone
<1>1. pc[e] = "done" /\ pc'[e] = "leave" /\ \A d \in EMTs \ {e} : pc'[d] = pc[d]
  BY <1>0, Goes DEF AwaitDone
<1>2. /\ UNCHANGED <<lock, ff, flags, status, cEntered, cDone, cReturned>>
      /\ UNCHANGED <<done, doneCaller, my, returned>>
  BY DEF AwaitDone, counters, events, history
<1>3. Knows(e)'
  BY <1>0, <1>1, <1>2 DEF Knows
<1>4. Phase'
  <2>1. Gone' = Gone
    BY <1>1, <1>2 DEF Gone
  <2>2. lock \in EMTs /\ lock # e /\ \A d \in EMTs : LeaveOf(d) /\ (Quiet(d)' <=> Quiet(d))
    BY <1>0, <1>1 DEF Leave, Knows, Quiet
  <2>3. \A d \in EMTs : LeaveOf(d)'
    BY <1>1, <1>2, <2>2 DEF LeaveOf, LeavePcs, Quiet
  <2> QED  BY <1>0, <1>2, <2>1, <2>3, LeaveKeeps DEF Leave
<1>20. Counted
  BY <1>2, TypedCounters DEF Counted
<1> QED  BY <1>2, <1>3, <1>4, <1>20, InvStep DEF Acts, Step, TakingPart

LEMMA ReadStatusStep ==
    ASSUME RoundInv, NEW e \in EMTs, ReadStatus(e)
    PROVE  RoundInv'
<1>0. TypeOK /\ Knows(e) /\ Leave
  BY PhaseOf DEF RoundInv, ReadStatus
<1>1. pc[e] = "leave" /\ pc'[e] = "return" /\ \A d \in EMTs \ {e} : pc'[d] = pc[d]
  BY <1>0, Goes DEF ReadStatus
<1>2. /\ UNCHANGED <<lock, ff, flags, status, cEntered, cDone, cReturned>>
      /\ UNCHANGED <<done, doneCaller, returned>>
  BY DEF ReadStatus, counters, events, history
<1>3. /\ my'[e].rc = NonCallerStatus(status) /\ my'[e].want = my[e].want /\ my'[e].flags = my[e].flags
      /\ my'[e].caller = my[e].caller
      /\ \A d \in EMTs \ {e} : my'[d] = my[d]
  <2>1. my[e] \in MyRecs
    BY <1>0 DEF TypeOK, MyRecs
  <2>2. my'[e] = [my[e] EXCEPT !.rc = NonCallerStatus(status)] /\ \A d \in EMTs \ {e} : my'[d] = my[d]
    BY <1>0 DEF TypeOK, ReadStatus
  <2> QED  BY <2>1, <2>2 DEF MyRecs
<1>4. Knows(e)'
  BY <1>0, <1>1, <1>2, <1>3 DEF Knows
<1>5. Phase'
  <2>1. Gone' = Gone
    BY <1>1, <1>2 DEF Gone
  <2>2. lock \in EMTs /\ lock # e /\ \A d \in EMTs : LeaveOf(d) /\ (Quiet(d)' <=> Quiet(d))
    BY <1>0, <1>1 DEF Leave, Knows, Quiet
  <2>3. \A d \in EMTs : LeaveOf(d)'
    BY <1>1, <1>2, <1>3, <2>2 DEF LeaveOf, LeavePcs, Quiet
  <2> QED  BY <1>0, <1>2, <2>1, <2>3, LeaveKeeps DEF Leave
<1>20. Counted
  BY <1>2, TypedCounters DEF Counted
<1> QED  BY <1>2, <1>4, <1>5, <1>20, InvStep DEF Acts, Step, TakingPart

LEMMA BackIs ==
    ASSUME TypeOK, NEW e \in EMTs, Back(e)
    PROVE  /\ Quiet(e)' /\ \A d \in EMTs \ {e} : pc'[d] = pc[d] /\ my'[d] = my[d]
           /\ my'[e].want = my[e].want /\ my'[e].caller = FALSE
<1>1. pc'[e] \in {"idle", "lock"} /\ \A d \in EMTs \ {e} : pc'[d] = pc[d]
  BY Goes DEF Back
<1>2. /\ my'[e] = [Nobody EXCEPT !.want = my[e].want, !.calls = my[e].calls]
      /\ \A d \in EMTs \ {e} : my'[d] = my[d]
  BY DEF Back, TypeOK
<1>3. my'[e].want = my[e].want /\ my'[e].caller = FALSE
  BY <1>2 DEF Nobody
<1> QED  BY <1>1, <1>2, <1>3 DEF Quiet

\* The one that leaves is counted; the last one leaves the caller alone.
LEMMA GoneAre ==
    ASSUME RoundInv, Leave, NEW e \in EMTs, e # lock, e \notin Gone
    PROVE  /\ Gone \in SUBSET EMTs
           /\ Cardinality(Gone \cup {e}) = cReturned + 1 /\ cReturned + 1 \in 0 .. cCpus - 1
           /\ cReturned + 1 = cCpus - 1 => Gone \cup {e} = EMTs \ {lock}
<1>1. lock \in EMTs /\ Gone \in SUBSET EMTs /\ Gone \cup {e} \in SUBSET EMTs /\ lock \notin Gone \cup {e}
  BY DEF Leave, Gone
<1>2. Cardinality(Gone \cup {e}) = cReturned + 1
  BY <1>1, CountOne DEF Leave
<1>3. /\ Cardinality(Gone \cup {e} \cup {lock}) = cReturned + 1 + 1
      /\ cReturned + 1 \in 0 .. cCpus - 1
  BY <1>1, <1>2, CountOne
<1>4. ASSUME cReturned + 1 = cCpus - 1  PROVE Gone \cup {e} = EMTs \ {lock}
  <2>1. Cardinality(Gone \cup {e} \cup {lock}) = cCpus
    BY <1>3, <1>4, CpusAre
  <2>2. Gone \cup {e} \cup {lock} \in SUBSET EMTs
    BY <1>1
  <2>3. Gone \cup {e} \cup {lock} = EMTs
    BY <2>1, <2>2, CountOf
  <2> QED  BY <1>1, <2>3
<1> QED  BY <1>1, <1>2, <1>3, <1>4

LEMMA CountReturnStep ==
    ASSUME RoundInv, NEW e \in EMTs, CountReturn(e)
    PROVE  RoundInv'
<1>0. TypeOK /\ Knows(e) /\ Leave
  BY PhaseOf DEF RoundInv, CountReturn
<1>1. /\ pc[e] = "return" /\ \A d \in EMTs \ {e} : pc'[d] = pc[d] /\ my'[d] = my[d]
      /\ IF cReturned' = cCpus - 1 THEN pc'[e] = "wake" /\ my' = my
         ELSE Quiet(e)' /\ my'[e].want = my[e].want /\ my'[e].caller = FALSE
  <2>1. CASE cReturned' = cCpus - 1
    BY <1>0, <2>1, Goes DEF CountReturn
  <2>2. CASE cReturned' # cCpus - 1
    BY <1>0, <2>2, BackIs DEF CountReturn
  <2> QED  BY <2>1, <2>2
<1>2. /\ UNCHANGED <<lock, ff, flags, status, cEntered, cDone>>
      /\ UNCHANGED <<done, doneCaller, returned>>
      /\ cReturned' = cReturned + 1
  BY DEF CountReturn, events, history
<1>3. lock \in EMTs /\ lock # e /\ e \notin Gone /\ \A d \in EMTs : LeaveOf(d)
  BY <1>0, <1>1 DEF Leave, Knows, Gone
<1>4. pc'[e] \in {"idle", "lock", "wake"}
  BY <1>1 DEF Quiet
<1>5. Gone' = Gone \cup {e}
  BY <1>1, <1>2, <1>3, <1>4 DEF Gone
<1>6. /\ cReturned' = Cardinality(Gone') /\ cReturned' \in 0 .. cCpus - 1
      /\ cReturned' = cCpus - 1 => Gone \cup {e} = EMTs \ {lock}
  BY <1>0, <1>2, <1>3, <1>5, GoneAre
<1>7. Knows(e)'
  <2>1. CASE cReturned' = cCpus - 1
    BY <1>0, <1>1, <1>2, <2>1 DEF Knows
  <2>2. CASE cReturned' # cCpus - 1
    BY <1>0, <1>1, <1>2, <1>3, <2>2 DEF Knows, Quiet
  <2> QED  BY <2>1, <2>2
<1>8. Phase'
  <2>1. ~doneCaller /\ pc[lock] \notin {"result", "unlock"} /\ \A d \in EMTs : pc[d] # "wake"
    BY <1>1, <1>3 DEF LeaveOf, Quiet
  <2>2. \A d \in EMTs \ {e, lock} : cReturned' = cCpus - 1 => Quiet(d)'
    BY <1>1, <1>6, <2>1 DEF Gone, Quiet
  <2>3. LeaveOf(e)'
    BY <1>1, <1>2, <1>3, <1>4, <2>1, <2>2 DEF LeaveOf, LeavePcs, Quiet
  <2>4. ASSUME NEW d \in EMTs, d # e  PROVE LeaveOf(d)'
    BY <1>1, <1>2, <1>3, <2>1, <2>4 DEF LeaveOf
  <2> QED  BY <1>0, <1>2, <1>6, <2>3, <2>4, LeaveKeeps
<1>20. Counted
  BY <1>2, <1>6, TypedCounters DEF Counted
<1> QED  BY <1>2, <1>7, <1>8, <1>20, InvStep DEF Acts, Step, TakingPart

LEMMA WakeCallerStep ==
    ASSUME RoundInv, NEW e \in EMTs, WakeCaller(e)
    PROVE  RoundInv'
<1>0. TypeOK /\ Knows(e) /\ Leave
  BY PhaseOf DEF RoundInv, WakeCaller
<1>1. /\ pc[e] = "wake" /\ \A d \in EMTs \ {e} : pc'[d] = pc[d] /\ my'[d] = my[d]
      /\ Quiet(e)' /\ my'[e].want = my[e].want /\ my'[e].caller = FALSE
  BY <1>0, BackIs DEF WakeCaller
<1>2. /\ UNCHANGED <<lock, ff, flags, status, cEntered, cDone, cReturned>>
      /\ UNCHANGED <<done, returned>>
  BY DEF WakeCaller, counters, history
<1>3. lock \in EMTs /\ lock # e /\ \A d \in EMTs : LeaveOf(d)
  BY <1>0, <1>1 DEF Leave, Knows
<1>4. Knows(e)'
  BY <1>0, <1>1, <1>2, <1>3 DEF Knows, Quiet
<1>5. Phase'
  <2>1. Gone' = Gone
    BY <1>1, <1>2, <1>3 DEF Gone, Quiet
  <2>2. \A d \in EMTs \ {lock} : Quiet(d)' /\ pc'[d] \in {"idle", "lock"}
    BY <1>1, <1>3 DEF LeaveOf, Quiet
  <2>3. LeaveOf(lock)'
    BY <1>1, <1>2, <1>3, <2>2 DEF LeaveOf
  <2>4. ASSUME NEW d \in EMTs, d # lock  PROVE LeaveOf(d)'
    BY <2>2, <2>4 DEF LeaveOf, LeavePcs
  <2>5. \A d \in EMTs : LeaveOf(d)'
    BY <1>1, <1>2, <1>3, <2>2, <2>4 DEF LeaveOf
  <2>6. cReturned' = Cardinality(Gone')
    BY <1>0, <1>2, <2>1 DEF Leave
  <2> QED  BY <1>0, <1>2, <2>5, <2>6, LeaveKeeps
<1>20. Counted
  BY <1>2, TypedCounters DEF Counted
<1> QED  BY <1>2, <1>4, <1>5, <1>20, InvStep DEF Acts, Step, TakingPart

LEMMA CallerWakesStep ==
    ASSUME RoundInv, NEW e \in EMTs, CallerWakes(e)
    PROVE  RoundInv'
<1>0. TypeOK /\ Knows(e) /\ Leave
  BY PhaseOf DEF RoundInv, CallerWakes
<1>1. pc[e] = "caller" /\ pc'[e] = "result" /\ \A d \in EMTs \ {e} : pc'[d] = pc[d]
  BY <1>0, Goes DEF CallerWakes
<1>2. /\ UNCHANGED <<lock, ff, flags, status, cEntered, cDone, cReturned>>
      /\ UNCHANGED <<done, my, returned>>
  BY DEF CallerWakes, counters, history
<1>3. Knows(e)'
  BY <1>0, <1>1, <1>2 DEF Knows
<1>4. Phase'
  <2>1. lock = e
    BY <1>0, <1>1 DEF Knows
  <2>2. Gone' = Gone
    BY <1>1, <1>2, <2>1 DEF Gone
  <2>3. \A d \in EMTs \ {e} : Quiet(d) /\ LeaveOf(d)
    BY <1>0, <2>1 DEF Leave, LeaveOf, CallerWakes
  <2>4. \A d \in EMTs : LeaveOf(d)'
    BY <1>1, <1>2, <2>1, <2>3 DEF LeaveOf, LeavePcs, Quiet
  <2> QED  BY <1>0, <1>2, <2>2, <2>4, LeaveKeeps DEF Leave
<1>20. Counted
  BY <1>2, TypedCounters DEF Counted
<1> QED  BY <1>2, <1>3, <1>4, <1>20, InvStep DEF Acts, Step, Calling

LEMMA ResultStep ==
    ASSUME RoundInv, NEW e \in EMTs, Result(e)
    PROVE  RoundInv'
<1>0. TypeOK /\ Knows(e) /\ Leave
  BY PhaseOf DEF RoundInv, Result
<1>1. pc[e] = "result" /\ pc'[e] = "unlock" /\ \A d \in EMTs \ {e} : pc'[d] = pc[d]
  BY <1>0, Goes DEF Result
<1>2. /\ UNCHANGED <<lock, ff, flags, status, cEntered, cDone, cReturned>>
      /\ UNCHANGED <<done, doneCaller, returned>>
  BY DEF Result, counters, events, history
<1>3. /\ my'[e].rc = status /\ my'[e].want = my[e].want /\ my'[e].flags = my[e].flags
      /\ my'[e].caller = my[e].caller
      /\ \A d \in EMTs \ {e} : my'[d] = my[d]
  <2>1. my[e] \in MyRecs
    BY <1>0 DEF TypeOK, MyRecs
  <2>2. my'[e] = [my[e] EXCEPT !.rc = status] /\ \A d \in EMTs \ {e} : my'[d] = my[d]
    BY <1>0 DEF TypeOK, Result
  <2> QED  BY <2>1, <2>2 DEF MyRecs
<1>4. Knows(e)'
  BY <1>0, <1>1, <1>2, <1>3 DEF Knows
<1>5. Phase'
  <2>1. lock = e
    BY <1>0, <1>1 DEF Knows
  <2>2. Gone' = Gone
    BY <1>1, <1>2, <2>1 DEF Gone
  <2>3. \A d \in EMTs \ {e} : Quiet(d) /\ LeaveOf(d)
    BY <1>0, <1>1, <2>1 DEF Leave, LeaveOf
  <2>4. \A d \in EMTs : LeaveOf(d)'
    BY <1>1, <1>2, <1>3, <2>1, <2>3 DEF LeaveOf, LeavePcs, Quiet
  <2> QED  BY <1>0, <1>2, <2>2, <2>4, LeaveKeeps DEF Leave
<1>20. Counted
  BY <1>2, TypedCounters DEF Counted
<1> QED  BY <1>2, <1>4, <1>5, <1>20, InvStep DEF Acts, Step, Calling

LEMMA UnlockStep ==
    ASSUME RoundInv, NEW e \in EMTs, Unlock(e)
    PROVE  RoundInv'
<1>0. TypeOK /\ Knows(e) /\ Leave
  BY PhaseOf DEF RoundInv, Unlock
<1>1. pc[e] = "unlock" /\ pc'[e] = "idle" /\ \A d \in EMTs \ {e} : pc'[d] = pc[d]
  BY <1>0, Goes DEF Unlock
<1>2. /\ UNCHANGED <<ff, flags, cEntered, cDone, cReturned>>
      /\ lock = e /\ lock' = NoBody /\ returned' = <<>> /\ my'[e] = Nobody
  BY <1>0, <1>1 DEF Unlock, counters, Knows, TypeOK
<1>3. Knows(e)'
  <2>1. ~my'[e].want.stop /\ my'[e].caller = FALSE
    BY <1>2 DEF Nobody, NoFlags
  <2>2. e # lock'
    BY <1>2, CpusAre
  <2> QED  BY <1>1, <2>1, <2>2 DEF Knows
<1>4. Free'
  BY <1>0, <1>1, <1>2 DEF Leave, LeaveOf, Free, Quiet
<1>20. Counted
  BY <1>2, TypedCounters DEF Counted
<1> QED  BY <1>2, <1>3, <1>4, <1>20, InvStep DEF Acts, Step, Calling, Phase

-----------------------------------------------------------------------------
(* The invariant.                                                          *)

LEMMA RoundInvInit == Init => RoundInv
<1> SUFFICES ASSUME Init  PROVE RoundInv
  OBVIOUS
<1>0. NoFlags \in Flags /\ 0 \in Rets /\ 0 \in 0 .. cCpus /\ 0 \in 0 .. cCpus - 1 /\ 0 \in 0 .. MaxRounds
  BY CpusAre, RetsAre, RoundsAssumption DEF NoFlags, Flags, Types
<1>1. Nobody \in MyRecs /\ ~Nobody.want.stop /\ Nobody.caller = FALSE
  BY <1>0 DEF Nobody, MyRecs, NoFlags
<1>2. TypeOK
  <2>1. "idle" \in Pcs
    BY DEF Pcs, AwayPcs
  <2>2. my \in [EMTs -> MyRecs] /\ pc \in [EMTs -> Pcs] /\ ordered \in [EMTs -> BOOLEAN]
    BY <1>1, <2>1 DEF Init
  <2>3. returned \in Seq(Statuses)
    BY DEF Init
  <2> QED  BY <1>0, <2>2, <2>3 DEF Init, TypeOK, MyRecs
<1>3. \A e \in EMTs : Knows(e)
  BY <1>1, CpusAre DEF Init, Knows
<1>4. Free
  BY DEF Init, Free, Quiet
<1>5. flags.stop => MayStop(flags.type)
  BY DEF Init, NoFlags
<1> QED  BY <1>2, <1>3, <1>4, <1>5 DEF RoundInv, Phase

LEMMA RoundInvNext == RoundInv /\ [Next]_vars => RoundInv'
<1> SUFFICES ASSUME RoundInv, [Next]_vars  PROVE RoundInv'
  OBVIOUS
<1>1. ASSUME NEW e \in EMTs, Calling(e)  PROVE RoundInv'
  BY <1>1, TakeLockStep, ResetEventsStep, ClearSlateStep, RaiseStep, CallerWakesStep, ResultStep, UnlockStep
     DEF Calling
<1>2. ASSUME NEW e \in EMTs, TakingPart(e)  PROVE RoundInv'
  BY <1>2, FFStep, EnterStep, LastStep, TakeTurnStep, CallHandlerStep, HandlerReturnsStep, CountDoneStep,
     SignalNextStep, TellDoneStep, AwaitDoneStep, ReadStatusStep, CountReturnStep, WakeCallerStep
     DEF TakingPart
<1>3. ASSUME NEW e \in EMTs, NEW f \in Flags, VMMR3EmtRendezvous(e, f)  PROVE RoundInv'
  BY <1>3, CallStep
<1>4. CASE UNCHANGED vars
  <2>1. /\ UNCHANGED <<lock, ff, flags, status, cEntered, cDone, cReturned>>
        /\ UNCHANGED <<oneByOne, allAtOnce, ordered, done, doneCaller>>
        /\ UNCHANGED <<pc, my, rounds, returned>>
    BY <1>4 DEF vars
  <2>2. TypeOK'
    BY <2>1 DEF RoundInv, TypeOK
  <2>3. \A e \in EMTs : Knows(e)'
    BY <2>1 DEF RoundInv, Knows
  <2>4. (flags.stop => MayStop(flags.type))'
    BY <2>1 DEF RoundInv, MayStop
  <2>5. Entered' = Entered /\ Through' = Through /\ Gone' = Gone
    BY <2>1 DEF Entered, Through, Gone
  <2>6. /\ OutcomeIs(returned, status)' <=> OutcomeIs(returned, status)
        /\ NoEvents' <=> NoEvents
        /\ \A e \in EMTs : Quiet(e)' <=> Quiet(e)
    BY <2>1 DEF OutcomeIs, NoEvents, Quiet
  <2>7. Free => Free'
    BY <2>1, <2>6 DEF Free
  <2>8. Prepare => Prepare'
    BY <2>1, <2>6 DEF Prepare
  <2>9. Gather => Gather'
    BY <2>1, <2>5, <2>6 DEF Gather
  <2>10. Run => Run'
    <3>1. RunOnce => RunOnce'
      BY <2>1 DEF RunOnce, Busy, Alone
    <3>2. \A e \in EMTs : TurnOf(e) => TurnOf(e)'
      BY <2>1 DEF TurnOf, Busy, Alone, Turned, Before
    <3>3. RunEach => RunEach'
      BY <2>1, <2>5, <3>2 DEF RunEach
    <3> QED  BY <2>1, <2>6, <3>1, <3>3 DEF Run
  <2>11. Leave => Leave'
    <3>1. \A e \in EMTs : LeaveOf(e) => LeaveOf(e)'
      BY <2>1 DEF LeaveOf, Quiet
    <3> QED  BY <2>1, <2>5, <2>6, <3>1 DEF Leave
  <2>12. Phase'
    BY <2>7, <2>8, <2>9, <2>10, <2>11 DEF RoundInv, Phase
  <2> QED  BY <2>2, <2>3, <2>4, <2>12 DEF RoundInv
<1> QED  BY <1>1, <1>2, <1>3, <1>4 DEF Next, Step

\* In every reachable state the rendezvous is in one of its phases, with every
\* EMT where that phase lets it be.
THEOREM RoundInvCorrect == Spec => []RoundInv
<1> QED  BY RoundInvInit, RoundInvNext, PTL DEF Spec

LEMMA PhaseAssertions == RoundInv => Assertions
<1> SUFFICES ASSUME RoundInv  PROVE Assertions
  OBVIOUS
<1>1. ASSUME NEW e \in EMTs, pc[e] \in {"reset", "slate", "raise"}  PROVE ~ff
  BY <1>1, PhaseOf DEF Prepare
<1>2. ASSUME NEW e \in EMTs, pc[e] = "next", Type(e) \in Ordered
      PROVE  my[e].cDone = IF Type(e) = "ASCENDING" THEN e + 1 ELSE cCpus - e
  <2>1. Type(e) = flags.type
    BY <1>2 DEF RoundInv, Knows, Type
  <2>2. ~Leave
    BY <1>2, <2>1 DEF Leave, LeaveOf, Ordered
  <2>3. Run
    BY <1>2, <2>2, PhaseOf
  <2>4. TurnOf(e)
    BY <1>2, <2>1, <2>3 DEF Run, RunEach, Ordered
  <2> QED  BY <1>2, <2>1, <2>4 DEF TurnOf, Ordered
<1>3. \A e \in EMTs : pc[e] = "next" /\ Type(e) = "DESCENDING" => cCpus - my[e].cDone = e
  <2> SUFFICES ASSUME NEW e \in EMTs, pc[e] = "next", Type(e) = "DESCENDING"  PROVE cCpus - my[e].cDone = e
    OBVIOUS
  <2>1. my[e].cDone = cCpus - e
    BY <1>2 DEF Ordered
  <2> QED  BY <2>1, CpusAre
<1>4. \A e \in EMTs : pc[e] = "next" /\ Type(e) = "ASCENDING" => my[e].cDone = e + 1
  BY <1>2 DEF Ordered
<1> QED  BY <1>1, <1>3, <1>4 DEF Assertions, RoundInv

\* The types hold, the force flag is not pending for whoever has taken the spin
\* lock, and the turns of an ordered rendezvous count the EMTs.
THEOREM AssertionsCorrect == Spec => []Assertions
<1> QED  BY RoundInvCorrect, PhaseAssertions, PTL

LEMMA OutcomeAgrees == RoundInv => OutcomeAgreed
<1> SUFFICES ASSUME RoundInv, NEW e \in EMTs, pc[e] \in {"return", "wake", "unlock"}
             PROVE  /\ pc[e] = "unlock" => my[e].rc = Outcome
                    /\ pc[e] \in {"return", "wake"} => my[e].rc = IF Outcome < 0 THEN 0 ELSE Outcome
  BY DEF OutcomeAgreed
<1>1. Leave /\ returned \in Seq(Statuses)
  BY PhaseOf DEF RoundInv, TypeOK
<1>2. /\ pc[e] = "unlock" => my[e].rc = status
      /\ pc[e] \in {"return", "wake"} => my[e].rc = NonCallerStatus(status)
      /\ OutcomeIs(returned, status)
  BY <1>1 DEF Leave, LeaveOf
<1>3. Outcome = status
  BY <1>1, <1>2, OutcomeUnique
<1> QED  BY <1>2, <1>3 DEF NonCallerStatus

\* The caller of a rendezvous returns with its outcome, the first failure or the
\* scheduling status of the highest priority, and every other EMT with the same
\* unless it is a failure, which is success for them.
THEOREM OutcomeAgreedCorrect == Spec => []OutcomeAgreed
<1> QED  BY RoundInvCorrect, OutcomeAgrees, PTL

-----------------------------------------------------------------------------
(* The gathering it implements.                                            *)

\* Where the gathering sees an EMT.
PlaceFacts(e) ==
    /\ pc[e] \in {"idle", "lock", "reset", "slate", "raise", "enter", "wake"} => Place(e) = "away"
    /\ pc[e] \in {"last", "turn", "handler", "over"} => Place(e) = "here"
    /\ pc[e] \in {"inside", "finished"} => Place(e) = "inside"
    /\ pc[e] \in {"next", "tell", "leave", "return", "result", "unlock"} => Place(e) = "through"
    /\ pc[e] \in {"caller", "done"}
         => Place(e) = IF my[e].flags.type = "ONCE" /\ cDone = 0 THEN "here" ELSE "through"

LEMMA PlaceIs ==
    ASSUME NEW e \in EMTs
    PROVE  PlaceFacts(e) /\ PlaceFacts(e)'
<1>1. PlaceFacts(e)
  BY DEF PlaceFacts, Place, AwayPcs, HerePcs, WaitPcs, InsidePcs, Type
<1>2. PlaceFacts(e)'
  BY DEF PlaceFacts, Place, AwayPcs, HerePcs, WaitPcs, InsidePcs, Type
<1> QED  BY <1>1, <1>2

LEMMA PlacesAre == \A e \in EMTs : Places[e] = Place(e)
BY DEF Places

LEMMA Stutters ==
    ASSUME flags' = flags, \A d \in EMTs : Place(d)' = Place(d)
    PROVE  UNCHANGED G!vars
<1>1. Places' = Places
  BY DEF Places
<1> QED  BY <1>1 DEF G!vars

LEMMA Moves ==
    ASSUME flags' = flags, NEW e \in EMTs, NEW x, Place(e)' = x, \A d \in EMTs \ {e} : Place(d)' = Place(d)
    PROVE  G!Move(e, x)
<1>1. Places' = [Places EXCEPT ![e] = x]
  BY DEF Places
<1> QED  BY <1>1 DEF G!Move

LEMMA OthersStay ==
    ASSUME TypeOK, NEW e \in EMTs, Acts(e), Counted, cDone' = cDone
    PROVE  \A d \in EMTs \ {e} : Place(d)' = Place(d)
<1> SUFFICES ASSUME NEW d \in EMTs \ {e}  PROVE Place(d)' = Place(d)
  OBVIOUS
<1>1. pc'[d] = pc[d] /\ my'[d] = my[d]
  BY PcStep, MyStep DEF Acts, Counted
<1> QED  BY <1>1 DEF Place, Type

LEMMA CountedNext == RoundInv' => Counted
BY DEF RoundInv, TypeOK, Counted

\* Whose turn it is to run the handler, or to pass it over.
LEMMA TurnIs ==
    ASSUME RoundInv, Run, NEW e \in EMTs, pc[e] \in {"handler", "over"}
    PROVE  G!Turn(e) /\ Place(e) = "here"
<1>1. Place(e) = "here"
  BY PlaceIs DEF PlaceFacts
<1>2. \A d \in EMTs : Place(d) \in {"here", "inside", "through"}
  BY PlaceIs DEF PlaceFacts, Run, RunPcs, ActivePcs, WaitingPcs
<1>3. Busy(e) /\ pc[e] \in ActivePcs
  BY DEF Busy, ActivePcs
<1>4. flags.type # "ALL_AT_ONCE" => \A d \in EMTs \ {e} : pc[d] \in WaitingPcs
  BY <1>3 DEF Run, RunOnce, RunEach, TurnOf, Alone
<1>5. flags.type # "ALL_AT_ONCE" => \A d \in EMTs : Place(d) \in {"here", "through"}
  BY <1>1, <1>4, PlaceIs DEF PlaceFacts, WaitingPcs
<1>6. flags.type = "ONCE" => \A d \in EMTs : Place(d) = "here"
  <2> SUFFICES ASSUME flags.type = "ONCE", NEW d \in EMTs \ {e}  PROVE Place(d) = "here"
    BY <1>1
  <2>1. cDone = 0 /\ pc[d] \in WaitingPcs /\ pc[d] # "turn"
    BY <1>3, <1>4 DEF Run, RunOnce
  <2>2. my[d].flags = flags
    BY <2>1 DEF RoundInv, Knows, WaitingPcs
  <2> QED  BY <2>1, <2>2, PlaceIs DEF PlaceFacts, WaitingPcs
<1>7. ASSUME flags.type \in Ordered, NEW d \in EMTs  PROVE Place(d) = "through" <=> (d # e /\ Before(d, e))
  <2>1. Turned(e)
    BY <1>3, <1>7 DEF Run, RunEach, TurnOf, Ordered
  <2>2. CASE d = e
    BY <1>1, <2>2
  <2>3. CASE d # e
    <3>1. IF Before(d, e) THEN pc[d] \in {"caller", "done"} ELSE pc[d] = "turn"
      BY <2>1, <2>3 DEF Turned
    <3>2. my[d].flags = flags
      BY <3>1 DEF RoundInv, Knows
    <3> QED  BY <1>7, <2>3, <3>1, <3>2, PlaceIs DEF PlaceFacts, Ordered
  <2> QED  BY <2>2, <2>3
<1>8. \A d \in EMTs : d \in Int
  BY CpusAre
<1>9. flags.type = "ASCENDING" => {d \in EMTs : Places[d] = "through"} = {d \in EMTs : d < e}
  <2>1. ASSUME flags.type = "ASCENDING", NEW d \in EMTs  PROVE Places[d] = "through" <=> d < e
    BY <1>7, <1>8, <2>1, PlacesAre DEF Before, Ordered
  <2> QED  BY <2>1
<1>10. flags.type = "DESCENDING" => {d \in EMTs : Places[d] = "through"} = {d \in EMTs : d > e}
  <2>1. ASSUME flags.type = "DESCENDING", NEW d \in EMTs  PROVE Places[d] = "through" <=> d > e
    BY <1>7, <1>8, <2>1, PlacesAre DEF Before, Ordered
  <2> QED  BY <2>1
<1>11. flags.type = "ONCE" => {d \in EMTs : Places[d] = "through"} = {}
  BY <1>6, PlacesAre
<1> QED  BY <1>1, <1>2, <1>5, <1>9, <1>10, <1>11, PlacesAre DEF G!Turn, G!All

LEMMA ClearSlateCalls ==
    ASSUME RoundInv, RoundInv', NEW e \in EMTs, ClearSlate(e)
    PROVE  G!Call
<1>1. /\ TypeOK /\ Prepare /\ e = lock
      /\ pc[e] = "slate" /\ pc'[e] = "raise" /\ \A d \in EMTs \ {e} : pc'[d] = pc[d]
  BY PhaseOf, Goes DEF RoundInv, ClearSlate
<1>2. \A d \in EMTs : Place(d) = "away" /\ Place(d)' = "away"
  BY <1>1, PlaceIs DEF PlaceFacts, Prepare, Quiet
<1>3. UNCHANGED Places
  BY <1>2 DEF Places
<1>4. flags'.type \in Types
  BY DEF RoundInv, TypeOK, Flags
<1> QED  BY <1>2, <1>3, <1>4, PlacesAre DEF G!Call, G!All, Types

LEMMA EnterComes ==
    ASSUME RoundInv, RoundInv', NEW e \in EMTs, Enter(e)
    PROVE  G!Come(e)
<1> DEFINE l == IF cEntered' = cCpus THEN "last"
                ELSE IF Type(e) # "ONCE" THEN "turn"
                ELSE IF my[e].caller THEN "caller" ELSE "done"
<1>1. /\ TypeOK /\ Knows(e) /\ Gather
      /\ pc[e] = "enter" /\ pc'[e] = l
  BY PhaseOf, Goes DEF RoundInv, Enter
<1>2. UNCHANGED <<flags, cDone, my>> /\ cDone = 0
  BY <1>1 DEF Enter, Gather
<1>3. Place(e) = "away" /\ Place(e)' = "here"
  BY <1>1, <1>2, PlaceIs DEF PlaceFacts, Type
<1>4. \A d \in EMTs : Place(d) \in {"away", "here"}
  BY <1>1, <1>2, PlaceIs DEF PlaceFacts, Gather, WaitingPcs, RoundInv, Knows
<1>5. \A d \in EMTs \ {e} : Place(d)' = Place(d)
  BY <1>1, <1>2, OthersStay, CountedNext DEF Acts, Step, TakingPart
<1>6. G!Move(e, "here")
  BY <1>2, <1>3, <1>5, Moves
<1> QED  BY <1>3, <1>4, <1>6, PlacesAre DEF G!Come, G!All

LEMMA CallHandlerBegins ==
    ASSUME RoundInv, RoundInv', NEW e \in EMTs, CallHandler(e)
    PROVE  G!Begin(e) \/ UNCHANGED G!vars
<1>1. /\ TypeOK /\ Run /\ pc[e] = "handler"
      /\ pc'[e] = IF Stopped(e) THEN "over" ELSE "inside"
  BY PhaseOf, Goes DEF RoundInv, CallHandler, ActivePcs
<1>2. UNCHANGED <<flags, cDone>>
  BY DEF CallHandler, counters
<1>3. \A d \in EMTs \ {e} : Place(d)' = Place(d)
  BY <1>1, <1>2, OthersStay, CountedNext DEF Acts, Step, TakingPart
<1>4. CASE Stopped(e)
  <2>1. Place(e)' = Place(e)
    BY <1>1, <1>4, PlaceIs DEF PlaceFacts
  <2> QED  BY <1>2, <1>3, <2>1, Stutters
<1>5. CASE ~Stopped(e)
  <2>1. Place(e)' = "inside"
    BY <1>1, <1>5, PlaceIs DEF PlaceFacts
  <2>2. G!Move(e, "inside")
    BY <1>2, <1>3, <2>1, Moves
  <2>3. G!Turn(e) /\ Place(e) = "here"
    BY <1>1, TurnIs
  <2> QED  BY <2>2, <2>3, PlacesAre DEF G!Begin
<1> QED  BY <1>4, <1>5

LEMMA CountDoneEnds ==
    ASSUME RoundInv, RoundInv', NEW e \in EMTs, CountDone(e)
    PROVE  G!PassOver(e) \/ G!End(e)
<1>1. /\ TypeOK /\ Run /\ pc[e] \in {"over", "finished"}
      /\ pc'[e] \in {"tell", "next"} /\ \A d \in EMTs \ {e} : pc'[d] = pc[d]
  BY PhaseOf, Goes DEF RoundInv, CountDone, ActivePcs
<1>2. flags' = flags /\ cDone' = cDone + 1 /\ cDone \in Nat
  BY <1>1 DEF CountDone, TypeOK
<1>3. Place(e)' = "through"
  BY <1>1, PlaceIs DEF PlaceFacts
<1>4. \A d \in EMTs : pc[d] \in RunPcs /\ pc'[d] \in RunPcs /\ my[d].flags = flags /\ my'[d].flags = flags
  <2>1. \A d \in EMTs : pc[d] \in RunPcs /\ pc'[d] \in RunPcs
    BY <1>1 DEF Run, RunPcs
  <2> QED  BY <1>2, <2>1 DEF RoundInv, Knows, RunPcs, ActivePcs, WaitingPcs
<1>5. ASSUME flags.type # "ONCE"  PROVE G!Move(e, "through")
  <2>1. \A d \in EMTs \ {e} : Place(d)' = Place(d)
    BY <1>1, <1>4, <1>5 DEF Place, Type
  <2> QED  BY <1>2, <1>3, <2>1, Moves
<1>6. CASE pc[e] = "over"
  <2>1. flags.stop /\ status < 0 /\ status # 0 /\ flags.type \notin {"ALL_AT_ONCE", "ONCE"}
    <3>1. flags.stop /\ status < 0 /\ status \in Int
      BY <1>1, <1>6, RetsAre DEF Run, TypeOK
    <3> QED  BY <3>1 DEF RoundInv, MayStop
  <2>2. RunEach /\ TurnOf(e)
    BY <1>1, <2>1 DEF Run, RunEach
  <2>3. \A d \in EMTs : pc[d] # "finished"
    BY <1>6, <2>1, <2>2 DEF TurnOf, Busy, Alone, ActivePcs, WaitingPcs
  <2>4. cDone # 0
    BY <1>1, <2>1, <2>3 DEF Run
  <2>5. PICK d \in EMTs : d \in Through
    <3>1. Through \in SUBSET EMTs /\ Through # {}
      <4>1. Through \in SUBSET EMTs
        BY DEF Through
      <4> QED  BY <2>2, <2>4, <4>1, CountOf DEF RunEach
    <3> QED  BY <3>1
  <2>6. Place(d) = "through"
    BY <1>4, <2>1, <2>5, PlaceIs DEF PlaceFacts, Through
  <2>7. G!Turn(e) /\ Place(e) = "here"
    BY <1>1, <1>6, TurnIs
  <2> QED  BY <1>5, <2>1, <2>6, <2>7, PlacesAre DEF G!PassOver
<1>7. CASE pc[e] = "finished"
  <2>1. Place(e) = "inside"
    BY <1>7, PlaceIs DEF PlaceFacts
  <2>2. CASE flags.type = "ONCE"
    <3>1. \A d \in EMTs \ {e} : pc'[d] \in {"caller", "done"}
      BY <1>1, <1>7, <2>2 DEF Run, RunOnce, Busy, Alone, ActivePcs, WaitingPcs
    <3>2. cDone' # 0
      BY <1>2
    <3>3. \A d \in EMTs : Place(d)' = "through"
      BY <1>3, <3>1, <3>2, PlaceIs DEF PlaceFacts
    <3>4. Places' = [d \in EMTs |-> "through"]
      BY <3>3 DEF Places
    <3> QED  BY <1>2, <2>1, <2>2, <3>4, PlacesAre DEF G!End
  <2>3. CASE flags.type # "ONCE"
    BY <1>5, <2>1, <2>3, PlacesAre DEF G!End
  <2> QED  BY <2>2, <2>3
<1> QED  BY <1>1, <1>6, <1>7

LEMMA LeavingPlaces ==
    ASSUME RoundInv, Leave, NEW d \in EMTs
    PROVE  Place(d) \in {"through", "away"}
BY PlaceIs DEF Leave, LeaveOf, LeavePcs, PlaceFacts

LEMMA CountReturnGoes ==
    ASSUME RoundInv, RoundInv', NEW e \in EMTs, CountReturn(e)
    PROVE  G!Go(e)
<1>1. TypeOK /\ Leave /\ pc[e] = "return" /\ pc'[e] \in {"wake", "lock", "idle"}
  BY PhaseOf, Goes DEF RoundInv, CountReturn, Back
<1>2. UNCHANGED <<flags, cDone>>
  BY DEF CountReturn
<1>3. Place(e) = "through" /\ Place(e)' = "away"
  BY <1>1, PlaceIs DEF PlaceFacts
<1>4. \A d \in EMTs \ {e} : Place(d)' = Place(d)
  BY <1>1, <1>2, OthersStay, CountedNext DEF Acts, Step, TakingPart
<1>5. G!Move(e, "away")
  BY <1>2, <1>3, <1>4, Moves
<1> QED  BY <1>1, <1>3, <1>5, LeavingPlaces, PlacesAre DEF G!Go, G!All

LEMMA UnlockGoes ==
    ASSUME RoundInv, RoundInv', NEW e \in EMTs, Unlock(e)
    PROVE  G!Go(e)
<1>1. TypeOK /\ Leave /\ pc[e] = "unlock" /\ pc'[e] = "idle"
  BY PhaseOf, Goes DEF RoundInv, Unlock
<1>2. UNCHANGED <<flags, cDone>>
  BY DEF Unlock, counters
<1>3. Place(e) = "through" /\ Place(e)' = "away"
  BY <1>1, PlaceIs DEF PlaceFacts
<1>4. \A d \in EMTs \ {e} : Place(d)' = Place(d)
  BY <1>1, <1>2, OthersStay, CountedNext DEF Acts, Step, Calling
<1>5. G!Move(e, "away")
  BY <1>2, <1>3, <1>4, Moves
<1> QED  BY <1>1, <1>3, <1>5, LeavingPlaces, PlacesAre DEF G!Go, G!All

\* All else the gathering does not see.
LEMMA OtherStutters ==
    ASSUME RoundInv, RoundInv', NEW e \in EMTs,
           \/ TakeLock(e) \/ ResetEvents(e) \/ Raise(e) \/ CallerWakes(e) \/ Result(e)
           \/ VMMR3EmtRendezvousFF(e) \/ Last(e) \/ TakeTurn(e) \/ SignalNext(e) \/ TellDone(e)
           \/ (\E rc \in Statuses : HandlerReturns(e, rc))
           \/ AwaitDone(e) \/ ReadStatus(e) \/ WakeCaller(e)
           \/ (\E f \in Flags : VMMR3EmtRendezvous(e, f))
    PROVE  UNCHANGED G!vars
<1>0. TypeOK /\ Acts(e) /\ Counted
  BY CountedNext DEF RoundInv, Acts, Step, Calling, TakingPart
<1>1. UNCHANGED <<flags, cDone>>
  <2> USE DEF counters
  <2>1. CASE TakeLock(e) \/ ResetEvents(e) \/ Raise(e) \/ CallerWakes(e) \/ Result(e)
    BY <2>1 DEF TakeLock, ResetEvents, Raise, CallerWakes, Result
  <2>2. CASE VMMR3EmtRendezvousFF(e) \/ Last(e) \/ TakeTurn(e) \/ SignalNext(e) \/ TellDone(e)
    BY <2>2 DEF VMMR3EmtRendezvousFF, Last, TakeTurn, SignalNext, TellDone
  <2>3. CASE (\E rc \in Statuses : HandlerReturns(e, rc)) \/ (\E f \in Flags : VMMR3EmtRendezvous(e, f))
    BY <2>3 DEF HandlerReturns, VMMR3EmtRendezvous
  <2>4. CASE AwaitDone(e) \/ ReadStatus(e) \/ WakeCaller(e)
    BY <2>4 DEF AwaitDone, ReadStatus, WakeCaller
  <2> QED  BY <2>1, <2>2, <2>3, <2>4
<1>2. \A d \in EMTs \ {e} : Place(d)' = Place(d)
  BY <1>0, <1>1, OthersStay
<1>3. Place(e)' = Place(e)
  <2>1. CASE TakeLock(e) \/ ResetEvents(e) \/ Raise(e)
    BY <1>0, <2>1, Goes, PlaceIs DEF TakeLock, ResetEvents, Raise, PlaceFacts
  <2>2. CASE VMMR3EmtRendezvousFF(e) \/ (\E f \in Flags : VMMR3EmtRendezvous(e, f))
    BY <1>0, <2>2, Goes, PlaceIs DEF VMMR3EmtRendezvousFF, VMMR3EmtRendezvous, PlaceFacts
  <2>3. CASE WakeCaller(e)
    BY <1>0, <2>3, BackIs, PlaceIs DEF WakeCaller, PlaceFacts, Quiet
  <2>4. CASE Last(e) \/ TakeTurn(e)
    <3>1. pc[e] \in {"last", "turn"} /\ pc'[e] \in {"turn", "handler"}
      BY <1>0, <2>4, Goes DEF Last, TakeTurn
    <3> QED  BY <3>1, PlaceIs DEF PlaceFacts
  <2>5. CASE (\E rc \in Statuses : HandlerReturns(e, rc)) \/ ReadStatus(e) \/ Result(e)
    BY <1>0, <2>5, Goes, PlaceIs DEF HandlerReturns, ReadStatus, Result, PlaceFacts
  <2>6. CASE AwaitDone(e) \/ CallerWakes(e)
    <3>1. pc[e] \in {"done", "caller"} /\ pc'[e] \in {"leave", "result"} /\ (done \/ doneCaller)
      BY <1>0, <2>6, Goes DEF AwaitDone, CallerWakes
    <3>2. cDone # 0
      BY <3>1, PhaseOf DEF Leave
    <3> QED  BY <3>1, <3>2, PlaceIs DEF PlaceFacts
  <2>7. CASE TellDone(e)
    <3>1. pc[e] = "tell" /\ pc'[e] \in {"caller", "leave"} /\ Run
      BY <1>0, <2>7, Goes, PhaseOf DEF TellDone
    <3>2. cDone' # 0
      <4>1. CASE flags.type = "ONCE"
        BY <1>1, <3>1, <4>1 DEF Run, RunOnce
      <4>2. CASE flags.type # "ONCE"
        <5>1. e \in Through /\ Through \in SUBSET EMTs /\ cDone = Cardinality(Through)
          BY <3>1, <4>2 DEF Through, Run, RunEach
        <5> QED  BY <1>1, <5>1, CountOf
      <4> QED  BY <4>1, <4>2
    <3> QED  BY <3>1, <3>2, PlaceIs DEF PlaceFacts
  <2>8. CASE SignalNext(e)
    <3>1. pc[e] = "next" /\ pc'[e] \in {"caller", "done"} /\ (Run \/ Leave)
      BY <1>0, <2>8, Goes, PhaseOf DEF SignalNext
    <3>2. flags.type # "ONCE"
      BY <3>1 DEF Run, RunOnce, Leave, LeaveOf
    <3>3. my'[e].flags = flags'
      BY <3>1 DEF RoundInv, Knows
    <3> QED  BY <1>1, <3>1, <3>2, <3>3, PlaceIs DEF PlaceFacts
  <2> QED  BY <2>1, <2>2, <2>3, <2>4, <2>5, <2>6, <2>7, <2>8
<1> QED  BY <1>1, <1>2, <1>3, Stutters

LEMMA GatheringInit == Init => G!Init
<1> SUFFICES ASSUME Init  PROVE G!Init
  OBVIOUS
<1>1. \A e \in EMTs : Place(e) = "away"
  BY PlaceIs DEF Init, PlaceFacts
<1> QED  BY <1>1 DEF G!Init, Init, Places, NoFlags

LEMMA GatheringNext == RoundInv /\ RoundInv' /\ [Next]_vars => [G!Next]_(G!vars)
<1> SUFFICES ASSUME RoundInv, RoundInv', [Next]_vars  PROVE G!Next \/ UNCHANGED G!vars
  OBVIOUS
<1>1. ASSUME NEW e \in EMTs, Calling(e)  PROVE G!Next \/ UNCHANGED G!vars
  BY <1>1, OtherStutters, ClearSlateCalls, UnlockGoes DEF Calling, G!Next
<1>2. ASSUME NEW e \in EMTs, TakingPart(e)  PROVE G!Next \/ UNCHANGED G!vars
  BY <1>2, OtherStutters, EnterComes, CallHandlerBegins, CountDoneEnds, CountReturnGoes DEF TakingPart, G!Next
<1>3. ASSUME NEW e \in EMTs, \E f \in Flags : VMMR3EmtRendezvous(e, f)  PROVE UNCHANGED G!vars
  BY <1>3, OtherStutters
<1>4. CASE UNCHANGED vars
  <2>1. \A e \in EMTs : Place(e)' = Place(e)
    BY <1>4 DEF vars, Place, Type
  <2> QED  BY <1>4, <2>1, Stutters DEF vars
<1> QED  BY <1>1, <1>2, <1>3, <1>4 DEF Next, Step

\* The rendezvous is the gathering that is promised: nobody begins before all have
\* come, the handler is run in the order asked for and once by each or by one, and
\* nobody comes to the next before all have gone.
THEOREM GatheringImplemented == Spec => ImplementsGathering
<1> QED  BY RoundInvCorrect, GatheringInit, GatheringNext, PTL DEF Spec, ImplementsGathering, G!Spec
=============================================================================
