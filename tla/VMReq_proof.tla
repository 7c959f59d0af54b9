----------------------------- MODULE VMReq_proof -----------------------------
(***************************************************************************)
(* Proofs about VMReq, for all callers, virtual CPUs, packets and calls:   *)
(* no request is left on a list that nobody is told of, no EMT that is     *)
(* told sleeps on, a packet is in one place and is what is asserted there, *)
(* and every request is run once and in order.  They hold of CarefulSpec:  *)
(* where no EMT's own call fails that was made without waiting, of Spec.   *)
(***************************************************************************)
EXTENDS VMReq, FiniteSetTheorems, SequenceTheorems, TLAPS

CallPcs == {"idle", "queue", "ff", "notify", "wakeup", "poll", "wait", "check", "done"}
TakePcs == {"clearff", "take", "putback", "ffagain", "process"}
HaltPcs == {"test", "block", "reset"}
EMTPcs  == TakePcs \cup HaltPcs \cup {"run", "return", "notify", "again", "signal", "loop", "halt"}

\* What a caller and an EMT know: the request of a call under way and where it
\* goes, whom to notify; an EMT takes only from the queues it serves.
CallRecs == [pc : CallPcs, p : Packets \cup {NoPacket}, n : Nat, dst : Seq(Queues), cpus : Seq(EMTs)]
EMTRecs  == [pc : EMTPcs, q : Queues, p : Packets \cup {NoPacket}, rest : Seq(Packets), own : BOOLEAN]

CallOk(t) == /\ call[t].pc # "idle" => call[t].p \in Packets /\ call[t].dst # <<>>
             /\ call[t].pc \in {"notify", "wakeup"} => call[t].cpus # <<>>

EMTOk(e) == /\ Serves(e, emt[e].q)
            /\ emt[e].pc \in HaltPcs => fWait[e]

ControlInv ==
    /\ reqs \in [Queues -> Seq(Packets)] /\ ff \in [Queues -> BOOLEAN]
    /\ call \in [Callers -> CallRecs] /\ emt \in [EMTs -> EMTRecs]
    /\ fWait \in [EMTs -> BOOLEAN] /\ haltEvent \in [EMTs -> BOOLEAN]
    /\ calls \in Nat
    /\ \A t \in Callers : CallOk(t)
    /\ \A e \in EMTs : EMTOk(e)

FlagInv == ControlInv /\ NoRequestStranded /\ NoLostWakeup

-----------------------------------------------------------------------------
(* Control.                                                                *)

\* The virtual CPUs in a row: there is one at least.
LEMMA AllCpusType == AllCpus \in Seq(EMTs) /\ AllCpus # <<>>
<1> DEFINE n == Cardinality(EMTs)
<1>1. n \in Nat /\ n # 0 /\ ExistsBijection(1 .. n, EMTs)
  BY EMTsAssumption, FS_CardinalityType, FS_EmptySet
<1>2. \E f \in [1 .. n -> EMTs] : IsInjective(f)
  BY <1>1 DEF ExistsBijection, Bijection, Injection, IsInjective
<1>3. AllCpus \in [1 .. n -> EMTs]
  BY <1>2 DEF AllCpus, SetToSeq
<1> QED  BY <1>1, <1>3

\* What the sequences of a call and of an EMT become.
LEMMA EmptyIsSeq == \A S : <<>> \in Seq(S)
OBVIOUS

LEMMA TailOfLonger ==
    ASSUME NEW S, NEW s \in Seq(S), Len(s) > 1
    PROVE  Tail(s) \in Seq(S) /\ Tail(s) # <<>>
<1>1. s # <<>> /\ Len(Tail(s)) = Len(s) - 1 /\ Tail(s) \in Seq(S)
  OBVIOUS
<1>2. Len(Tail(s)) # 0
  BY <1>1
<1>3. Len(<<>>) = 0
  OBVIOUS
<1> QED  BY <1>1, <1>2, <1>3

\* A call with virtual CPUs to be notified.
LEMMA NotifyRec ==
    ASSUME NEW c \in CallRecs, NEW cpus \in Seq(EMTs)
    PROVE  LET r == [c EXCEPT !.pc = "notify", !.cpus = cpus]
           IN  r \in CallRecs /\ r.p = c.p /\ r.dst = c.dst /\ r.cpus = cpus
BY DEF CallRecs, CallPcs

\* A step of a caller.
LEMMA CallerControl ==
    ASSUME ControlInv, NEW t \in Callers, NEW r \in CallRecs, call' = [call EXCEPT ![t] = r],
           r.pc # "idle" => r.p \in Packets /\ r.dst # <<>>,
           r.pc \in {"notify", "wakeup"} => r.cpus # <<>>,
           reqs' \in [Queues -> Seq(Packets)], ff' \in [Queues -> BOOLEAN],
           haltEvent' \in [EMTs -> BOOLEAN], calls' \in Nat, UNCHANGED <<emt, fWait>>
    PROVE  ControlInv'
<1>1. call' \in [Callers -> CallRecs]
  BY DEF ControlInv
<1>2. ASSUME NEW u \in Callers PROVE CallOk(u)'
  BY DEF CallOk, ControlInv
<1>3. \A e \in EMTs : EMTOk(e)'
  BY DEF EMTOk, ControlInv
<1> QED  BY <1>1, <1>2, <1>3 DEF ControlInv

\* Where a caller goes on with what it knows.
LEMMA CallerGoesOn ==
    ASSUME ControlInv, NEW t \in Callers, NEW label \in CallPcs \ {"notify"}, CallGoto(t, label),
           call[t].pc # "idle", label = "wakeup" => call[t].cpus # <<>>,
           reqs' \in [Queues -> Seq(Packets)], UNCHANGED <<ff, haltEvent, calls, emt, fWait>>
    PROVE  ControlInv'
<1> DEFINE r == [call[t] EXCEPT !.pc = label]
<1>1. r \in CallRecs /\ r.pc = label /\ r.p = call[t].p /\ r.dst = call[t].dst /\ r.cpus = call[t].cpus
  BY DEF ControlInv, CallRecs
<1>2. call' = [call EXCEPT ![t] = r]
  BY DEF CallGoto
<1> HIDE DEF r
<1>3. CallOk(t) /\ ff' \in [Queues -> BOOLEAN] /\ haltEvent' \in [EMTs -> BOOLEAN] /\ calls' \in Nat
  BY DEF ControlInv
<1> QED  BY <1>1, <1>2, <1>3, CallerControl DEF CallOk

\* The record of one who has notified a virtual CPU.
LEMMA NotifiedControl ==
    ASSUME ControlInv, NEW t \in Callers, Notified(t), call[t].pc \in {"notify", "wakeup"},
           haltEvent' \in [EMTs -> BOOLEAN], UNCHANGED <<reqs, ff, calls, emt, fWait>>
    PROVE  ControlInv'
<1>1. /\ call[t] \in CallRecs /\ call[t].p \in Packets /\ call[t].dst # <<>> /\ call[t].cpus # <<>>
      /\ call[t].cpus \in Seq(EMTs)
      /\ reqs' \in [Queues -> Seq(Packets)] /\ ff' \in [Queues -> BOOLEAN] /\ calls' \in Nat
  BY DEF ControlInv, CallOk, CallRecs
<1>2. CASE Len(call[t].cpus) > 1
  <2>1. PICK cpus \in Seq(EMTs) : cpus = Tail(call[t].cpus) /\ cpus # <<>>
    BY <1>1, <1>2, TailOfLonger
  <2> DEFINE r == [call[t] EXCEPT !.pc = "notify", !.cpus = cpus]
  <2>2. r \in CallRecs /\ r.p = call[t].p /\ r.dst = call[t].dst /\ r.cpus = cpus
    BY <1>1, NotifyRec
  <2>3. call' = [call EXCEPT ![t] = r]
    BY <1>2, <2>1 DEF Notified
  <2> HIDE DEF r
  <2> QED  BY <1>1, <2>1, <2>2, <2>3, CallerControl
<1>3. CASE ~(Len(call[t].cpus) > 1) /\ t \notin Waiters
  <2>1. call' = [call EXCEPT ![t] = NoCall]
    BY <1>3 DEF Notified
  <2>2. NoCall \in CallRecs /\ NoCall.pc = "idle"
    BY DEF NoCall, CallRecs, CallPcs
  <2> QED  BY <1>1, <2>1, <2>2, CallerControl
<1>4. CASE ~(Len(call[t].cpus) > 1) /\ t \in Waiters
  <2>1. PICK label \in {"poll", "wait"} : call' = [call EXCEPT ![t] = [call[t] EXCEPT !.pc = label, !.cpus = <<>>]]
    BY <1>4 DEF Notified
  <2> DEFINE r == [call[t] EXCEPT !.pc = label, !.cpus = <<>>]
  <2>2. r \in CallRecs /\ r.p = call[t].p /\ r.dst = call[t].dst /\ r.pc = label
    BY <1>1, EmptyIsSeq DEF CallRecs, CallPcs
  <2>3. call' = [call EXCEPT ![t] = r]
    BY <2>1
  <2> HIDE DEF r
  <2> QED  BY <1>1, <2>2, <2>3, CallerControl
<1> QED  BY <1>2, <1>3, <1>4

\* Every step of a caller.
LEMMA CallingControl ==
    ASSUME ControlInv, NEW t \in Callers, Begin(t) \/ Calling(t)
    PROVE  ControlInv'
<1>1. /\ call[t] \in CallRecs /\ CallOk(t) /\ call[t].dst \in Seq(Queues) /\ call[t].p \in Packets \cup {NoPacket}
      /\ reqs \in [Queues -> Seq(Packets)] /\ ff \in [Queues -> BOOLEAN]
      /\ haltEvent \in [EMTs -> BOOLEAN] /\ calls \in Nat
  BY DEF ControlInv, CallRecs
<1>2. CASE Begin(t)
  <2>1. PICK p \in Packets, dst \in Dests : VMR3ReqCallVU(t, p, dst)
    BY <1>2 DEF Begin
  <2> DEFINE r == [pc |-> "queue", p |-> p, n |-> calls', dst |-> Targets(dst), cpus |-> <<>>]
  <2>2. Targets(dst) \in Seq(Queues) /\ Targets(dst) # <<>>
    <3>1. AllCpus \in Seq(Queues) /\ AllCpus # <<>>
      BY AllCpusType DEF Queues
    <3>2. dst # ALL => dst \in Queues
      BY QueuesAssumption
    <3>3. dst # ALL => <<dst>> \in Seq(Queues) /\ <<dst>> # <<>>
      BY <3>2
    <3> QED  BY <3>1, <3>3 DEF Targets
  <2>3. call' = [call EXCEPT ![t] = r] /\ calls' \in Nat /\ UNCHANGED <<queues, emt, halts>>
    BY <1>1, <2>1 DEF VMR3ReqCallVU, Allocated
  <2>4. r \in CallRecs /\ r.pc = "queue" /\ r.p \in Packets /\ r.dst # <<>>
    BY <2>2, <2>3 DEF CallRecs, CallPcs
  <2> HIDE DEF r
  <2> QED  BY <1>1, <2>3, <2>4, CallerControl DEF queues, halts
<1>3. CASE Push(t)
  <2>1. Head(call[t].dst) \in Queues /\ call[t].p \in Packets
    BY <1>1, <1>3 DEF CallOk, Push, CallAt
  <2>2. reqs' \in [Queues -> Seq(Packets)]
    BY <1>1, <1>3, <2>1 DEF Push
  <2> QED  BY <1>3, <2>2, CallerGoesOn DEF Push, CallAt, halts, CallPcs
<1>4. CASE SetFF(t)
  <2> DEFINE q == Head(call[t].dst)
             cpus == IF q = ANY THEN AllCpus ELSE <<q>>
             r == [call[t] EXCEPT !.pc = "notify", !.cpus = cpus]
  <2>1. q \in Queues /\ call[t].p \in Packets /\ call[t].dst # <<>>
    BY <1>1, <1>4 DEF CallOk, SetFF, CallAt
  <2>2. cpus \in Seq(EMTs) /\ cpus # <<>>
    BY <2>1, AllCpusType DEF Queues
  <2>3. call' = [call EXCEPT ![t] = r] /\ ff' \in [Queues -> BOOLEAN]
    BY <1>1, <1>4, <2>1 DEF SetFF
  <2>4. r \in CallRecs /\ r.p = call[t].p /\ r.dst = call[t].dst /\ r.cpus = cpus
    BY <1>1, <2>2, NotifyRec
  <2> HIDE DEF r
  <2> QED  BY <1>1, <1>4, <2>1, <2>2, <2>3, <2>4, CallerControl DEF SetFF, halts
<1>5. CASE NotifyCpuFF(t)
  <2>1. CASE CallGoto(t, "wakeup")
    BY <1>1, <1>5, <2>1, CallerGoesOn DEF NotifyCpuFF, CallAt, CallOk, queues, halts, CallPcs
  <2>2. CASE Notified(t)
    BY <1>1, <1>5, <2>2, NotifiedControl DEF NotifyCpuFF, CallAt, queues, halts
  <2> QED  BY <1>5, <2>1, <2>2 DEF NotifyCpuFF
<1>6. CASE SchedWakeUp(t)
  BY <1>1, <1>6, NotifiedControl DEF SchedWakeUp, CallAt, queues
<1>7. CASE PollWoken(t) \/ PollTimesOut(t)
  BY <1>1, <1>7, CallerGoesOn DEF PollWoken, PollTimesOut, CallAt, queues, halts, CallPcs
<1>8. CASE Woken(t)
  BY <1>1, <1>8, CallerGoesOn DEF Woken, CallAt, queues, halts, CallPcs
<1>9. CASE Check(t)
  <2>1. PICK label \in {"done", "wait"} : CallGoto(t, label)
    BY <1>9 DEF Check
  <2> QED  BY <1>1, <1>9, <2>1, CallerGoesOn DEF Check, CallAt, queues, halts, CallPcs
<1>10. CASE NextCpu(t)
  <2>1. Len(call[t].dst) > 1 /\ call[t].p \in Packets
    BY <1>1, <1>10 DEF NextCpu, CallOk, CallAt
  <2> DEFINE dst == call[t].dst
             rest == Tail(dst)
             r == [call[t] EXCEPT !.pc = "queue", !.dst = rest]
  <2>2. rest \in Seq(Queues) /\ rest # <<>>
    <3>1. dst \in Seq(Queues) /\ Len(dst) > 1
      BY <1>1, <2>1
    <3> HIDE DEF dst
    <3> QED  BY <3>1, TailOfLonger
  <2>3. call' = [call EXCEPT ![t] = r] /\ UNCHANGED <<queues, emt, halts, calls>>
    BY <1>10 DEF NextCpu
  <2>4. r \in CallRecs /\ r.p = call[t].p /\ r.dst = rest /\ r.pc = "queue"
    <3> HIDE DEF rest
    <3> QED  BY <1>1, <2>2 DEF CallRecs, CallPcs
  <2> HIDE DEF r, rest
  <2> QED  BY <1>1, <2>1, <2>2, <2>3, <2>4, CallerControl DEF queues, halts
<1>11. CASE VMR3ReqFree(t)
  <2>1. NoCall \in CallRecs /\ NoCall.pc = "idle"
    BY DEF NoCall, CallRecs, CallPcs
  <2> QED  BY <1>1, <1>11, <2>1, CallerControl DEF VMR3ReqFree, queues, halts
<1> QED  BY <1>2, <1>3, <1>4, <1>5, <1>6, <1>7, <1>8, <1>9, <1>10, <1>11 DEF Calling

\* A step of an EMT.
LEMMA EMTControl ==
    ASSUME ControlInv, NEW e \in EMTs, NEW r \in EMTRecs, emt' = [emt EXCEPT ![e] = r],
           Serves(e, r.q), r.pc \in HaltPcs => fWait'[e],
           \A d \in EMTs \ {e} : fWait'[d] = fWait[d],
           reqs' \in [Queues -> Seq(Packets)], ff' \in [Queues -> BOOLEAN],
           fWait' \in [EMTs -> BOOLEAN], haltEvent' \in [EMTs -> BOOLEAN], calls' \in Nat,
           UNCHANGED call
    PROVE  ControlInv'
<1>1. emt' \in [EMTs -> EMTRecs]
  BY DEF ControlInv
<1>2. ASSUME NEW d \in EMTs PROVE EMTOk(d)'
  BY DEF EMTOk, ControlInv
<1>3. \A t \in Callers : CallOk(t)'
  BY DEF CallOk, ControlInv
<1> QED  BY <1>1, <1>2, <1>3 DEF ControlInv

\* Where an EMT goes on with what it knows.
LEMMA EMTGoesOn ==
    ASSUME ControlInv, NEW e \in EMTs, NEW label \in EMTPcs, EMTGoto(e, label),
           label \in HaltPcs => fWait'[e],
           \A d \in EMTs \ {e} : fWait'[d] = fWait[d],
           ff' \in [Queues -> BOOLEAN],
           fWait' \in [EMTs -> BOOLEAN], haltEvent' \in [EMTs -> BOOLEAN],
           UNCHANGED <<reqs, call, calls>>
    PROVE  ControlInv'
<1> DEFINE r == [emt[e] EXCEPT !.pc = label]
<1>1. r \in EMTRecs /\ r.pc = label /\ r.q = emt[e].q
  BY DEF ControlInv, EMTRecs
<1>2. emt' = [emt EXCEPT ![e] = r]
  BY DEF EMTGoto
<1> HIDE DEF r
<1>3. Serves(e, emt[e].q) /\ reqs' \in [Queues -> Seq(Packets)] /\ calls' \in Nat
  BY DEF ControlInv, EMTOk
<1> QED  BY <1>1, <1>2, <1>3, EMTControl

\* What an EMT does after it has freed a packet nobody waits for.
LEMMA AfterFree ==
    ASSUME ControlInv, NEW e \in EMTs, FreeNoWait(e)
    PROVE  \E r \in EMTRecs : /\ emt' = [emt EXCEPT ![e] = r]
                             /\ r.pc \in {"run", "loop", "again"} /\ ~r.own
                             /\ r.rest \in {<<>>, emt[e].rest} /\ Serves(e, r.q)
<1>1. emt[e] \in EMTRecs /\ Serves(e, emt[e].q) /\ Serves(e, ANY)
  BY DEF ControlInv, EMTOk, Serves
<1>2. Runs \in EMTRecs /\ Runs.pc = "run" /\ Runs.q = ANY /\ Runs.rest = <<>> /\ ~Runs.own
  BY EmptyIsSeq DEF Runs, EMTRecs, EMTPcs, Queues
<1>3. CASE ~emt[e].own /\ emt' = [emt EXCEPT ![e] = [emt[e] EXCEPT !.pc = "loop", !.p = NoPacket]]
  <2> DEFINE r == [emt[e] EXCEPT !.pc = "loop", !.p = NoPacket]
  <2>1. r \in EMTRecs /\ r.pc = "loop" /\ ~r.own /\ r.rest = emt[e].rest /\ r.q = emt[e].q
    BY <1>1, <1>3 DEF EMTRecs, EMTPcs
  <2>2. emt' = [emt EXCEPT ![e] = r]
    BY <1>3
  <2> HIDE DEF r
  <2> QED  BY <1>1, <2>1, <2>2
<1>4. CASE emt' = [emt EXCEPT ![e] = Runs]
  BY <1>1, <1>2, <1>4
<1>5. CASE emt' = [emt EXCEPT ![e] = [Runs EXCEPT !.pc = "again", !.p = emt[e].p]]
  <2> DEFINE r == [Runs EXCEPT !.pc = "again", !.p = emt[e].p]
  <2>1. r \in EMTRecs /\ r.pc = "again" /\ ~r.own /\ r.rest = <<>> /\ r.q = ANY
    BY <1>1, <1>2 DEF EMTRecs, EMTPcs
  <2>2. emt' = [emt EXCEPT ![e] = r]
    BY <1>5
  <2> HIDE DEF r
  <2> QED  BY <1>1, <2>1, <2>2
<1> QED  BY <1>3, <1>4, <1>5 DEF FreeNoWait

\* Every step of an EMT.
LEMMA ProcessingControl ==
    ASSUME ControlInv, NEW e \in EMTs, BeginOwn(e) \/ Processing(e)
    PROVE  ControlInv'
<1> USE DEF EMTPcs, TakePcs, HaltPcs
<1>1. /\ emt[e] \in EMTRecs /\ EMTOk(e) /\ emt[e].q \in Queues /\ Serves(e, emt[e].q)
      /\ reqs \in [Queues -> Seq(Packets)] /\ ff \in [Queues -> BOOLEAN]
      /\ fWait \in [EMTs -> BOOLEAN] /\ haltEvent \in [EMTs -> BOOLEAN] /\ calls \in Nat
  BY DEF ControlInv, EMTRecs, EMTOk
<1>2. Runs \in EMTRecs /\ Runs.pc = "run" /\ Serves(e, Runs.q)
  BY DEF Runs, EMTRecs, Queues, Serves
<1>3. CASE BeginOwn(e)
  <2>1. PICK p \in Packets, nw \in BOOLEAN : OwnCall(e, p, nw)
    BY <1>3 DEF BeginOwn
  <2> DEFINE r == [emt[e] EXCEPT !.pc = "return", !.p = p, !.own = TRUE]
  <2>2. emt' = [emt EXCEPT ![e] = r] /\ calls' \in Nat /\ UNCHANGED <<queues, call, halts>>
    BY <1>1, <2>1 DEF OwnCall, Allocated
  <2>3. r \in EMTRecs /\ r.pc = "return" /\ r.q = emt[e].q
    BY <1>1 DEF EMTRecs
  <2> HIDE DEF r
  <2> QED  BY <1>1, <2>2, <2>3, EMTControl DEF queues, halts
<1>4. ASSUME NEW q \in Queues, VMR3ReqProcessU(e, q) PROVE ControlInv'
  <2> DEFINE r == [emt[e] EXCEPT !.pc = "clearff", !.q = q]
  <2>1. emt' = [emt EXCEPT ![e] = r] /\ Serves(e, q) /\ UNCHANGED <<queues, call, halts, calls>>
    BY <1>4 DEF VMR3ReqProcessU, Serves
  <2>2. r \in EMTRecs /\ r.pc = "clearff" /\ r.q = q
    BY <1>1 DEF EMTRecs
  <2> HIDE DEF r
  <2> QED  BY <1>1, <2>1, <2>2, EMTControl DEF queues, halts
<1>5. CASE ClearFF(e) \/ FFAgain(e)
  BY <1>1, <1>5, EMTGoesOn DEF ClearFF, FFAgain, EMTAt, halts
<1>6. CASE Take(e)
  <2> DEFINE list == reqs[emt[e].q]
             r == [emt[e] EXCEPT !.pc = IF Len(list) = 1 THEN "process" ELSE "putback",
                                 !.p = Last(list), !.rest = Front(list)]
  <2>1. reqs' \in [Queues -> Seq(Packets)] /\ list \in Seq(Packets)
    BY <1>1, <1>6 DEF Take
  <2>2. CASE list = <<>>
    BY <1>1, <1>2, <1>6, <2>1, <2>2, EMTControl DEF Take, halts
  <2>3. CASE list # <<>>
    <3>1. Len(list) \in Nat \ {0}
      BY <2>1, <2>3
    <3>2. Last(list) \in Packets /\ Front(list) \in Seq(Packets)
      BY <2>1, <3>1 DEF Last, Front
    <3>3. r \in EMTRecs /\ r.pc \in {"process", "putback"} /\ r.q = emt[e].q
      BY <1>1, <3>2 DEF EMTRecs
    <3>4. emt' = [emt EXCEPT ![e] = r]
      BY <1>6, <2>3 DEF Take
    <3> HIDE DEF r
    <3> QED  BY <1>1, <1>6, <2>1, <3>3, <3>4, EMTControl DEF Take, halts
  <2> QED  BY <2>2, <2>3
<1>7. CASE PutBack(e)
  <2> DEFINE r == [emt[e] EXCEPT !.pc = "ffagain", !.rest = <<>>]
  <2>1. r \in EMTRecs /\ r.pc = "ffagain" /\ r.q = emt[e].q
    BY <1>1, EmptyIsSeq DEF EMTRecs
  <2>2. reqs' \in [Queues -> Seq(Packets)] /\ emt' = [emt EXCEPT ![e] = r]
    BY <1>1, <1>7 DEF PutBack, EMTRecs
  <2> HIDE DEF r
  <2> QED  BY <1>1, <1>7, <2>1, <2>2, EMTControl DEF PutBack, halts
<1>8. CASE PutBackJoin(e)
  <2> DEFINE r == [emt[e] EXCEPT !.rest = Joined(e)]
  <2>1. Joined(e) \in Seq(Packets)
    BY <1>1 DEF Joined, EMTRecs
  <2>2. r \in EMTRecs /\ r.pc = "putback" /\ r.q = emt[e].q
    BY <1>1, <1>8, <2>1 DEF EMTRecs, PutBackJoin, EMTAt
  <2>3. reqs' \in [Queues -> Seq(Packets)] /\ emt' = [emt EXCEPT ![e] = r]
    BY <1>1, <1>8 DEF PutBackJoin
  <2> HIDE DEF r
  <2> QED  BY <1>1, <1>8, <2>2, <2>3, EMTControl DEF PutBackJoin, halts
<1>9. CASE Process(e) \/ Complete(e) \/ NotClear(e) \/ Signal(e)
  BY <1>1, <1>9, EMTGoesOn DEF Process, Complete, NotClear, Signal, queues, halts
<1>10. CASE FreeNoWait(e)
  <2>1. PICK r \in EMTRecs : /\ emt' = [emt EXCEPT ![e] = r]
                             /\ r.pc \in {"run", "loop", "again"} /\ Serves(e, r.q)
    BY <1>10, AfterFree
  <2>2. r.pc \notin HaltPcs
    BY <2>1
  <2>3. UNCHANGED <<queues, call, halts, calls>>
    BY <1>10 DEF FreeNoWait
  <2> QED  BY <1>1, <2>1, <2>2, <2>3, EMTControl DEF queues, halts
<1>11. CASE Loop(e)
  <2> DEFINE r == [Runs EXCEPT !.pc = "clearff", !.q = emt[e].q]
  <2>1. r \in EMTRecs /\ r.pc = "clearff" /\ r.q = emt[e].q
    BY <1>1, <1>2 DEF EMTRecs
  <2>2. emt' = [emt EXCEPT ![e] = r] \/ emt' = [emt EXCEPT ![e] = Runs]
    BY <1>11 DEF Loop
  <2>3. UNCHANGED <<queues, call, halts, calls>>
    BY <1>11 DEF Loop
  <2> HIDE DEF r
  <2>4. CASE emt' = [emt EXCEPT ![e] = r]
    BY <1>1, <2>1, <2>3, <2>4, EMTControl DEF queues, halts
  <2>5. CASE emt' = [emt EXCEPT ![e] = Runs]
    BY <1>1, <1>2, <2>3, <2>5, EMTControl DEF queues, halts
  <2> QED  BY <2>2, <2>4, <2>5
<1>12. CASE OwnFree(e) \/ FreeRefused(e)
  BY <1>1, <1>2, <1>12, EMTControl DEF OwnFree, FreeRefused, queues, halts
<1> QED  BY <1>3, <1>4, <1>5, <1>6, <1>7, <1>8, <1>9, <1>10, <1>11, <1>12 DEF Processing

LEMMA HaltingControl ==
    ASSUME ControlInv, NEW e \in EMTs, VMR3WaitU(e) \/ Halting(e)
    PROVE  ControlInv'
<1> USE DEF EMTPcs, TakePcs, HaltPcs
<1>1. /\ ff \in [Queues -> BOOLEAN] /\ fWait \in [EMTs -> BOOLEAN] /\ haltEvent \in [EMTs -> BOOLEAN]
      /\ EMTOk(e)
  BY DEF ControlInv
<1>2. CASE VMR3WaitU(e)
  BY <1>1, <1>2, EMTGoesOn DEF VMR3WaitU, queues, halts
<1>3. CASE Halt(e)
  BY <1>1, <1>3, EMTGoesOn DEF Halt, queues
<1>4. CASE Test(e)
  <2>1. fWait[e]
    BY <1>1, <1>4 DEF Test, EMTAt, EMTOk
  <2>2. PICK label \in {"run", "block", "reset"} :
          EMTGoto(e, label) /\ (label # "run" => UNCHANGED fWait)
    BY <1>4 DEF Test
  <2>3. /\ \A d \in EMTs \ {e} : fWait'[d] = fWait[d]
        /\ fWait' \in [EMTs -> BOOLEAN] /\ UNCHANGED <<queues, call, haltEvent, calls>>
    BY <1>1, <1>4 DEF Test
  <2> QED  BY <1>1, <2>1, <2>2, <2>3, EMTGoesOn DEF queues
<1>5. CASE Block(e)
  BY <1>1, <1>5, EMTGoesOn DEF Block, EMTAt, EMTOk, queues, halts
<1>6. CASE ResetEvent(e)
  BY <1>1, <1>6, EMTGoesOn DEF ResetEvent, EMTAt, EMTOk, queues
<1> QED  BY <1>2, <1>3, <1>4, <1>5, <1>6 DEF Halting

\* ControlInv holds initially and every step keeps it.
LEMMA InitControl == Init => ControlInv
<1> SUFFICES ASSUME Init PROVE ControlInv
  OBVIOUS
<1>1. NoCall \in CallRecs /\ NoCall.pc = "idle"
  BY EmptyIsSeq DEF NoCall, CallRecs, CallPcs
<1>2. Runs \in EMTRecs /\ Runs.pc = "run" /\ Runs.q = ANY
  BY EmptyIsSeq DEF Runs, EMTRecs, EMTPcs, Queues
<1>3. /\ call \in [Callers -> CallRecs] /\ \A t \in Callers : call[t].pc = "idle"
      /\ emt \in [EMTs -> EMTRecs] /\ \A e \in EMTs : emt[e].pc = "run" /\ emt[e].q = ANY
  BY <1>1, <1>2 DEF Init
<1>4. (\A t \in Callers : CallOk(t)) /\ \A e \in EMTs : EMTOk(e)
  BY <1>3 DEF CallOk, EMTOk, Serves, HaltPcs
<1>5. /\ reqs \in [Queues -> Seq(Packets)] /\ ff \in [Queues -> BOOLEAN]
      /\ fWait \in [EMTs -> BOOLEAN] /\ haltEvent \in [EMTs -> BOOLEAN] /\ calls \in Nat
  BY EmptyIsSeq DEF Init
<1> QED  BY <1>3, <1>4, <1>5 DEF ControlInv

LEMMA StepControl == ControlInv /\ [Careful]_vars => ControlInv'
<1> SUFFICES ASSUME ControlInv, [Careful]_vars PROVE ControlInv'
  OBVIOUS
<1>1. ASSUME NEW t \in Callers, Begin(t) \/ Calling(t) PROVE ControlInv'
  BY <1>1, CallingControl
<1>2. ASSUME NEW e \in EMTs, BeginOwn(e) \/ Processing(e) \/ VMR3WaitU(e) \/ Halting(e) PROVE ControlInv'
  BY <1>2, ProcessingControl, HaltingControl
<1>3. CASE UNCHANGED vars
  BY <1>3 DEF vars, ControlInv, CallOk, EMTOk
<1> QED  BY <1>1, <1>2, <1>3 DEF Careful

-----------------------------------------------------------------------------
(* What the steps of a caller and of an EMT leave alone.                   *)

LEMMA CallerFrame ==
    ASSUME ControlInv, NEW t \in Callers, Begin(t) \/ Calling(t)
    PROVE  /\ UNCHANGED <<emt, fWait>>
           /\ \A u \in Callers \ {t} : call'[u] = call[u]
           /\ Push(t) \/ UNCHANGED reqs
           /\ SetFF(t) \/ UNCHANGED ff
           /\ SchedWakeUp(t) \/ UNCHANGED haltEvent
           /\ CallAt(t, "ff") => SetFF(t)
           /\ call[t].pc \in {"notify", "wakeup"} => NotifyCpuFF(t) \/ SchedWakeUp(t)
<1> USE DEF CallAt, CallGoto, queues, halts
<1>1. call \in [Callers -> CallRecs]
  BY DEF ControlInv
<1>2. CASE Begin(t)
  BY <1>1, <1>2 DEF Begin, VMR3ReqCallVU
<1>3. CASE Push(t)
  BY <1>1, <1>3 DEF Push
<1>4. CASE SetFF(t)
  BY <1>1, <1>4 DEF SetFF
<1>5. CASE NotifyCpuFF(t)
  BY <1>1, <1>5 DEF NotifyCpuFF, Notified
<1>6. CASE SchedWakeUp(t)
  BY <1>1, <1>6 DEF SchedWakeUp, Notified
<1>7. CASE PollWoken(t) \/ PollTimesOut(t)
  BY <1>1, <1>7 DEF PollWoken, PollTimesOut
<1>8. CASE Woken(t)
  BY <1>1, <1>8 DEF Woken
<1>9. CASE Check(t)
  BY <1>1, <1>9 DEF Check
<1>10. CASE NextCpu(t)
  BY <1>1, <1>10 DEF NextCpu
<1>11. CASE VMR3ReqFree(t)
  BY <1>1, <1>11 DEF VMR3ReqFree
<1> QED  BY <1>2, <1>3, <1>4, <1>5, <1>6, <1>7, <1>8, <1>9, <1>10, <1>11 DEF Calling

\* Moves(e): a step of the EMT e.
Moves(e) == BeginOwn(e) \/ Processing(e) \/ VMR3WaitU(e) \/ Halting(e)

LEMMA EMTFrame ==
    ASSUME ControlInv, NEW e \in EMTs, Moves(e)
    PROVE  /\ UNCHANGED call
           /\ \A d \in EMTs \ {e} : emt'[d] = emt[d] /\ haltEvent'[d] = haltEvent[d]
           /\ Take(e) \/ PutBack(e) \/ PutBackJoin(e) \/ UNCHANGED reqs
           /\ ClearFF(e) \/ FFAgain(e) \/ UNCHANGED ff
           /\ EMTAt(e, "take") => Take(e)
           /\ EMTAt(e, "ffagain") => FFAgain(e)
           /\ EMTAt(e, "block")' => Test(e)
<1> USE DEF EMTAt, EMTGoto, queues, halts
<1>1. emt \in [EMTs -> EMTRecs] /\ haltEvent \in [EMTs -> BOOLEAN]
  BY DEF ControlInv
<1>2. emt[e] \in EMTRecs
  BY <1>1
<1>3. CASE BeginOwn(e)
  BY <1>1, <1>2, <1>3 DEF BeginOwn, OwnCall, EMTRecs
<1>4. CASE \E q \in Queues : VMR3ReqProcessU(e, q)
  BY <1>1, <1>2, <1>4 DEF VMR3ReqProcessU, EMTRecs
<1>5. CASE ClearFF(e) \/ FFAgain(e)
  BY <1>1, <1>2, <1>5 DEF ClearFF, FFAgain, EMTRecs
<1>6. CASE Take(e)
  BY <1>1, <1>2, <1>6 DEF Take, EMTRecs, Runs
<1>7. CASE PutBack(e) \/ PutBackJoin(e)
  BY <1>1, <1>2, <1>7 DEF PutBack, PutBackJoin, EMTRecs
<1>8. ASSUME NEW label \in EMTPcs \ {"block"}, EMTGoto(e, label), ~EMTAt(e, "take"), ~EMTAt(e, "ffagain"),
             UNCHANGED <<call, reqs, ff, haltEvent>>
      PROVE  /\ \A d \in EMTs \ {e} : emt'[d] = emt[d]
             /\ ~EMTAt(e, "block")'
  BY <1>1, <1>2, <1>8 DEF EMTRecs
<1>9. CASE Process(e) \/ Complete(e) \/ NotClear(e) \/ Signal(e)
  <2>1. /\ ~EMTAt(e, "take") /\ ~EMTAt(e, "ffagain") /\ UNCHANGED <<call, reqs, ff, haltEvent>>
        /\ \E label \in EMTPcs \ {"block"} : EMTGoto(e, label)
    BY <1>9 DEF Process, Complete, NotClear, Signal, EMTPcs, TakePcs, HaltPcs
  <2> QED  BY <1>8, <2>1
<1>10. CASE FreeNoWait(e)
  <2>1. PICK r \in EMTRecs : emt' = [emt EXCEPT ![e] = r] /\ r.pc \in {"run", "loop", "again"}
    BY <1>10, AfterFree
  <2>2. r.pc # "block"
    BY <2>1
  <2>3. emt[e].pc = "notify" /\ UNCHANGED <<call, reqs, ff, haltEvent>>
    BY <1>10 DEF FreeNoWait
  <2> QED  BY <1>1, <2>1, <2>2, <2>3
<1>11. CASE Loop(e) \/ OwnFree(e) \/ FreeRefused(e)
  <2>1. PICK r \in EMTRecs : r.pc \in {"run", "clearff"} /\ emt' = [emt EXCEPT ![e] = r]
    <3>1. Runs \in EMTRecs /\ Runs.pc = "run"
      BY EmptyIsSeq DEF Runs, EMTRecs, EMTPcs, Queues
    <3> DEFINE r == [Runs EXCEPT !.pc = "clearff", !.q = emt[e].q]
    <3>2. r \in EMTRecs /\ r.pc = "clearff"
      BY <1>2, <3>1 DEF EMTRecs, EMTPcs, TakePcs
    <3>3. emt' = [emt EXCEPT ![e] = r] \/ emt' = [emt EXCEPT ![e] = Runs]
      BY <1>11 DEF Loop, OwnFree, FreeRefused
    <3> HIDE DEF r
    <3> QED  BY <3>1, <3>2, <3>3
  <2>2. emt[e].pc \in {"loop", "again"} /\ UNCHANGED <<call, reqs, ff, haltEvent>>
    BY <1>11 DEF Loop, OwnFree, FreeRefused
  <2> QED  BY <1>1, <2>1, <2>2
<1>12. CASE VMR3WaitU(e) \/ Halt(e)
  BY <1>1, <1>2, <1>12 DEF VMR3WaitU, Halt, EMTRecs
<1>13. CASE Test(e)
  BY <1>1, <1>2, <1>13 DEF Test, EMTRecs
<1>14. CASE Block(e) \/ ResetEvent(e)
  BY <1>1, <1>2, <1>14 DEF Block, ResetEvent, EMTRecs
<1> QED  BY <1>3, <1>4, <1>5, <1>6, <1>7, <1>8, <1>9, <1>10, <1>11, <1>12, <1>13, <1>14
         DEF Moves, Processing, Halting

-----------------------------------------------------------------------------
(* No request is stranded.                                                 *)

\* Told(q): somebody has said, or is about to say, that q holds requests.
Told(q) == \/ ff[q]
           \/ \E t \in Callers : CallAt(t, "ff") /\ Head(call[t].dst) = q
           \/ \E e \in EMTs : emt[e].q = q /\ emt[e].pc \in {"take", "ffagain"}

LEMMA CallerStrandsNone ==
    ASSUME ControlInv, NoRequestStranded, NEW t \in Callers, Begin(t) \/ Calling(t)
    PROVE  NoRequestStranded'
<1> SUFFICES ASSUME NEW q \in Queues, reqs'[q] # <<>> PROVE Told(q)'
  BY DEF NoRequestStranded, Told
<1>1. /\ UNCHANGED emt /\ \A u \in Callers \ {t} : call'[u] = call[u]
      /\ Push(t) \/ UNCHANGED reqs
      /\ SetFF(t) \/ UNCHANGED ff
      /\ CallAt(t, "ff") => SetFF(t)
  BY CallerFrame
<1>2. reqs[q] # <<>> => Told(q)
  BY DEF NoRequestStranded, Told
<1>3. call[t] \in CallRecs /\ call \in [Callers -> CallRecs] /\ ff \in [Queues -> BOOLEAN]
      /\ reqs \in [Queues -> Seq(Packets)]
  BY DEF ControlInv
<1>4. CASE Push(t)
  <2>1. call'[t].pc = "ff" /\ call'[t].dst = call[t].dst
    BY <1>3, <1>4 DEF Push, CallGoto, CallRecs
  <2>2. CASE q = Head(call[t].dst)
    BY <2>1, <2>2 DEF Told, CallAt
  <2>3. CASE q # Head(call[t].dst)
    <3>1. reqs[q] # <<>> /\ UNCHANGED ff /\ ~CallAt(t, "ff")
      BY <1>3, <1>4, <2>3 DEF Push, CallAt
    <3> QED  BY <1>1, <1>2, <3>1 DEF Told, CallAt
  <2> QED  BY <2>2, <2>3
<1>5. CASE SetFF(t)
  <2>1. UNCHANGED reqs /\ ff' = [ff EXCEPT ![Head(call[t].dst)] = TRUE]
    BY <1>5 DEF SetFF
  <2>2. CASE q = Head(call[t].dst)
    BY <1>3, <2>1, <2>2 DEF Told
  <2>3. CASE q # Head(call[t].dst)
    BY <1>1, <1>2, <1>3, <2>1, <2>3 DEF Told, CallAt
  <2> QED  BY <2>2, <2>3
<1>6. CASE ~Push(t) /\ ~SetFF(t)
  BY <1>1, <1>2, <1>6 DEF Told, CallAt
<1> QED  BY <1>4, <1>5, <1>6

LEMMA EMTStrandsNone ==
    ASSUME ControlInv, NoRequestStranded, NEW e \in EMTs, Moves(e)
    PROVE  NoRequestStranded'
<1> SUFFICES ASSUME NEW q \in Queues, reqs'[q] # <<>> PROVE Told(q)'
  BY DEF NoRequestStranded, Told
<1>1. /\ UNCHANGED call /\ \A d \in EMTs \ {e} : emt'[d] = emt[d]
      /\ Take(e) \/ PutBack(e) \/ PutBackJoin(e) \/ UNCHANGED reqs
      /\ ClearFF(e) \/ FFAgain(e) \/ UNCHANGED ff
      /\ EMTAt(e, "take") => Take(e)
      /\ EMTAt(e, "ffagain") => FFAgain(e)
  BY EMTFrame
<1>2. reqs[q] # <<>> => Told(q)
  BY DEF NoRequestStranded, Told
<1>3. /\ emt[e] \in EMTRecs /\ emt \in [EMTs -> EMTRecs] /\ ff \in [Queues -> BOOLEAN]
      /\ reqs \in [Queues -> Seq(Packets)] /\ emt[e].q \in Queues
  BY DEF ControlInv, EMTRecs
<1>4. CASE ClearFF(e)
  <2>1. /\ UNCHANGED reqs /\ ff' = [ff EXCEPT ![emt[e].q] = FALSE]
        /\ emt'[e].pc = "take" /\ emt'[e].q = emt[e].q /\ EMTAt(e, "clearff")
    BY <1>3, <1>4 DEF ClearFF, EMTGoto, EMTRecs
  <2>2. CASE q = emt[e].q
    BY <2>1, <2>2 DEF Told
  <2>3. CASE q # emt[e].q
    BY <1>1, <1>2, <1>3, <2>1, <2>3 DEF Told, CallAt
  <2> QED  BY <2>2, <2>3
<1>5. CASE FFAgain(e)
  <2>1. UNCHANGED reqs /\ ff' = [ff EXCEPT ![emt[e].q] = TRUE]
    BY <1>5 DEF FFAgain
  <2>2. CASE q = emt[e].q
    BY <1>3, <2>1, <2>2 DEF Told
  <2>3. CASE q # emt[e].q
    BY <1>1, <1>2, <1>3, <2>1, <2>3 DEF Told, CallAt
  <2> QED  BY <2>2, <2>3
<1>6. CASE Take(e) \/ PutBackJoin(e)
  <2>1. reqs' = [reqs EXCEPT ![emt[e].q] = <<>>] /\ UNCHANGED ff
    BY <1>6 DEF Take, PutBackJoin
  <2>2. q # emt[e].q /\ reqs[q] # <<>>
    BY <1>3, <2>1
  <2> QED  BY <1>1, <1>2, <2>1, <2>2 DEF Told, CallAt
<1>7. CASE PutBack(e)
  <2>1. /\ reqs' = [reqs EXCEPT ![emt[e].q] = emt[e].rest] /\ UNCHANGED ff
        /\ emt'[e].pc = "ffagain" /\ emt'[e].q = emt[e].q
    BY <1>3, <1>7 DEF PutBack, EMTRecs
  <2>2. CASE q = emt[e].q
    BY <2>1, <2>2 DEF Told
  <2>3. CASE q # emt[e].q
    <3>1. reqs[q] # <<>>
      BY <1>3, <2>1, <2>3
    <3> QED  BY <1>1, <1>2, <2>1, <2>3, <3>1 DEF Told, CallAt
  <2> QED  BY <2>2, <2>3
<1>8. CASE UNCHANGED <<reqs, ff>> /\ ~Take(e) /\ ~FFAgain(e)
  BY <1>1, <1>2, <1>8 DEF Told, CallAt, EMTAt
<1> QED  BY <1>1, <1>4, <1>5, <1>6, <1>7, <1>8

-----------------------------------------------------------------------------
(* No wake-up is lost.                                                     *)

LEMMA HeadOrTail ==
    ASSUME NEW S, NEW s \in Seq(S), NEW x \in ToSet(s), x # Head(s)
    PROVE  Len(s) > 1 /\ x \in ToSet(Tail(s))
<1>1. PICK i \in 1 .. Len(s) : x = s[i]
  BY DEF ToSet
<1>2. i # 1 /\ Len(s) > 1
  BY <1>1
<1>3. i - 1 \in DOMAIN Tail(s) /\ Tail(s)[i - 1] = s[i]
  BY <1>1, <1>2
<1> QED  BY <1>1, <1>2, <1>3 DEF ToSet

\* Who has notified one virtual CPU goes on with the others.
LEMMA NotifiesTheRest ==
    ASSUME ControlInv, NEW t \in Callers, Notified(t), NEW e \in EMTs, WillNotify(t, e),
           e # Head(call[t].cpus)
    PROVE  WillNotify(t, e)'
<1>1. call[t] \in CallRecs /\ call \in [Callers -> CallRecs] /\ call[t].cpus \in Seq(EMTs)
  BY DEF ControlInv, CallRecs
<1>2. e \in ToSet(call[t].cpus)
  BY DEF WillNotify
<1> DEFINE next == Tail(call[t].cpus)
<1>3. Len(call[t].cpus) > 1 /\ e \in ToSet(next)
  BY <1>1, <1>2, HeadOrTail
<1>4. call' = [call EXCEPT ![t] = [call[t] EXCEPT !.pc = "notify", !.cpus = next]]
  BY <1>3 DEF Notified
<1> HIDE DEF next
<1>5. call'[t].pc = "notify" /\ call'[t].cpus = next
  BY <1>1, <1>4 DEF CallRecs
<1> QED  BY <1>3, <1>5 DEF WillNotify

LEMMA CallerWakes ==
    ASSUME ControlInv, NoLostWakeup, NEW t \in Callers, Begin(t) \/ Calling(t)
    PROVE  NoLostWakeup'
<1> SUFFICES ASSUME NEW q \in Queues, ff'[q], \A e \in EMTs : Serves(e, q) => Asleep(e)'
             PROVE  \E u \in Callers, e \in EMTs : Serves(e, q) /\ WillNotify(u, e)'
  BY DEF NoLostWakeup, Serves
<1>1. /\ UNCHANGED <<emt, fWait>> /\ \A u \in Callers \ {t} : call'[u] = call[u]
      /\ SetFF(t) \/ UNCHANGED ff
      /\ SchedWakeUp(t) \/ UNCHANGED haltEvent
      /\ call[t].pc \in {"notify", "wakeup"} => NotifyCpuFF(t) \/ SchedWakeUp(t)
  BY CallerFrame
<1>2. /\ call[t] \in CallRecs /\ call \in [Callers -> CallRecs] /\ ff \in [Queues -> BOOLEAN]
      /\ haltEvent \in [EMTs -> BOOLEAN] /\ CallOk(t) /\ call[t].dst \in Seq(Queues)
      /\ call[t].cpus \in Seq(EMTs)
  BY DEF ControlInv, CallRecs
<1>3. ASSUME NEW e \in EMTs, Asleep(e)' PROVE Asleep(e)
  BY <1>1, <1>2, <1>3 DEF Asleep, EMTAt, SchedWakeUp
<1>4. ff[q] => \E u \in Callers, e \in EMTs : Serves(e, q) /\ WillNotify(u, e)
  BY <1>3 DEF NoLostWakeup
<1>5. ASSUME NEW u \in Callers \ {t}, NEW e \in EMTs, WillNotify(u, e) PROVE WillNotify(u, e)'
  BY <1>1, <1>5 DEF WillNotify
<1>6. CASE SetFF(t)
  <2> DEFINE p == Head(call[t].dst)
             cpus == IF p = ANY THEN AllCpus ELSE <<p>>
  <2>1. p \in Queues
    BY <1>2, <1>6 DEF SetFF, CallAt, CallOk
  <2>2. CASE q = p
    <3>1. PICK e \in EMTs : Serves(e, q) /\ e \in ToSet(cpus)
      <4>1. CASE p = ANY
        <5>1. 1 \in DOMAIN AllCpus /\ AllCpus[1] \in EMTs
          BY AllCpusType
        <5> QED  BY <2>2, <4>1, <5>1 DEF ToSet, Serves
      <4>2. CASE p # ANY
        <5>1. q \in EMTs /\ cpus = <<q>>
          BY <2>1, <2>2, <4>2 DEF Queues
        <5>2. q \in ToSet(<<q>>)
          BY DEF ToSet
        <5> QED  BY <5>1, <5>2 DEF Serves
      <4> QED  BY <4>1, <4>2
    <3>2. call' = [call EXCEPT ![t] = [call[t] EXCEPT !.pc = "notify", !.cpus = cpus]]
      BY <1>6 DEF SetFF
    <3> HIDE DEF cpus
    <3>3. call'[t].pc = "notify" /\ call'[t].cpus = cpus
      BY <1>2, <3>2 DEF CallRecs
    <3>4. WillNotify(t, e)'
      BY <3>1, <3>3 DEF WillNotify
    <3> QED  BY <3>1, <3>4
  <2>3. CASE q # p
    <3>1. ff[q] /\ CallAt(t, "ff")
      BY <1>2, <1>6, <2>3 DEF SetFF
    <3>2. PICK u \in Callers, e \in EMTs : Serves(e, q) /\ WillNotify(u, e)
      BY <1>4, <3>1
    <3>3. u # t
      BY <3>1, <3>2 DEF WillNotify, CallAt
    <3> QED  BY <1>5, <3>2, <3>3
  <2> QED  BY <2>2, <2>3
<1>7. CASE ~SetFF(t)
  <2>1. PICK u \in Callers, e \in EMTs : Serves(e, q) /\ WillNotify(u, e)
    BY <1>1, <1>4, <1>7
  <2>2. CASE u # t
    BY <1>5, <2>1, <2>2
  <2>3. CASE u = t
    <3> DEFINE c == Head(call[t].cpus)
    <3>1. NotifyCpuFF(t) \/ SchedWakeUp(t)
      BY <1>1, <2>1, <2>3 DEF WillNotify
    <3>2. Asleep(e)'
      BY <2>1
    <3>3. CASE NotifyCpuFF(t) /\ fWait[c]
      <4>1. CallGoto(t, "wakeup")
        BY <3>3 DEF NotifyCpuFF
      <4>2. call'[t].pc = "wakeup" /\ call'[t].cpus = call[t].cpus
        BY <1>2, <4>1 DEF CallGoto, CallRecs
      <4> QED  BY <2>1, <2>3, <4>2 DEF WillNotify
    <3>4. CASE NotifyCpuFF(t) /\ ~fWait[c]
      <4>1. emt[e].pc = "block" /\ fWait[e]
        BY <1>1, <1>3, <3>2 DEF Asleep, EMTAt, ControlInv, EMTOk, HaltPcs
      <4>2. Notified(t) /\ e # c
        BY <3>4, <4>1 DEF NotifyCpuFF
      <4> QED  BY <2>1, <2>3, <4>2, NotifiesTheRest
    <3>5. CASE SchedWakeUp(t)
      <4>1. Notified(t) /\ haltEvent' = [haltEvent EXCEPT ![c] = TRUE]
        BY <3>5 DEF SchedWakeUp
      <4>2. e # c
        BY <1>2, <3>2, <4>1 DEF Asleep
      <4> QED  BY <2>1, <2>3, <4>1, <4>2, NotifiesTheRest
    <3> QED  BY <3>1, <3>3, <3>4, <3>5
  <2> QED  BY <2>2, <2>3
<1> QED  BY <1>6, <1>7

LEMMA EMTSleepsNotified ==
    ASSUME ControlInv, NoLostWakeup, NEW e \in EMTs, Moves(e)
    PROVE  NoLostWakeup'
<1> SUFFICES ASSUME NEW q \in Queues, ff'[q], \A d \in EMTs : Serves(d, q) => Asleep(d)'
             PROVE  \E t \in Callers, d \in EMTs : Serves(d, q) /\ WillNotify(t, d)'
  BY DEF NoLostWakeup, Serves
<1>1. /\ UNCHANGED call
      /\ \A d \in EMTs \ {e} : emt'[d] = emt[d] /\ haltEvent'[d] = haltEvent[d]
      /\ ClearFF(e) \/ FFAgain(e) \/ UNCHANGED ff
      /\ EMTAt(e, "block")' => Test(e)
  BY EMTFrame
<1>2. Serves(e, emt[e].q) /\ ff \in [Queues -> BOOLEAN] /\ emt \in [EMTs -> EMTRecs]
  BY DEF ControlInv, EMTOk
<1>3. CASE Serves(e, q)
  <2>1. Test(e) /\ emt'[e].pc = "block"
    BY <1>1, <1>3 DEF Asleep, EMTAt
  <2>2. ~Pending(e) /\ UNCHANGED ff
    BY <1>2, <2>1 DEF Test, EMTGoto, queues, EMTRecs
  <2> QED  BY <1>3, <2>2 DEF Pending, Serves
<1>4. CASE ~Serves(e, q)
  <2>1. q # emt[e].q
    BY <1>2, <1>4
  <2>2. ff[q]
    BY <1>1, <1>2, <2>1 DEF ClearFF, FFAgain
  <2>3. \A d \in EMTs : Serves(d, q) => Asleep(d)
    BY <1>1, <1>4 DEF Asleep, EMTAt
  <2>4. PICK t \in Callers, d \in EMTs : Serves(d, q) /\ WillNotify(t, d)
    BY <2>2, <2>3 DEF NoLostWakeup
  <2> QED  BY <1>1, <2>4 DEF WillNotify
<1> QED  BY <1>3, <1>4

-----------------------------------------------------------------------------
(* Theorems.                                                               *)

LEMMA InitFlag == Init => FlagInv
<1> SUFFICES ASSUME Init PROVE FlagInv
  OBVIOUS
<1>1. \A q \in Queues : reqs[q] = <<>> /\ ~ff[q]
  BY DEF Init
<1> QED  BY <1>1, InitControl DEF FlagInv, NoRequestStranded, NoLostWakeup

LEMMA StepFlag == FlagInv /\ [Careful]_vars => FlagInv'
<1> SUFFICES ASSUME FlagInv, [Careful]_vars PROVE FlagInv'
  OBVIOUS
<1>1. ControlInv /\ ControlInv' /\ NoRequestStranded /\ NoLostWakeup
  BY StepControl DEF FlagInv
<1>2. ASSUME NEW t \in Callers, Begin(t) \/ Calling(t) PROVE FlagInv'
  BY <1>1, <1>2, CallerStrandsNone, CallerWakes DEF FlagInv
<1>3. ASSUME NEW e \in EMTs, Moves(e) PROVE FlagInv'
  BY <1>1, <1>3, EMTStrandsNone, EMTSleepsNotified DEF FlagInv
<1>4. CASE UNCHANGED vars
  BY <1>1, <1>4 DEF FlagInv, vars, NoRequestStranded, NoLostWakeup, CallAt, Asleep, EMTAt, WillNotify
<1> QED  BY <1>2, <1>3, <1>4 DEF Careful, Moves

\* The control facts, that no request is stranded and that no wake-up is lost
\* are kept by every step of callers and EMTs together.
THEOREM FlagInvCorrect == CarefulSpec => []FlagInv
<1> QED  BY InitFlag, StepFlag, PTL DEF CarefulSpec

\* However many threads push while EMTs take and put back, a list that holds
\* requests has its force flag set, or somebody is about to set it or to take it.
THEOREM NoRequestStrandedCorrect == CarefulSpec => []NoRequestStranded
<1>1. FlagInv => NoRequestStranded
  BY DEF FlagInv
<1> QED  BY <1>1, FlagInvCorrect, PTL

\* vmR3HaltGlobal1Wait tests the flags after it has set fWait, who sets a flag
\* reads fWait after it: EMTs never all sleep on a flag nobody is to wake them for.
THEOREM NoLostWakeupCorrect == CarefulSpec => []NoLostWakeup
<1>1. FlagInv => NoLostWakeup
  BY DEF FlagInv
<1> QED  BY <1>1, FlagInvCorrect, PTL

\* An EMT gets there only when a function has failed.
LEMMA NotAgain ==
    ASSUME ControlInv, NEW e \in EMTs, Moves(e), Failing = {}
    PROVE  emt'[e].pc # "again"
<1>1. emt \in [EMTs -> EMTRecs] /\ emt[e] \in EMTRecs
  BY DEF ControlInv
<1>2. ASSUME NEW label, label # "again", EMTGoto(e, label) PROVE emt'[e].pc # "again"
  BY <1>1, <1>2 DEF EMTGoto, EMTRecs
<1>3. CASE BeginOwn(e)
  BY <1>1, <1>3 DEF BeginOwn, OwnCall, EMTRecs
<1>4. CASE \E q \in Queues : VMR3ReqProcessU(e, q)
  BY <1>1, <1>4 DEF VMR3ReqProcessU, EMTRecs
<1>5. CASE ClearFF(e) \/ FFAgain(e) \/ Process(e) \/ Complete(e) \/ NotClear(e) \/ Signal(e)
  BY <1>2, <1>5 DEF ClearFF, FFAgain, Process, Complete, NotClear, Signal
<1>6. CASE Take(e)
  BY <1>1, <1>6 DEF Take, EMTRecs, Runs
<1>7. CASE PutBack(e)
  BY <1>1, <1>7 DEF PutBack, EMTRecs
<1>8. CASE PutBackJoin(e)
  <2>1. emt[e].pc = "putback" /\ \E s : emt' = [emt EXCEPT ![e].rest = s]
    BY <1>8 DEF PutBackJoin, EMTAt
  <2> QED  BY <1>1, <2>1 DEF EMTRecs
<1>9. CASE FreeNoWait(e)
  <2> DEFINE r == [emt[e] EXCEPT !.pc = "loop", !.p = NoPacket]
  <2>1. r.pc = "loop" /\ Runs.pc = "run"
    BY <1>1 DEF EMTRecs, Runs
  <2>2. emt' = [emt EXCEPT ![e] = r] \/ emt' = [emt EXCEPT ![e] = Runs]
    BY <1>9 DEF FreeNoWait
  <2> HIDE DEF r
  <2> QED  BY <1>1, <2>1, <2>2
<1>10. CASE Loop(e) \/ OwnFree(e) \/ FreeRefused(e)
  <2> DEFINE r == [Runs EXCEPT !.pc = "clearff", !.q = emt[e].q]
  <2>1. r.pc = "clearff" /\ Runs.pc = "run"
    BY DEF Runs
  <2>2. emt' = [emt EXCEPT ![e] = r] \/ emt' = [emt EXCEPT ![e] = Runs]
    BY <1>10 DEF Loop, OwnFree, FreeRefused
  <2> HIDE DEF r
  <2> QED  BY <1>1, <2>1, <2>2
<1>11. CASE VMR3WaitU(e) \/ Halting(e)
  BY <1>2, <1>11 DEF VMR3WaitU, Halting, Halt, Test, Block, ResetEvent
<1> QED  BY <1>3, <1>4, <1>5, <1>6, <1>7, <1>8, <1>9, <1>10, <1>11 DEF Moves, Processing

\* Where no function called so fails, no packet is freed a second time: the theorems
\* then are about every behaviour.
NobodyAgain == \A e \in EMTs : ~EMTAt(e, "again")

THEOREM CarefulWithoutFailures == Spec /\ Failing = {} => CarefulSpec
<1> SUFFICES ASSUME Failing = {} PROVE Spec => CarefulSpec
  OBVIOUS
<1>1. Init => ControlInv /\ NobodyAgain
  BY InitControl DEF Init, NobodyAgain, EMTAt, Runs
<1>2. NobodyAgain /\ [Next]_vars => [Careful]_vars
  BY DEF NobodyAgain, Next, FreeTaken
<1>3. ControlInv /\ NobodyAgain /\ [Careful]_vars => (ControlInv /\ NobodyAgain)'
  <2> SUFFICES ASSUME ControlInv, NobodyAgain, [Careful]_vars PROVE NobodyAgain'
    BY StepControl
  <2>1. ASSUME NEW t \in Callers, Begin(t) \/ Calling(t) PROVE NobodyAgain'
    BY <2>1, CallerFrame DEF NobodyAgain, EMTAt
  <2>2. ASSUME NEW e \in EMTs, Moves(e) PROVE NobodyAgain'
    BY <2>2, NotAgain, EMTFrame DEF NobodyAgain, EMTAt
  <2>3. CASE UNCHANGED vars
    BY <2>3 DEF NobodyAgain, EMTAt, vars
  <2> QED  BY <2>1, <2>2, <2>3 DEF Careful, Moves
<1> QED  BY <1>1, <1>2, <1>3, PTL DEF Spec, CarefulSpec

-----------------------------------------------------------------------------
(* Who has a packet.                                                       *)

\* A caller has its packet until it is queued, and one that waits until it is
\* freed.  An EMT has one in hand, and at times others that it will put back.
Asks(t)      == call[t].pc = "queue" \/ (t \in Waiters /\ call[t].pc # "idle")
HeldPcs      == {"putback", "ffagain", "process"}
HandPcs      == HeldPcs \cup {"return", "notify", "signal"}
HasPacket(e) == emt[e].pc \in HandPcs \/ (emt[e].pc = "loop" /\ emt[e].own)
Hand(e)      == IF HasPacket(e) THEN {emt[e].p} ELSE {}
Rest(e)      == ToSet(emt[e].rest)
Listed(q)    == ToSet(reqs[q])
Once(s)      == \A i, j \in 1 .. Len(s) : s[i] = s[j] => i = j

States == {"FREE", "ALLOCATED", "QUEUED", "PROCESSING", "COMPLETED"}

PacketTypes ==
    /\ state \in [Packets -> States]
    /\ status \in [Packets -> 0 .. MaxCalls] /\ args \in [Packets -> 0 .. MaxCalls]
    /\ noWait \in [Packets -> BOOLEAN] /\ event \in [Packets -> BOOLEAN]
    /\ eventClear \in [Packets -> BOOLEAN]
    /\ free \subseteq Packets
    /\ calls \in 0 .. MaxCalls
    /\ \A t \in Callers : call[t].n \in 0 .. MaxCalls

\* What the state of a packet tells.
StateTells(p) ==
    /\ p \in free <=> state[p] = "FREE"
    /\ p \in free /\ eventClear[p] => ~event[p]
    /\ event[p] => state[p] \in {"FREE", "COMPLETED"}
    /\ state[p] = "COMPLETED" => status[p] = args[p]

\* What a caller may rely on.
CallerPacket(t) ==
    LET p == call[t].p IN
    /\ Asks(t) => args[p] = call[t].n /\ (t \in Waiters => ~noWait[p])
    /\ CallAt(t, "queue") => state[p] = "ALLOCATED"
    /\ Asks(t) /\ call[t].pc \in {"ff", "notify", "wakeup", "poll", "wait"} =>
         state[p] \in {"QUEUED", "PROCESSING", "COMPLETED"}
    /\ call[t].pc \in {"check", "done"} => state[p] = "COMPLETED" /\ ~event[p]
    /\ call[t].pc \in {"poll", "wait", "check", "done"} => t \in Waiters

\* What an EMT may rely on.
EMTPacket(e) ==
    LET p == emt[e].p IN
    /\ HasPacket(e) => p \in Packets
    /\ emt[e].pc \in HeldPcs => state[p] = "QUEUED"
    /\ EMTAt(e, "return") => state[p] = "PROCESSING"
    /\ emt[e].pc \in {"notify", "signal"} => state[p] = "COMPLETED" /\ ~event[p]
    /\ EMTAt(e, "signal") => ~eventClear[p]
    /\ EMTAt(e, "loop") /\ emt[e].own => state[p] = "COMPLETED" /\ ~eventClear[p]
    /\ emt[e].own => emt[e].pc \in {"return", "notify", "signal", "loop"}
    /\ emt[e].rest # <<>> => EMTAt(e, "putback")
    /\ \A r \in Rest(e) : state[r] = "QUEUED"

ListedQueued == \A q \in Queues : \A p \in Listed(q) : state[p] = "QUEUED"

\* A packet is in one place.
ListsApart ==
    /\ \A q \in Queues : Once(reqs[q])
    /\ \A q, r \in Queues : q # r => Listed(q) \cap Listed(r) = {}

RestsApart ==
    /\ \A e \in EMTs : Once(emt[e].rest)
    /\ \A e, d \in EMTs : e # d => Rest(e) \cap Rest(d) = {}
    /\ \A e \in EMTs, q \in Queues : Rest(e) \cap Listed(q) = {}

HandsApart ==
    /\ \A e \in EMTs, q \in Queues : Hand(e) \cap Listed(q) = {}
    /\ \A e, d \in EMTs : Hand(e) \cap Rest(d) = {}
    /\ \A e, d \in EMTs : e # d => Hand(e) \cap Hand(d) = {}

\* Two callers have different packets, and one that has been told that its request
\* is completed has one that no EMT has.
CallersApart == \A t, u \in Callers : Asks(t) /\ Asks(u) /\ call[t].p = call[u].p => t = u

CallerAlone(t) == \A e \in EMTs : Asks(t) /\ call[t].p \in Hand(e) =>
                     ~emt[e].own /\ call[t].pc \notin {"check", "done"}

PacketInv ==
    /\ PacketTypes
    /\ \A p \in Packets : StateTells(p)
    /\ \A t \in Callers : CallerPacket(t) /\ CallerAlone(t)
    /\ CallersApart
    /\ \A e \in EMTs : EMTPacket(e)
    /\ ListedQueued /\ ListsApart /\ RestsApart /\ HandsApart

-----------------------------------------------------------------------------
(* Lists without repetition.                                               *)

LEMMA ElementsAre == \A S : \A s \in Seq(S) : ToSet(s) = {s[i] : i \in 1 .. Len(s)} /\ ToSet(s) \subseteq S
BY DEF ToSet

LEMMA EmptyOnce == ToSet(<<>>) = {} /\ Once(<<>>)
BY DEF ToSet, Once

LEMMA JoinOnce ==
    ASSUME NEW S, NEW s \in Seq(S), NEW u \in Seq(S)
    PROVE  /\ s \o u \in Seq(S)
           /\ ToSet(s \o u) = ToSet(s) \cup ToSet(u)
           /\ Once(s) /\ Once(u) /\ ToSet(s) \cap ToSet(u) = {} => Once(s \o u)
<1> DEFINE w == s \o u
<1>1. /\ w \in Seq(S) /\ Len(w) = Len(s) + Len(u) /\ Len(s) \in Nat /\ Len(u) \in Nat
      /\ \A i \in 1 .. Len(s) : w[i] = s[i]
      /\ \A i \in 1 .. Len(u) : w[Len(s) + i] = u[i]
  OBVIOUS
<1> HIDE DEF w
<1>2. \A i \in 1 .. Len(w) : i \in 1 .. Len(s) \/ \E j \in 1 .. Len(u) : i = Len(s) + j /\ j = i - Len(s)
  <2> SUFFICES ASSUME NEW i \in 1 .. Len(w), i \notin 1 .. Len(s)
               PROVE  \E j \in 1 .. Len(u) : i = Len(s) + j /\ j = i - Len(s)
    OBVIOUS
  <2> DEFINE a == Len(s)  b == Len(u)
  <2>1. a \in Nat /\ b \in Nat /\ i \in 1 .. a + b /\ i \notin 1 .. a
    BY <1>1
  <2> HIDE DEF a, b
  <2>2. i - a \in 1 .. b /\ i = a + (i - a)
    BY <2>1
  <2> QED  BY <2>2 DEF a, b
<1>3. ToSet(w) = ToSet(s) \cup ToSet(u)
  <2>1. /\ ToSet(w) = {w[i] : i \in 1 .. Len(w)} /\ ToSet(s) = {s[i] : i \in 1 .. Len(s)}
        /\ ToSet(u) = {u[i] : i \in 1 .. Len(u)}
    BY <1>1, ElementsAre
  <2>2. ASSUME NEW i \in 1 .. Len(w) PROVE w[i] \in ToSet(s) \cup ToSet(u)
    <3>1. CASE i \in 1 .. Len(s)
      BY <1>1, <2>1, <3>1
    <3>2. CASE i \notin 1 .. Len(s)
      <4>1. PICK j \in 1 .. Len(u) : i = Len(s) + j
        BY <1>2, <3>2
      <4> QED  BY <1>1, <2>1, <4>1
    <3> QED  BY <3>1, <3>2
  <2>3. ASSUME NEW i \in 1 .. Len(s) PROVE s[i] \in ToSet(w)
    <3>1. i \in 1 .. Len(w) /\ w[i] = s[i]
      BY <1>1
    <3> QED  BY <2>1, <3>1
  <2>4. ASSUME NEW i \in 1 .. Len(u) PROVE u[i] \in ToSet(w)
    <3>1. Len(s) + i \in 1 .. Len(w) /\ w[Len(s) + i] = u[i]
      BY <1>1
    <3> QED  BY <2>1, <3>1
  <2> QED  BY <2>1, <2>2, <2>3, <2>4
<1>4. ASSUME Once(s), Once(u), ToSet(s) \cap ToSet(u) = {} PROVE Once(w)
  <2> SUFFICES ASSUME NEW i \in 1 .. Len(w), NEW j \in 1 .. Len(w), w[i] = w[j] PROVE i = j
    BY DEF Once
  <2>1. /\ \A k \in 1 .. Len(s) : s[k] \in ToSet(s)
        /\ \A k \in 1 .. Len(u) : u[k] \in ToSet(u)
    BY ElementsAre
  <2>2. CASE i \in 1 .. Len(s) /\ j \in 1 .. Len(s)
    BY <1>1, <1>4, <2>2 DEF Once
  <2>3. CASE i \notin 1 .. Len(s) /\ j \notin 1 .. Len(s)
    <3>1. PICK k \in 1 .. Len(u) : i = Len(s) + k
      BY <1>2, <2>3
    <3>2. PICK l \in 1 .. Len(u) : j = Len(s) + l
      BY <1>2, <2>3
    <3>3. u[k] = u[l]
      BY <1>1, <3>1, <3>2
    <3> QED  BY <1>4, <3>1, <3>2, <3>3 DEF Once
  <2>4. CASE i \in 1 .. Len(s) /\ j \notin 1 .. Len(s)
    <3>1. PICK l \in 1 .. Len(u) : j = Len(s) + l
      BY <1>2, <2>4
    <3> QED  BY <1>1, <1>4, <2>1, <2>4, <3>1
  <2>5. CASE i \notin 1 .. Len(s) /\ j \in 1 .. Len(s)
    <3>1. PICK l \in 1 .. Len(u) : i = Len(s) + l
      BY <1>2, <2>5
    <3> QED  BY <1>1, <1>4, <2>1, <2>5, <3>1
  <2> QED  BY <2>2, <2>3, <2>4, <2>5
<1> QED  BY <1>1, <1>3, <1>4 DEF w

LEMMA PushOnce ==
    ASSUME NEW S, NEW s \in Seq(S), NEW x \in S
    PROVE  /\ ToSet(<<x>> \o s) = {x} \cup ToSet(s)
           /\ Once(s) /\ x \notin ToSet(s) => Once(<<x>> \o s)
<1> DEFINE o == <<x>>
<1>1. o \in Seq(S) /\ Len(o) = 1 /\ o[1] = x
  OBVIOUS
<1> HIDE DEF o
<1>2. ToSet(o) = {o[i] : i \in 1 .. Len(o)}
  BY <1>1, ElementsAre
<1>3. ToSet(o) = {x} /\ Once(o)
  BY <1>1, <1>2 DEF Once
<1>4. ToSet(o \o s) = {x} \cup ToSet(s) /\ (Once(s) /\ x \notin ToSet(s) => Once(o \o s))
  BY <1>1, <1>3, JoinOnce
<1> QED  BY <1>4 DEF o

\* The oldest of a list and the others.
LEMMA TakeOnce ==
    ASSUME NEW S, NEW s \in Seq(S), s # <<>>
    PROVE  /\ Last(s) \in S /\ Front(s) \in Seq(S)
           /\ Len(s) = 1 => Front(s) = <<>>
           /\ ToSet(s) = ToSet(Front(s)) \cup {Last(s)}
           /\ Once(s) => Once(Front(s)) /\ Last(s) \notin ToSet(Front(s))
<1>1. Len(s) \in Nat \ {0}
  OBVIOUS
<1> DEFINE f == Front(s)
<1>2. /\ f \in Seq(S) /\ Len(f) = Len(s) - 1 /\ \A i \in 1 .. Len(s) - 1 : f[i] = s[i]
      /\ Last(s) = s[Len(s)] /\ Last(s) \in S
  <2>1. f = [i \in 1 .. Len(s) - 1 |-> s[i]] /\ Last(s) = s[Len(s)]
    BY <1>1 DEF Front, Last
  <2>2. Len(s) - 1 \in Nat /\ (\A i \in 1 .. Len(s) - 1 : s[i] \in S) /\ s[Len(s)] \in S
    BY <1>1
  <2> HIDE DEF f
  <2> QED  BY <2>1, <2>2
<1> HIDE DEF f
<1>3. Len(s) = 1 => f = <<>>
  BY <1>2
<1>4. ToSet(s) = {s[i] : i \in 1 .. Len(s)} /\ ToSet(f) = {f[i] : i \in 1 .. Len(f)}
  BY <1>2, ElementsAre
<1>5. ToSet(s) = ToSet(f) \cup {Last(s)}
  <2>1. ASSUME NEW i \in 1 .. Len(s) PROVE s[i] \in ToSet(f) \cup {Last(s)}
    BY <1>1, <1>2, <1>4
  <2>2. ASSUME NEW i \in 1 .. Len(f) PROVE f[i] \in ToSet(s)
    BY <1>1, <1>2, <1>4
  <2>3. Last(s) \in ToSet(s)
    BY <1>1, <1>2, <1>4
  <2> QED  BY <1>4, <2>1, <2>2, <2>3
<1>6. ASSUME Once(s) PROVE Once(f) /\ Last(s) \notin ToSet(f)
  <2>1. Once(f)
    BY <1>1, <1>2, <1>6 DEF Once
  <2>2. \A i \in 1 .. Len(f) : f[i] # Last(s)
    BY <1>1, <1>2, <1>6 DEF Once
  <2> QED  BY <1>4, <2>1, <2>2
<1> QED  BY <1>2, <1>3, <1>5, <1>6 DEF f

-----------------------------------------------------------------------------
(* A step is about one packet and one caller or EMT.                       *)

OnlyPacket(P) == \A p \in Packets \ {P} :
    /\ state'[p] = state[p] /\ status'[p] = status[p] /\ args'[p] = args[p]
    /\ noWait'[p] = noWait[p] /\ event'[p] = event[p] /\ eventClear'[p] = eventClear[p]
    /\ p \in free' <=> p \in free

\* Nobody has taken P off a list and not done with it, and it is on none.
Unserved(P) == /\ \A e \in EMTs : P \notin Hand(e) /\ P \notin Rest(e)
               /\ \A q \in Queues : P \notin Listed(q)

LEMMA PacketsAre == NoPacket \notin Packets
BY BoundsAssumption DEF Packets, NoPacket

LEMMA Elements ==
    ASSUME ControlInv
    PROVE  /\ \A q \in Queues : reqs[q] \in Seq(Packets) /\ Listed(q) \subseteq Packets
           /\ \A e \in EMTs : emt[e].rest \in Seq(Packets) /\ Rest(e) \subseteq Packets
           /\ \A e \in EMTs : emt[e] \in EMTRecs
           /\ \A t \in Callers : call[t] \in CallRecs /\ (Asks(t) => call[t].p \in Packets)
<1>1. ASSUME NEW q \in Queues PROVE reqs[q] \in Seq(Packets) /\ Listed(q) \subseteq Packets
  BY ElementsAre DEF ControlInv, Listed
<1>2. ASSUME NEW e \in EMTs PROVE emt[e] \in EMTRecs /\ emt[e].rest \in Seq(Packets) /\ Rest(e) \subseteq Packets
  <2>1. emt[e] \in EMTRecs /\ emt[e].rest \in Seq(Packets)
    BY DEF ControlInv, EMTRecs
  <2> QED  BY <2>1, ElementsAre DEF Rest
<1>3. ASSUME NEW t \in Callers PROVE call[t] \in CallRecs /\ (Asks(t) => call[t].p \in Packets)
  BY DEF ControlInv, CallOk, Asks
<1> QED  BY <1>1, <1>2, <1>3

\* What was not asked for yet, or has been told to be answered, nobody serves.
LEMMA NotServed ==
    ASSUME ControlInv, PacketInv, NEW P \in Packets,
           \/ state[P] \in {"FREE", "ALLOCATED"}
           \/ \E t \in Callers : Asks(t) /\ call[t].p = P /\ (event[P] \/ call[t].pc \in {"check", "done"})
    PROVE  Unserved(P)
<1>1. state[P] # "QUEUED"
  BY DEF PacketInv, StateTells, CallerPacket
<1>2. ASSUME NEW e \in EMTs PROVE P \notin Hand(e) /\ P \notin Rest(e)
  <2>1. EMTPacket(e)
    BY DEF PacketInv
  <2>2. P \notin Rest(e)
    BY <1>1, <2>1 DEF EMTPacket
  <2>3. CASE state[P] \in {"FREE", "ALLOCATED"}
    BY <2>1, <2>2, <2>3 DEF EMTPacket, Hand, HasPacket, HandPcs, EMTAt
  <2>4. ASSUME NEW t \in Callers, Asks(t), call[t].p = P, event[P] \/ call[t].pc \in {"check", "done"}
        PROVE  P \notin Hand(e)
    <3>1. CallerPacket(t) /\ StateTells(P) /\ (P \in Hand(e) => ~emt[e].own /\ call[t].pc \notin {"check", "done"})
      BY <2>4 DEF PacketInv, CallerAlone
    <3>2. P \in Hand(e) => event[P] /\ ~emt[e].own
      BY <2>4, <3>1
    <3>3. P \in Hand(e) => emt[e].p = P /\ HasPacket(e)
      BY DEF Hand
    <3>4. event[P] => state[P] \in {"FREE", "COMPLETED"}
      BY <3>1 DEF StateTells
    <3>5. P \in Hand(e) => FALSE
      BY <2>1, <3>2, <3>3, <3>4 DEF EMTPacket, HasPacket, HandPcs, EMTAt
    <3> QED  BY <3>5
  <2> QED  BY <2>2, <2>3, <2>4
<1>3. \A q \in Queues : P \notin Listed(q)
  BY <1>1 DEF PacketInv, ListedQueued
<1> QED  BY <1>2, <1>3 DEF Unserved

LEMMA OtherCaller ==
    ASSUME NEW P, OnlyPacket(P), NEW u \in Callers, CallerPacket(u), call'[u] = call[u],
           Asks(u) => call[u].p \in Packets \ {P}
    PROVE  CallerPacket(u)'
<1>1. CASE Asks(u)
  BY <1>1 DEF CallerPacket, OnlyPacket, Asks, CallAt
<1>2. CASE ~Asks(u)
  BY <1>2 DEF CallerPacket, Asks, CallAt
<1> QED  BY <1>1, <1>2

LEMMA OtherEMT ==
    ASSUME NEW P, OnlyPacket(P), NEW d \in EMTs, EMTPacket(d), emt'[d] = emt[d],
           P \notin Hand(d), P \notin Rest(d), Rest(d) \subseteq Packets
    PROVE  EMTPacket(d)'
<1>1. Rest(d)' = Rest(d) /\ HasPacket(d)' = HasPacket(d)
  BY DEF Rest, HasPacket
<1>2. \A r \in Rest(d)' : state'[r] = "QUEUED"
  BY <1>1 DEF EMTPacket, OnlyPacket
<1>3. CASE HasPacket(d)
  <2>1. emt[d].p \in Packets \ {P}
    BY <1>3 DEF EMTPacket, Hand
  <2> QED  BY <1>1, <1>2, <2>1 DEF EMTPacket, OnlyPacket, EMTAt
<1>4. CASE ~HasPacket(d)
  BY <1>1, <1>2, <1>4 DEF EMTPacket, HasPacket, HandPcs, EMTAt
<1> QED  BY <1>3, <1>4

\* A step of a caller.
LEMMA CallerStep ==
    ASSUME ControlInv, PacketInv, NEW t \in Callers, NEW P, OnlyPacket(P), Unserved(P),
           UNCHANGED emt, \A u \in Callers \ {t} : call'[u] = call[u],
           PacketTypes', P \in Packets => StateTells(P)',
           \A u \in Callers \ {t} : Asks(u) => call[u].p # P,
           CallerPacket(t)', CallerAlone(t)',
           Asks(t)' => \A u \in Callers \ {t} : Asks(u) => call[u].p # call'[t].p,
           (ListedQueued /\ ListsApart /\ RestsApart /\ HandsApart)'
    PROVE  PacketInv'
<1>1. ASSUME NEW p \in Packets PROVE StateTells(p)'
  <2>1. CASE p = P
    BY <2>1
  <2>2. CASE p # P
    BY <2>2 DEF PacketInv, StateTells, OnlyPacket
  <2> QED  BY <2>1, <2>2
<1>2. ASSUME NEW u \in Callers \ {t} PROVE CallerPacket(u)' /\ CallerAlone(u)'
  <2>1. CallerPacket(u)'
    BY Elements, OtherCaller DEF PacketInv
  <2>2. CallerAlone(u)'
    BY DEF PacketInv, CallerAlone, Hand, HasPacket, Asks
  <2> QED  BY <2>1, <2>2
<1>3. CallersApart'
  <2>1. \A u \in Callers \ {t} : Asks(u)' = Asks(u)
    BY DEF Asks
  <2> QED  BY <2>1 DEF PacketInv, CallersApart
<1>4. ASSUME NEW e \in EMTs PROVE EMTPacket(e)'
  BY Elements, OtherEMT DEF PacketInv, Unserved
<1> QED  BY <1>1, <1>2, <1>3, <1>4 DEF PacketInv

\* A step of an EMT.
LEMMA EMTStep ==
    ASSUME ControlInv, PacketInv, NEW e \in EMTs, NEW P, OnlyPacket(P),
           UNCHANGED call, \A d \in EMTs \ {e} : emt'[d] = emt[d],
           PacketTypes', P \in Packets => StateTells(P)',
           \A d \in EMTs \ {e} : P \notin Hand(d) /\ P \notin Rest(d),
           \A t \in Callers : Asks(t) /\ call[t].p = P => CallerPacket(t)',
           \A t \in Callers : Asks(t) /\ call[t].p \in Hand(e)' =>
               ~emt'[e].own /\ call[t].pc \notin {"check", "done"},
           EMTPacket(e)', (ListedQueued /\ ListsApart /\ RestsApart /\ HandsApart)'
    PROVE  PacketInv'
<1>1. ASSUME NEW p \in Packets PROVE StateTells(p)'
  <2>1. CASE p = P
    BY <2>1
  <2>2. CASE p # P
    BY <2>2 DEF PacketInv, StateTells, OnlyPacket
  <2> QED  BY <2>1, <2>2
<1>2. ASSUME NEW u \in Callers PROVE CallerPacket(u)' /\ CallerAlone(u)'
  <2>1. CallerPacket(u)'
    <3>1. CASE Asks(u) /\ call[u].p = P
      BY <3>1
    <3>2. CASE ~(Asks(u) /\ call[u].p = P)
      BY <3>2, Elements, OtherCaller DEF PacketInv
    <3> QED  BY <3>1, <3>2
  <2>2. CallerAlone(u)'
    <3> SUFFICES ASSUME NEW d \in EMTs, Asks(u)', call'[u].p \in Hand(d)'
                 PROVE  ~emt'[d].own /\ call'[u].pc \notin {"check", "done"}
      BY DEF CallerAlone
    <3>1. Asks(u) /\ call'[u] = call[u]
      BY DEF Asks
    <3>2. CASE d = e
      BY <3>1, <3>2
    <3>3. CASE d # e
      <4>1. Hand(d)' = Hand(d) /\ emt'[d] = emt[d] /\ CallerAlone(u)
        BY <3>3 DEF Hand, HasPacket, PacketInv
      <4> QED  BY <3>1, <4>1 DEF CallerAlone
    <3> QED  BY <3>2, <3>3
  <2> QED  BY <2>1, <2>2
<1>3. CallersApart'
  BY DEF PacketInv, CallersApart, Asks
<1>4. ASSUME NEW d \in EMTs \ {e} PROVE EMTPacket(d)'
  BY Elements, OtherEMT DEF PacketInv
<1> QED  BY <1>1, <1>2, <1>3, <1>4 DEF PacketInv

-----------------------------------------------------------------------------
(* The callers.                                                            *)

LEMMA AskedInUse ==
    ASSUME ControlInv, PacketInv, NEW t \in Callers, Asks(t)
    PROVE  /\ call[t].p \in Packets
           /\ state[call[t].p] \in {"ALLOCATED", "QUEUED", "PROCESSING", "COMPLETED"}
           /\ call[t].p \notin free
<1>1. CallerPacket(t) /\ call[t].p \in Packets /\ call[t].pc \in CallPcs /\ StateTells(call[t].p)
  BY Elements DEF PacketInv, CallRecs
<1>2. state[call[t].p] \in {"ALLOCATED", "QUEUED", "PROCESSING", "COMPLETED"}
  BY <1>1 DEF CallerPacket, Asks, CallAt, CallPcs
<1> QED  BY <1>1, <1>2 DEF StateTells

LEMMA PlacesSame ==
    ASSUME ControlInv, PacketInv, NEW P, OnlyPacket(P), Unserved(P), UNCHANGED <<reqs, emt>>
    PROVE  (ListedQueued /\ ListsApart /\ RestsApart /\ HandsApart)'
<1>1. /\ \A e \in EMTs : Hand(e)' = Hand(e) /\ Rest(e)' = Rest(e)
      /\ \A q \in Queues : Listed(q)' = Listed(q)
  BY DEF Hand, HasPacket, Rest, Listed
<1>2. ListedQueued'
  BY <1>1, Elements DEF PacketInv, ListedQueued, OnlyPacket, Unserved
<1> QED  BY <1>1, <1>2 DEF PacketInv, ListsApart, RestsApart, HandsApart

\* A step of a caller that leaves the lists alone and keeps its packet.
LEMMA CallerKeeps ==
    ASSUME ControlInv, PacketInv, NEW t \in Callers, NEW P, OnlyPacket(P), Unserved(P),
           UNCHANGED <<emt, reqs>>, \A u \in Callers \ {t} : call'[u] = call[u],
           PacketTypes', P \in Packets => StateTells(P)',
           \A u \in Callers \ {t} : Asks(u) => call[u].p # P,
           CallerPacket(t)', CallerAlone(t)',
           Asks(t)' => Asks(t) /\ call'[t].p = call[t].p
    PROVE  PacketInv'
<1>1. Asks(t)' => \A u \in Callers \ {t} : Asks(u) => call[u].p # call'[t].p
  BY DEF PacketInv, CallersApart
<1> QED  BY <1>1, PlacesSame, CallerStep

\* One that leaves all packets alone.
LEMMA CallerPlain ==
    ASSUME ControlInv, PacketInv, NEW t \in Callers, UNCHANGED <<packet, emt, reqs, calls>>,
           \A u \in Callers \ {t} : call'[u] = call[u],
           \/ call'[t] = NoCall
           \/ /\ call'[t].p = call[t].p /\ call'[t].n = call[t].n
              /\ call[t].pc \in {"ff", "notify", "wakeup", "poll"}
              /\ \/ call'[t].pc \in {"notify", "wakeup"}
                 \/ call'[t].pc \in {"poll", "wait"} /\ t \in Waiters
    PROVE  PacketInv'
<1>1. OnlyPacket(NoPacket) /\ Unserved(NoPacket)
  <2>1. OnlyPacket(NoPacket)
    BY DEF OnlyPacket, packet
  <2>2. Unserved(NoPacket)
    BY PacketsAre, Elements DEF Unserved, Hand, PacketInv, EMTPacket
  <2> QED  BY <2>1, <2>2
<1>2. \A u \in Callers \ {t} : Asks(u) => call[u].p # NoPacket
  BY PacketsAre, Elements
<1>3. PacketTypes'
  <2>1. call'[t].n \in 0 .. MaxCalls
    BY BoundsAssumption DEF PacketInv, PacketTypes, NoCall
  <2>2. \A u \in Callers : call'[u].n \in 0 .. MaxCalls
    BY <2>1 DEF PacketInv, PacketTypes
  <2> QED  BY <2>2 DEF PacketInv, PacketTypes, packet
<1>4. CallerPacket(t)' /\ CallerAlone(t)' /\ (Asks(t)' => Asks(t) /\ call'[t].p = call[t].p)
  <2>1. CallerPacket(t) /\ CallerAlone(t)
    BY DEF PacketInv
  <2>2. CASE call'[t] = NoCall
    BY <2>2 DEF CallerPacket, CallerAlone, Asks, CallAt, NoCall
  <2>3. CASE call'[t] # NoCall
    <3>1. CallerPacket(t)'
      BY <2>1, <2>3 DEF CallerPacket, Asks, CallAt, packet
    <3>2. CallerAlone(t)'
      BY <2>1, <2>3 DEF CallerAlone, Asks, Hand, HasPacket
    <3> QED  BY <2>3, <3>1, <3>2 DEF Asks
  <2> QED  BY <2>2, <2>3
<1> QED  BY <1>1, <1>2, <1>3, <1>4, CallerKeeps, PacketsAre

\* VMR3ReqCallVU.
LEMMA BeginPacket ==
    ASSUME ControlInv, PacketInv, NEW t \in Callers, Begin(t)
    PROVE  PacketInv'
<1>1. PICK p \in Packets, dst \in Dests : VMR3ReqCallVU(t, p, dst)
  BY DEF Begin
<1>2. /\ p \in free /\ calls \in Nat /\ calls < MaxCalls /\ call \in [Callers -> CallRecs]
      /\ StateTells(p) /\ state[p] = "FREE"
  BY <1>1 DEF VMR3ReqCallVU, Allocated, ControlInv, PacketInv, StateTells
<1>3. /\ call'[t].pc = "queue" /\ call'[t].p = p /\ call'[t].n = calls'
      /\ \A u \in Callers \ {t} : call'[u] = call[u]
  BY <1>1, <1>2 DEF VMR3ReqCallVU
<1>4. OnlyPacket(p)
  BY <1>1 DEF VMR3ReqCallVU, Allocated, PacketInv, PacketTypes, OnlyPacket
<1>5. /\ p \notin free' /\ state'[p] = "ALLOCATED" /\ args'[p] = calls' /\ noWait'[p] = (t \notin Waiters)
      /\ event'[p] = (event[p] /\ eventClear[p]) /\ calls' = calls + 1
  BY <1>1 DEF VMR3ReqCallVU, Allocated, PacketInv, PacketTypes
<1>6. ~event'[p]
  BY <1>2, <1>5 DEF StateTells
<1>7. PacketTypes'
  <2>1. calls' \in 0 .. MaxCalls
    BY <1>2, <1>5, BoundsAssumption
  <2>2. \A u \in Callers : call'[u].n \in 0 .. MaxCalls
    BY <1>3, <2>1 DEF PacketInv, PacketTypes
  <2>3. event' \in [Packets -> BOOLEAN] /\ noWait' \in [Packets -> BOOLEAN]
    BY <1>1 DEF VMR3ReqCallVU, Allocated, PacketInv, PacketTypes
  <2> QED  BY <1>1, <2>1, <2>2, <2>3 DEF VMR3ReqCallVU, Allocated, PacketInv, PacketTypes, States
<1>8. StateTells(p)'
  BY <1>5, <1>6 DEF StateTells
<1>9. CallerPacket(t)'
  BY <1>3, <1>5 DEF CallerPacket, CallAt, Asks
<1>10. Unserved(p)
  BY <1>2, NotServed
<1>11. UNCHANGED <<emt, reqs>>
  BY <1>1 DEF VMR3ReqCallVU, queues
<1>12. CallerAlone(t)'
  BY <1>3, <1>10, <1>11 DEF CallerAlone, Unserved, Hand, HasPacket
<1>13. \A u \in Callers \ {t} : Asks(u) => call[u].p # p
  BY <1>2, AskedInUse
<1>14. (ListedQueued /\ ListsApart /\ RestsApart /\ HandsApart)'
  BY <1>4, <1>10, <1>11, PlacesSame
<1> QED  BY <1>3, <1>4, <1>7, <1>8, <1>9, <1>10, <1>11, <1>12, <1>13, <1>14, CallerStep

\* VMR3ReqQueue: the packet is on the list and, where nobody waits, out of the
\* caller's hands.
LEMMA PushPacket ==
    ASSUME ControlInv, PacketInv, NEW t \in Callers, Push(t)
    PROVE  PacketInv'
<1>1. call[t].p \in Packets /\ Head(call[t].dst) \in Queues
  <2>1. call[t].pc = "queue" /\ call[t] \in CallRecs /\ CallOk(t)
    BY DEF Push, CallAt, ControlInv
  <2>2. call[t].dst \in Seq(Queues) /\ call[t].dst # <<>>
    BY <2>1 DEF CallOk, CallRecs
  <2> QED  BY <2>1, <2>2 DEF CallOk
<1>2. PICK P \in Packets : P = call[t].p
  BY <1>1
<1>3. PICK q \in Queues : q = Head(call[t].dst)
  BY <1>1
<1>4. /\ call[t].pc = "queue" /\ Asks(t) /\ state[P] = "ALLOCATED"
      /\ CallerPacket(t) /\ CallerAlone(t) /\ StateTells(P) /\ call \in [Callers -> CallRecs]
  BY <1>2 DEF Push, CallerPacket, CallAt, Asks, PacketInv, ControlInv
<1>5. /\ call'[t].pc = "ff" /\ call'[t].p = P /\ call'[t].n = call[t].n
      /\ \A u \in Callers \ {t} : call'[u] = call[u]
  BY <1>4, <1>2 DEF Push, CallGoto, CallRecs
<1>6. /\ reqs'[q] = <<P>> \o reqs[q] /\ \A r \in Queues \ {q} : reqs'[r] = reqs[r]
      /\ state' = [state EXCEPT ![P] = "QUEUED"]
      /\ UNCHANGED <<status, args, noWait, event, eventClear, free, ff, emt, halts, calls>>
  BY <1>2, <1>3 DEF Push, ControlInv
<1>7. OnlyPacket(P) /\ state'[P] = "QUEUED"
  BY <1>4, <1>6 DEF OnlyPacket, PacketInv, PacketTypes
<1>8. Unserved(P)
  BY <1>4, NotServed
<1>9. PacketTypes'
  <2>1. \A u \in Callers : call'[u].n \in 0 .. MaxCalls
    BY <1>5 DEF PacketInv, PacketTypes
  <2> QED  BY <1>4, <1>6, <2>1 DEF PacketInv, PacketTypes, States
<1>10. StateTells(P)'
  BY <1>4, <1>6, <1>7 DEF StateTells
<1>11. CallerPacket(t)'
  BY <1>4, <1>5, <1>6, <1>7, <1>2 DEF CallerPacket, CallAt, Asks
<1>12. /\ \A e \in EMTs : Hand(e)' = Hand(e) /\ Rest(e)' = Rest(e) /\ emt'[e] = emt[e]
      /\ \A r \in Queues \ {q} : Listed(r)' = Listed(r)
  BY <1>6 DEF Hand, HasPacket, Rest, Listed
<1>13. Listed(q)' = {P} \cup Listed(q) /\ Once(reqs'[q])
  <2>1. reqs[q] \in Seq(Packets) /\ Once(reqs[q]) /\ P \notin Listed(q)
    BY <1>4, <1>8, Elements DEF PacketInv, ListsApart, Unserved
  <2> QED  BY <1>4, <1>6, <2>1, PushOnce DEF Listed
<1>14. CallerAlone(t)'
  BY <1>5, <1>8, <1>12 DEF CallerAlone, Unserved
<1>15. \A u \in Callers \ {t} : Asks(u) => call[u].p # P
  BY <1>4, <1>2 DEF PacketInv, CallersApart
<1>16. ListedQueued'
  BY <1>7, <1>12, <1>13, Elements DEF PacketInv, ListedQueued, OnlyPacket
<1>17. ListsApart'
  <2>1. ASSUME NEW r \in Queues PROVE Once(reqs[r])'
    BY <1>6, <1>13 DEF PacketInv, ListsApart
  <2>2. ASSUME NEW r \in Queues, NEW s \in Queues, r # s PROVE (Listed(r) \cap Listed(s))' = {}
    BY <1>8, <1>12, <1>13, <2>2 DEF PacketInv, ListsApart, Unserved
  <2> QED  BY <2>1, <2>2 DEF ListsApart
<1>18. RestsApart'
  <2>1. ASSUME NEW e \in EMTs, NEW r \in Queues PROVE (Rest(e) \cap Listed(r))' = {}
    BY <1>8, <1>12, <1>13 DEF PacketInv, RestsApart, Unserved
  <2> QED  BY <1>12, <2>1 DEF PacketInv, RestsApart
<1>19. HandsApart'
  <2>1. ASSUME NEW e \in EMTs, NEW r \in Queues PROVE (Hand(e) \cap Listed(r))' = {}
    BY <1>8, <1>12, <1>13 DEF PacketInv, HandsApart, Unserved
  <2> QED  BY <1>12, <2>1 DEF PacketInv, HandsApart
<1> QED  BY <1>2, <1>4, <1>5, <1>6, <1>7, <1>8, <1>9, <1>10, <1>11, <1>14, <1>15, <1>16, <1>17, <1>18, <1>19, CallerStep

\* Waiting, and what follows: all about a packet that nobody serves.
LEMMA WaitPacket ==
    ASSUME ControlInv, PacketInv, NEW t \in Callers,
           PollWoken(t) \/ Woken(t) \/ Check(t) \/ NextCpu(t) \/ VMR3ReqFree(t)
    PROVE  PacketInv'
<1>1. /\ call[t].pc \in {"poll", "wait", "check", "done"} /\ t \in Waiters /\ Asks(t)
      /\ CallerPacket(t) /\ CallerAlone(t) /\ call[t].p \in Packets /\ call[t] \in CallRecs
      /\ call \in [Callers -> CallRecs]
  <2>1. call[t].pc \in {"poll", "wait", "check", "done"} /\ CallerPacket(t) /\ CallerAlone(t)
    BY DEF PollWoken, Woken, Check, NextCpu, VMR3ReqFree, CallAt, PacketInv
  <2>2. t \in Waiters /\ Asks(t)
    BY <2>1 DEF CallerPacket, Asks
  <2> QED  BY <2>1, <2>2, Elements DEF ControlInv
<1>2. PICK P \in Packets : P = call[t].p
  BY <1>1
<1>3. StateTells(P) /\ (event[P] \/ call[t].pc \in {"check", "done"})
  BY <1>2 DEF PacketInv, PollWoken, Woken, Check, NextCpu, VMR3ReqFree, CallAt
<1>4. Unserved(P) /\ state[P] = "COMPLETED"
  <2>1. Unserved(P)
    BY <1>1, <1>2, <1>3, NotServed
  <2>2. state[P] \in {"FREE", "COMPLETED"} /\ P \notin free
    BY <1>1, <1>2, <1>3, AskedInUse DEF StateTells, CallerPacket
  <2> QED  BY <1>3, <2>1, <2>2 DEF StateTells
<1>5. \A u \in Callers \ {t} : Asks(u) => call[u].p # P
  BY <1>1, <1>2 DEF PacketInv, CallersApart
<1>6. \A u \in Callers \ {t} : call'[u] = call[u]
  BY <1>1 DEF PollWoken, Woken, Check, NextCpu, VMR3ReqFree, CallGoto
<1>7. UNCHANGED <<emt, reqs, calls>>
  BY DEF PollWoken, Woken, Check, NextCpu, VMR3ReqFree, queues
<1>8. OnlyPacket(P)
  BY <1>2 DEF PollWoken, Woken, Check, NextCpu, VMR3ReqFree, Freed, OnlyPacket, PacketInv, PacketTypes
<1>9. ASSUME call'[t].n \in 0 .. MaxCalls PROVE PacketTypes'
  <2>1. \A u \in Callers : call'[u].n \in 0 .. MaxCalls
    <3>1. \A u \in Callers : call[u].n \in 0 .. MaxCalls
      BY DEF PacketInv, PacketTypes
    <3> QED  BY <1>6, <1>9, <3>1
  <2>2. /\ state' \in [Packets -> States] /\ status' \in [Packets -> 0 .. MaxCalls]
        /\ args' \in [Packets -> 0 .. MaxCalls] /\ noWait' \in [Packets -> BOOLEAN] /\ free' \subseteq Packets
    <3>1. CASE PollWoken(t) \/ Woken(t) \/ Check(t)
      BY <3>1 DEF PollWoken, Woken, Check, PacketInv, PacketTypes
    <3>2. CASE NextCpu(t)
      BY <1>2, <3>2 DEF NextCpu, PacketInv, PacketTypes, States
    <3>3. CASE VMR3ReqFree(t)
      <4>1. 0 \in 0 .. MaxCalls
        BY BoundsAssumption
      <4>2. PacketTypes /\ Freed(P)
        BY <1>2, <3>3 DEF VMR3ReqFree, PacketInv
      <4> QED  BY <4>1, <4>2 DEF Freed, PacketTypes, States
    <3> QED  BY <3>1, <3>2, <3>3
  <2>3. event' \in [Packets -> BOOLEAN] /\ eventClear' \in [Packets -> BOOLEAN]
    BY <1>2 DEF PollWoken, Woken, Check, NextCpu, VMR3ReqFree, PacketInv, PacketTypes
  <2> QED  BY <1>7, <2>1, <2>2, <2>3 DEF PacketInv, PacketTypes
<1>10. call[t].n \in 0 .. MaxCalls
  BY DEF PacketInv, PacketTypes
<1>11. CASE PollWoken(t)
  <2>1. /\ call'[t].pc = "wait" /\ call'[t].p = P /\ call'[t].n = call[t].n
        /\ eventClear'[P] /\ ~event'[P] /\ UNCHANGED <<state, status, args, noWait, free>>
    BY <1>1, <1>2, <1>11 DEF PollWoken, CallGoto, CallRecs, PacketInv, PacketTypes
  <2>2. StateTells(P)' /\ CallerPacket(t)'
    BY <1>1, <1>2, <1>3, <1>4, <2>1 DEF StateTells, CallerPacket, Asks, CallAt
  <2>3. CallerAlone(t)'
    BY <1>4, <1>7, <2>1 DEF CallerAlone, Unserved, Hand, HasPacket
  <2> QED  BY <1>1, <1>2, <1>4, <1>5, <1>6, <1>7, <1>8, <1>9, <1>10, <2>1, <2>2, <2>3, CallerKeeps
<1>12. CASE Woken(t)
  <2>1. /\ call'[t].pc = "check" /\ call'[t].p = P /\ call'[t].n = call[t].n
        /\ ~event'[P] /\ UNCHANGED <<state, status, args, noWait, free>>
    BY <1>1, <1>2, <1>12 DEF Woken, CallGoto, CallRecs, PacketInv, PacketTypes
  <2>2. StateTells(P)' /\ CallerPacket(t)'
    BY <1>1, <1>2, <1>3, <1>4, <2>1 DEF StateTells, CallerPacket, Asks, CallAt
  <2>3. CallerAlone(t)'
    BY <1>4, <1>7, <2>1 DEF CallerAlone, Unserved, Hand, HasPacket
  <2> QED  BY <1>1, <1>2, <1>4, <1>5, <1>6, <1>7, <1>8, <1>9, <1>10, <2>1, <2>2, <2>3, CallerKeeps
<1>13. CASE Check(t)
  <2>1. /\ call'[t].pc = "done" /\ call'[t].p = P /\ call'[t].n = call[t].n
        /\ UNCHANGED <<state, status, args, noWait, event, free>>
    BY <1>1, <1>2, <1>4, <1>13 DEF Check, CallGoto, CallRecs, PacketInv, PacketTypes
  <2>2. ~event[P]
    BY <1>1, <1>2, <1>13 DEF Check, CallAt, CallerPacket
  <2>3. StateTells(P)' /\ CallerPacket(t)'
    BY <1>1, <1>2, <1>3, <1>4, <2>1, <2>2 DEF StateTells, CallerPacket, Asks, CallAt
  <2>4. CallerAlone(t)'
    BY <1>4, <1>7, <2>1 DEF CallerAlone, Unserved, Hand, HasPacket
  <2> QED  BY <1>1, <1>2, <1>4, <1>5, <1>6, <1>7, <1>8, <1>9, <1>10, <2>1, <2>3, <2>4, CallerKeeps
<1>14. CASE NextCpu(t)
  <2>1. /\ call'[t].pc = "queue" /\ call'[t].p = P /\ call'[t].n = call[t].n /\ state'[P] = "ALLOCATED"
        /\ UNCHANGED <<status, args, noWait, event, eventClear, free>>
    <3>1. call'[t] = [call[t] EXCEPT !.pc = "queue", !.dst = Tail(call[t].dst)]
      BY <1>1, <1>14 DEF NextCpu
    <3> QED  BY <1>1, <1>2, <1>14, <3>1 DEF NextCpu, CallRecs, PacketInv, PacketTypes
  <2>2. ~event[P]
    BY <1>1, <1>2, <1>14 DEF NextCpu, CallAt, CallerPacket
  <2>3. StateTells(P)' /\ CallerPacket(t)'
    BY <1>1, <1>2, <1>3, <1>4, <2>1, <2>2 DEF StateTells, CallerPacket, Asks, CallAt
  <2>4. CallerAlone(t)'
    BY <1>4, <1>7, <2>1 DEF CallerAlone, Unserved, Hand, HasPacket
  <2> QED  BY <1>1, <1>2, <1>4, <1>5, <1>6, <1>7, <1>8, <1>9, <1>10, <2>1, <2>3, <2>4, CallerKeeps
<1>15. CASE VMR3ReqFree(t)
  <2>1. /\ call'[t] = NoCall /\ state'[P] = "FREE" /\ P \in free'
        /\ UNCHANGED <<event, eventClear>>
    BY <1>1, <1>2, <1>4, <1>15 DEF VMR3ReqFree, Freed, PacketInv, PacketTypes
  <2>2. ~event[P]
    BY <1>1, <1>2, <1>15 DEF VMR3ReqFree, CallAt, CallerPacket
  <2>3. StateTells(P)'
    BY <2>1, <2>2 DEF StateTells
  <2>4. CallerPacket(t)' /\ CallerAlone(t)' /\ ~Asks(t)' /\ call'[t].n \in 0 .. MaxCalls
    BY <2>1, BoundsAssumption DEF NoCall, CallerPacket, CallerAlone, Asks, CallAt
  <2> QED  BY <1>2, <1>4, <1>5, <1>6, <1>7, <1>8, <1>9, <2>3, <2>4, CallerKeeps
<1> QED  BY <1>11, <1>12, <1>13, <1>14, <1>15

LEMMA CallingPacket ==
    ASSUME ControlInv, PacketInv, NEW t \in Callers, Begin(t) \/ Calling(t)
    PROVE  PacketInv'
<1>1. call \in [Callers -> CallRecs] /\ call[t] \in CallRecs
  BY DEF ControlInv
<1>2. CASE SetFF(t)
  <2> DEFINE cpus == IF Head(call[t].dst) = ANY THEN AllCpus ELSE <<Head(call[t].dst)>>
  <2>1. call' = [call EXCEPT ![t] = [call[t] EXCEPT !.pc = "notify", !.cpus = cpus]]
    BY <1>2 DEF SetFF
  <2> HIDE DEF cpus
  <2>2. /\ call'[t].pc = "notify" /\ call'[t].p = call[t].p /\ call'[t].n = call[t].n
        /\ \A u \in Callers \ {t} : call'[u] = call[u]
    BY <1>1, <2>1 DEF CallRecs
  <2> QED  BY <1>2, <2>2, CallerPlain DEF SetFF, CallAt, queues
<1>3. CASE NotifyCpuFF(t) \/ SchedWakeUp(t)
  <2>1. call[t].pc \in {"notify", "wakeup"} /\ UNCHANGED <<packet, emt, reqs, calls>>
    BY <1>3 DEF NotifyCpuFF, SchedWakeUp, CallAt, queues
  <2>2. \/ call' = [call EXCEPT ![t] = NoCall]
        \/ \E label \in {"notify", "wakeup"} : CallGoto(t, label)
        \/ /\ t \in Waiters
           /\ \E label \in {"poll", "wait"} : call' = [call EXCEPT ![t] = [call[t] EXCEPT !.pc = label, !.cpus = <<>>]]
        \/ \E cpus : call' = [call EXCEPT ![t] = [call[t] EXCEPT !.pc = "notify", !.cpus = cpus]]
    BY <1>3 DEF NotifyCpuFF, SchedWakeUp, Notified
  <2>3. \A u \in Callers \ {t} : call'[u] = call[u]
    BY <1>1, <2>2 DEF CallGoto
  <2>4. \/ call'[t] = NoCall
        \/ /\ call'[t].p = call[t].p /\ call'[t].n = call[t].n
           /\ call'[t].pc \in {"notify", "wakeup"} \/ (call'[t].pc \in {"poll", "wait"} /\ t \in Waiters)
    <3>1. CASE call' = [call EXCEPT ![t] = NoCall]
      BY <1>1, <3>1
    <3>2. ASSUME NEW label \in {"notify", "wakeup"}, CallGoto(t, label)
          PROVE  call'[t].p = call[t].p /\ call'[t].n = call[t].n /\ call'[t].pc \in {"notify", "wakeup"}
      BY <1>1, <3>2 DEF CallGoto, CallRecs
    <3>3. ASSUME NEW label \in {"poll", "wait"}, call' = [call EXCEPT ![t] = [call[t] EXCEPT !.pc = label, !.cpus = <<>>]]
          PROVE  call'[t].p = call[t].p /\ call'[t].n = call[t].n /\ call'[t].pc \in {"poll", "wait"}
      BY <1>1, <3>3 DEF CallRecs
    <3>4. ASSUME NEW cpus, call' = [call EXCEPT ![t] = [call[t] EXCEPT !.pc = "notify", !.cpus = cpus]]
          PROVE  call'[t].p = call[t].p /\ call'[t].n = call[t].n /\ call'[t].pc = "notify"
      BY <1>1, <3>4 DEF CallRecs
    <3> QED  BY <2>2, <3>1, <3>2, <3>3, <3>4
  <2> QED  BY <2>1, <2>3, <2>4, CallerPlain
<1>4. CASE PollTimesOut(t)
  <2>1. /\ call'[t].pc = "wait" /\ call'[t].p = call[t].p /\ call'[t].n = call[t].n /\ call[t].pc = "poll"
        /\ \A u \in Callers \ {t} : call'[u] = call[u]
    BY <1>1, <1>4 DEF PollTimesOut, CallGoto, CallRecs, CallAt
  <2>2. t \in Waiters
    BY <2>1 DEF PacketInv, CallerPacket
  <2> QED  BY <1>4, <2>1, <2>2, CallerPlain DEF PollTimesOut, queues
<1> QED  BY <1>2, <1>3, <1>4, BeginPacket, PushPacket, WaitPacket DEF Calling

-----------------------------------------------------------------------------
(* The EMTs.                                                               *)

\* What an EMT has in hand is nowhere else.
LEMMA HandAlone ==
    ASSUME ControlInv, PacketInv, NEW e \in EMTs, HasPacket(e)
    PROVE  /\ emt[e].p \in Packets
           /\ \A d \in EMTs : emt[e].p \notin Rest(d) /\ (d # e => emt[e].p \notin Hand(d))
           /\ \A q \in Queues : emt[e].p \notin Listed(q)
BY DEF PacketInv, EMTPacket, HandsApart, Hand

LEMMA PlacesShrink ==
    ASSUME ControlInv, PacketInv, NEW e \in EMTs, NEW P, OnlyPacket(P),
           \A q \in Queues : P \notin Listed(q), UNCHANGED reqs,
           \A d \in EMTs \ {e} : emt'[d] = emt[d],
           Hand(e)' \subseteq Hand(e), emt'[e].rest = <<>>
    PROVE  (ListedQueued /\ ListsApart /\ RestsApart /\ HandsApart)'
<1>1. /\ \A d \in EMTs : Hand(d)' \subseteq Hand(d) /\ Rest(d)' \subseteq Rest(d)
      /\ \A q \in Queues : Listed(q)' = Listed(q)
      /\ \A d \in EMTs : Once(emt[d].rest)'
  <2>1. ASSUME NEW d \in EMTs \ {e}
        PROVE  Hand(d)' = Hand(d) /\ Rest(d)' = Rest(d) /\ Once(emt[d].rest)'
    BY DEF Hand, HasPacket, Rest, PacketInv, RestsApart
  <2>2. Rest(e)' = {} /\ Once(emt[e].rest)'
    BY EmptyOnce DEF Rest
  <2>3. \A q \in Queues : Listed(q)' = Listed(q)
    BY DEF Listed
  <2> QED  BY <2>1, <2>2, <2>3
<1>2. ListedQueued'
  BY <1>1, Elements DEF PacketInv, ListedQueued, OnlyPacket
<1>3. ListsApart'
  BY <1>1 DEF PacketInv, ListsApart
<1>4. RestsApart'
  <2>1. \A c, d \in EMTs : c # d => Rest(c) \cap Rest(d) = {}
    BY DEF PacketInv, RestsApart
  <2>2. \A c \in EMTs, q \in Queues : Rest(c) \cap Listed(q) = {}
    BY DEF PacketInv, RestsApart
  <2> QED  BY <1>1, <2>1, <2>2 DEF RestsApart
<1>5. HandsApart'
  <2>1. \A c \in EMTs, q \in Queues : Hand(c) \cap Listed(q) = {}
    BY DEF PacketInv, HandsApart
  <2>2. \A c, d \in EMTs : Hand(c) \cap Rest(d) = {}
    BY DEF PacketInv, HandsApart
  <2>3. \A c, d \in EMTs : c # d => Hand(c) \cap Hand(d) = {}
    BY DEF PacketInv, HandsApart
  <2> QED  BY <1>1, <2>1, <2>2, <2>3 DEF HandsApart
<1> QED  BY <1>2, <1>3, <1>4, <1>5

\* A step of an EMT that takes nothing.
LEMMA EMTKeeps ==
    ASSUME ControlInv, PacketInv, NEW e \in EMTs, NEW P, OnlyPacket(P),
           \A d \in EMTs \ {e} : P \notin Hand(d) /\ P \notin Rest(d),
           \A q \in Queues : P \notin Listed(q),
           UNCHANGED <<call, reqs>>, \A d \in EMTs \ {e} : emt'[d] = emt[d],
           PacketTypes', P \in Packets => StateTells(P)',
           \A t \in Callers : Asks(t) /\ call[t].p = P => CallerPacket(t)',
           EMTPacket(e)', Hand(e)' \subseteq Hand(e), emt'[e].rest = <<>>, emt'[e].own => emt[e].own
    PROVE  PacketInv'
<1>1. (ListedQueued /\ ListsApart /\ RestsApart /\ HandsApart)'
  BY PlacesShrink
<1>2. \A t \in Callers : Asks(t) /\ call[t].p \in Hand(e)' =>
        ~emt'[e].own /\ call[t].pc \notin {"check", "done"}
  BY DEF PacketInv, CallerAlone
<1> QED  BY <1>1, <1>2, EMTStep

\* One that leaves all packets alone.
LEMMA EMTPlain ==
    ASSUME ControlInv, PacketInv, NEW e \in EMTs, UNCHANGED <<packet, reqs, call, calls>>,
           \A d \in EMTs \ {e} : emt'[d] = emt[d],
           EMTPacket(e)', Hand(e)' \subseteq Hand(e), emt'[e].rest = <<>>, emt'[e].own => emt[e].own
    PROVE  PacketInv'
<1>1. OnlyPacket(NoPacket)
  BY DEF OnlyPacket, packet
<1>2. /\ \A d \in EMTs : NoPacket \notin Hand(d) /\ NoPacket \notin Rest(d)
      /\ \A q \in Queues : NoPacket \notin Listed(q)
  BY PacketsAre, Elements DEF Hand, PacketInv, EMTPacket
<1>3. PacketTypes'
  BY DEF PacketInv, PacketTypes, packet
<1>4. \A t \in Callers : Asks(t) => call[t].p # NoPacket
  BY PacketsAre, Elements
<1> QED  BY <1>1, <1>2, <1>3, <1>4, PacketsAre, EMTKeeps

LEMMA EMTGone ==
    ASSUME ControlInv, NEW e \in EMTs, NEW label, EMTGoto(e, label)
    PROVE  /\ emt'[e].pc = label /\ emt'[e].p = emt[e].p /\ emt'[e].rest = emt[e].rest
           /\ emt'[e].own = emt[e].own /\ emt'[e].q = emt[e].q
           /\ \A d \in EMTs \ {e} : emt'[d] = emt[d]
<1>1. emt \in [EMTs -> EMTRecs] /\ emt[e] \in EMTRecs
  BY DEF ControlInv
<1> QED  BY <1>1 DEF EMTGoto, EMTRecs

\* Beginning to process, halting, and going on after a request.
IdlePcs == {"run", "clearff", "take", "halt", "test", "block", "reset"}

LEMMA IdlePacket ==
    ASSUME ControlInv, PacketInv, NEW e \in EMTs,
           \/ (\E q \in Queues : VMR3ReqProcessU(e, q)) \/ ClearFF(e) \/ Loop(e)
           \/ FreeRefused(e) \/ VMR3WaitU(e) \/ Halting(e)
    PROVE  PacketInv'
<1>1. emt \in [EMTs -> EMTRecs] /\ emt[e] \in EMTRecs
  BY DEF ControlInv
<1>2. UNCHANGED <<packet, reqs, call, calls>>
  BY DEF VMR3ReqProcessU, ClearFF, Loop, FreeRefused, VMR3WaitU, Halting, Halt, Test, Block, ResetEvent, queues
<1>3. ASSUME emt'[e].pc \in IdlePcs, ~emt'[e].own, emt'[e].rest = <<>>, \A d \in EMTs \ {e} : emt'[d] = emt[d]
      PROVE  PacketInv'
  <2>1. EMTPacket(e)' /\ Hand(e)' = {}
    BY <1>3, EmptyOnce DEF EMTPacket, Hand, HasPacket, HandPcs, HeldPcs, IdlePcs, EMTAt, Rest
  <2> QED  BY <1>2, <1>3, <2>1, EMTPlain
<1>4. CASE Loop(e) \/ FreeRefused(e)
  <2>1. \/ emt' = [emt EXCEPT ![e] = [Runs EXCEPT !.pc = "clearff", !.q = emt[e].q]]
        \/ emt' = [emt EXCEPT ![e] = Runs]
    BY <1>4 DEF Loop, FreeRefused
  <2>2. /\ emt'[e].pc \in IdlePcs /\ ~emt'[e].own /\ emt'[e].rest = <<>>
        /\ \A d \in EMTs \ {e} : emt'[d] = emt[d]
    <3> DEFINE r == [Runs EXCEPT !.pc = "clearff", !.q = emt[e].q]
    <3>1. r.pc \in IdlePcs /\ ~r.own /\ r.rest = <<>>
      BY DEF Runs, IdlePcs
    <3>2. Runs.pc \in IdlePcs /\ ~Runs.own /\ Runs.rest = <<>>
      BY DEF Runs, IdlePcs
    <3>3. emt' = [emt EXCEPT ![e] = r] \/ emt' = [emt EXCEPT ![e] = Runs]
      BY <2>1
    <3> HIDE DEF r
    <3> QED  BY <1>1, <3>1, <3>2, <3>3
  <2> QED  BY <1>3, <2>2
<1>5. CASE ~Loop(e) /\ ~FreeRefused(e)
  <2>1. emt[e].pc \in IdlePcs /\ EMTPacket(e)
    BY <1>5 DEF VMR3ReqProcessU, ClearFF, VMR3WaitU, Halting, Halt, Test, Block, ResetEvent, EMTAt, IdlePcs, PacketInv
  <2>2. ~emt[e].own /\ emt[e].rest = <<>>
    BY <2>1 DEF EMTPacket, EMTAt, IdlePcs
  <2>3. CASE \E q \in Queues : VMR3ReqProcessU(e, q)
    <3>1. PICK q \in Queues : emt' = [emt EXCEPT ![e] = [emt[e] EXCEPT !.pc = "clearff", !.q = q]]
      BY <2>3 DEF VMR3ReqProcessU
    <3>2. /\ emt'[e].pc = "clearff" /\ ~emt'[e].own /\ emt'[e].rest = <<>>
          /\ \A d \in EMTs \ {e} : emt'[d] = emt[d]
      BY <1>1, <2>2, <3>1 DEF EMTRecs
    <3> QED  BY <1>3, <3>2 DEF IdlePcs
  <2>4. CASE ~\E q \in Queues : VMR3ReqProcessU(e, q)
    <3>1. PICK label \in IdlePcs : EMTGoto(e, label)
      BY <1>5, <2>4 DEF ClearFF, VMR3WaitU, Halting, Halt, Test, Block, ResetEvent, IdlePcs
    <3> QED  BY <1>3, <2>2, <3>1, EMTGone
  <2> QED  BY <2>3, <2>4
<1> QED  BY <1>4, <1>5

\* The function is run and the request completed.
LEMMA ServePacket ==
    ASSUME ControlInv, PacketInv, NEW e \in EMTs,
           Process(e) \/ Complete(e) \/ NotClear(e) \/ Signal(e) \/ FreeNoWait(e) \/ OwnFree(e)
    PROVE  PacketInv'
<1>1. HasPacket(e) /\ EMTPacket(e) /\ emt[e].p \in Packets /\ emt[e].rest = <<>>
  <2>1. HasPacket(e) /\ EMTPacket(e) /\ ~EMTAt(e, "putback")
    BY DEF PacketInv, Process, Complete, NotClear, Signal, FreeNoWait, OwnFree, EMTAt, HasPacket, HandPcs, HeldPcs
  <2> QED  BY <2>1 DEF EMTPacket
<1>2. PICK P \in Packets : P = emt[e].p
  BY <1>1
<1>3. /\ \A d \in EMTs \ {e} : P \notin Hand(d) /\ P \notin Rest(d)
      /\ \A q \in Queues : P \notin Listed(q)
      /\ Hand(e) = {P} /\ StateTells(P)
  BY <1>1, <1>2, HandAlone DEF Hand, PacketInv
<1>4. UNCHANGED <<call, reqs, calls>>
  BY DEF Process, Complete, NotClear, Signal, FreeNoWait, OwnFree, queues
<1>5. OnlyPacket(P)
  BY <1>2 DEF Process, Complete, NotClear, Signal, FreeNoWait, OwnFree, Freed, OnlyPacket, PacketInv, PacketTypes
<1>6. ASSUME NEW t \in Callers, Asks(t), call[t].p = P
      PROVE  /\ CallerPacket(t) /\ ~emt[e].own /\ call[t].pc \notin {"check", "done"}
             /\ call'[t] = call[t] /\ call[t].pc # "idle" /\ call[t].pc \in CallPcs
  <2>1. CallerPacket(t) /\ CallerAlone(t) /\ call[t] \in CallRecs
    BY Elements DEF PacketInv
  <2> QED  BY <1>3, <1>4, <1>6, <2>1 DEF CallerAlone, Asks, CallRecs
<1>7. ASSUME NEW r, emt'[e] = r, emt'[e].rest = <<>>, \A d \in EMTs \ {e} : emt'[d] = emt[d],
             emt'[e].own => emt[e].own, Hand(e)' \subseteq {P},
             PacketTypes', StateTells(P)', EMTPacket(e)',
             \A t \in Callers : Asks(t) /\ call[t].p = P => CallerPacket(t)'
      PROVE  PacketInv'
  BY <1>2, <1>3, <1>4, <1>5, <1>7, EMTKeeps
<1>8. PacketTypes /\ 0 \in 0 .. MaxCalls
  BY BoundsAssumption DEF PacketInv
<1>9. CASE Process(e)
  <2>1. /\ emt[e].pc = "process" /\ state[P] = "QUEUED" /\ state'[P] = "PROCESSING" /\ ~emt[e].own
        /\ UNCHANGED <<status, args, noWait, event, eventClear, free>>
    BY <1>1, <1>2, <1>8, <1>9 DEF Process, EMTAt, EMTPacket, HeldPcs, PacketTypes
  <2>2. /\ emt'[e].pc = "return" /\ emt'[e].p = P /\ emt'[e].rest = <<>> /\ ~emt'[e].own
        /\ \A d \in EMTs \ {e} : emt'[d] = emt[d]
    BY <1>1, <1>2, <1>9, <2>1, EMTGone DEF Process
  <2>3. PacketTypes' /\ StateTells(P)'
    BY <1>2, <1>3, <1>4, <1>8, <1>9, <2>1 DEF Process, PacketTypes, StateTells, States
  <2>4. EMTPacket(e)' /\ Hand(e)' \subseteq {P}
    BY <2>1, <2>2, EmptyOnce DEF EMTPacket, EMTAt, HasPacket, Hand, HandPcs, HeldPcs, Rest
  <2>5. ASSUME NEW t \in Callers, Asks(t), call[t].p = P PROVE CallerPacket(t)'
    BY <1>6, <2>1, <2>5 DEF CallerPacket, CallAt, Asks
  <2> QED  BY <1>7, <2>2, <2>3, <2>4, <2>5
<1>10. CASE Complete(e)
  <2>1. /\ emt[e].pc = "return" /\ state[P] = "PROCESSING" /\ state'[P] = "COMPLETED"
        /\ status'[P] = args[P]
        /\ UNCHANGED <<args, noWait, event, eventClear, free>>
    BY <1>1, <1>2, <1>8, <1>10 DEF Complete, EMTAt, EMTPacket, PacketTypes
  <2>2. /\ emt'[e].pc = "notify" /\ emt'[e].p = P /\ emt'[e].rest = <<>> /\ emt'[e].own = emt[e].own
        /\ \A d \in EMTs \ {e} : emt'[d] = emt[d]
    BY <1>1, <1>2, <1>10, EMTGone DEF Complete
  <2>3. PacketTypes' /\ StateTells(P)' /\ ~event[P]
    BY <1>2, <1>3, <1>4, <1>8, <1>10, <2>1 DEF Complete, PacketTypes, StateTells, States
  <2>4. EMTPacket(e)' /\ Hand(e)' \subseteq {P}
    BY <1>1, <1>2, <2>1, <2>2, <2>3, EmptyOnce DEF EMTPacket, EMTAt, HasPacket, Hand, HandPcs, HeldPcs, Rest
  <2>5. ASSUME NEW t \in Callers, Asks(t), call[t].p = P PROVE CallerPacket(t)'
    BY <1>6, <2>1, <2>5 DEF CallerPacket, CallAt, Asks
  <2> QED  BY <1>7, <2>2, <2>3, <2>4, <2>5
<1>11. CASE NotClear(e)
  <2>1. /\ emt[e].pc = "notify" /\ state[P] = "COMPLETED" /\ ~event[P] /\ ~eventClear'[P]
        /\ UNCHANGED <<state, status, args, noWait, event, free>>
    BY <1>1, <1>2, <1>8, <1>11 DEF NotClear, EMTAt, EMTPacket, PacketTypes
  <2>2. /\ emt'[e].pc = "signal" /\ emt'[e].p = P /\ emt'[e].rest = <<>> /\ emt'[e].own = emt[e].own
        /\ \A d \in EMTs \ {e} : emt'[d] = emt[d]
    BY <1>1, <1>2, <1>11, EMTGone DEF NotClear
  <2>3. PacketTypes' /\ StateTells(P)'
    BY <1>2, <1>3, <1>4, <1>8, <1>11, <2>1 DEF NotClear, PacketTypes, StateTells
  <2>4. EMTPacket(e)' /\ Hand(e)' \subseteq {P}
    BY <1>1, <1>2, <2>1, <2>2, EmptyOnce DEF EMTPacket, EMTAt, HasPacket, Hand, HandPcs, HeldPcs, Rest
  <2>5. ASSUME NEW t \in Callers, Asks(t), call[t].p = P PROVE CallerPacket(t)'
    BY <1>6, <2>1, <2>5 DEF CallerPacket, CallAt, Asks
  <2> QED  BY <1>7, <2>2, <2>3, <2>4, <2>5
<1>12. CASE Signal(e)
  <2>1. /\ emt[e].pc = "signal" /\ state[P] = "COMPLETED" /\ ~eventClear[P] /\ event'[P]
        /\ UNCHANGED <<state, status, args, noWait, eventClear, free>>
    BY <1>1, <1>2, <1>8, <1>12 DEF Signal, EMTAt, EMTPacket, PacketTypes
  <2>2. /\ emt'[e].pc = "loop" /\ emt'[e].p = P /\ emt'[e].rest = <<>> /\ emt'[e].own = emt[e].own
        /\ \A d \in EMTs \ {e} : emt'[d] = emt[d]
    BY <1>1, <1>2, <1>12, EMTGone DEF Signal
  <2>3. PacketTypes' /\ StateTells(P)'
    BY <1>2, <1>3, <1>4, <1>8, <1>12, <2>1 DEF Signal, PacketTypes, StateTells
  <2>4. EMTPacket(e)' /\ Hand(e)' \subseteq {P}
    BY <1>1, <1>2, <2>1, <2>2, EmptyOnce DEF EMTPacket, EMTAt, HasPacket, Hand, HandPcs, HeldPcs, Rest
  <2>5. ASSUME NEW t \in Callers, Asks(t), call[t].p = P PROVE CallerPacket(t)'
    BY <1>6, <2>1, <2>5 DEF CallerPacket, CallAt, Asks
  <2> QED  BY <1>7, <2>2, <2>3, <2>4, <2>5
<1>13. CASE FreeNoWait(e) \/ OwnFree(e)
  <2>1. /\ state[P] = "COMPLETED" /\ (event[P] => ~eventClear[P]) /\ Freed(P)
        /\ UNCHANGED <<event, eventClear>>
    BY <1>1, <1>2, <1>13 DEF FreeNoWait, OwnFree, EMTAt, EMTPacket
  <2>2. /\ state'[P] = "FREE" /\ P \in free'
    BY <1>2, <1>8, <2>1 DEF Freed, PacketTypes
  <2>3. /\ emt'[e].pc \in {"run", "loop", "again"} /\ emt'[e].rest = <<>> /\ ~emt'[e].own
        /\ \A d \in EMTs \ {e} : emt'[d] = emt[d]
    <3>1. emt \in [EMTs -> EMTRecs] /\ emt[e] \in EMTRecs
      BY DEF ControlInv
    <3>2. CASE FreeNoWait(e)
      <4>1. PICK r \in EMTRecs : /\ emt' = [emt EXCEPT ![e] = r]
                                 /\ r.pc \in {"run", "loop", "again"} /\ ~r.own
                                 /\ r.rest \in {<<>>, emt[e].rest}
        BY <3>2, AfterFree
      <4> QED  BY <1>1, <3>1, <4>1
    <3>3. CASE OwnFree(e)
      BY <3>1, <3>3 DEF OwnFree, Runs
    <3> QED  BY <1>13, <3>2, <3>3
  <2>4. PacketTypes' /\ StateTells(P)'
    <3>1. PacketTypes'
      BY <1>2, <1>4, <1>8, <2>1 DEF Freed, PacketTypes, States
    <3> QED  BY <2>1, <2>2, <3>1 DEF StateTells
  <2>5. EMTPacket(e)' /\ Hand(e)' \subseteq {P}
    BY <2>3, EmptyOnce DEF EMTPacket, EMTAt, HasPacket, Hand, HandPcs, HeldPcs, Rest
  <2>6. ASSUME NEW t \in Callers, Asks(t), call[t].p = P PROVE FALSE
    <3>1. CASE FreeNoWait(e)
      <4>1. noWait[P] /\ state[P] = "COMPLETED"
        BY <1>2, <2>1, <3>1 DEF FreeNoWait
      <4> QED  BY <1>6, <2>6, <4>1 DEF CallerPacket, CallAt, Asks
    <3>2. CASE OwnFree(e)
      BY <1>6, <2>6, <3>2 DEF OwnFree
    <3> QED  BY <1>13, <3>1, <3>2
  <2> QED  BY <1>7, <2>3, <2>4, <2>5, <2>6
<1> QED  BY <1>9, <1>10, <1>11, <1>12, <1>13

\* Packets are moved between a list and an EMT, and stay what they are.
LEMMA EMTMoves ==
    ASSUME ControlInv, PacketInv, NEW e \in EMTs, NEW q \in Queues, UNCHANGED <<packet, call, calls>>,
           \A d \in EMTs \ {e} : emt'[d] = emt[d],
           \A r \in Queues \ {q} : reqs'[r] = reqs[r],
           Once(reqs'[q]), Once(emt'[e].rest), EMTPacket(e)', ~emt'[e].own,
           (Listed(q) \cup Rest(e) \cup Hand(e))' \subseteq Listed(q) \cup Rest(e) \cup {p \in Hand(e) : state[p] = "QUEUED"},
           (Listed(q) \cap Rest(e) = {} /\ Listed(q) \cap Hand(e) = {} /\ Rest(e) \cap Hand(e) = {})'
    PROVE  PacketInv'
<1> DEFINE Mine == Listed(q) \cup Rest(e) \cup Hand(e)
<1>1. /\ \A d \in EMTs \ {e} : Hand(d)' = Hand(d) /\ Rest(d)' = Rest(d) /\ Once(emt'[d].rest)
      /\ \A r \in Queues \ {q} : Listed(r)' = Listed(r) /\ Once(reqs'[r])
  BY DEF Hand, HasPacket, Rest, Listed, PacketInv, RestsApart, ListsApart
<1>2. /\ \A d \in EMTs \ {e} : Mine \cap Hand(d) = {} /\ Mine \cap Rest(d) = {}
      /\ \A r \in Queues \ {q} : Mine \cap Listed(r) = {}
  BY DEF PacketInv, ListsApart, RestsApart, HandsApart
<1>3. /\ \A p \in Mine' : p \in Mine /\ state[p] = "QUEUED"
      /\ UNCHANGED state
  <2>1. (\A p \in Listed(q) : state[p] = "QUEUED") /\ \A p \in Rest(e) : state[p] = "QUEUED"
    BY DEF PacketInv, ListedQueued, EMTPacket
  <2> QED  BY <2>1 DEF packet
<1> HIDE DEF Mine
<1>4. Listed(q)' \subseteq Mine' /\ Rest(e)' \subseteq Mine' /\ Hand(e)' \subseteq Mine'
  BY DEF Mine
<1>5. ListedQueued'
  <2> SUFFICES ASSUME NEW r \in Queues, NEW p \in Listed(r)' PROVE state'[p] = "QUEUED"
    BY DEF ListedQueued
  <2> QED  BY <1>1, <1>3, <1>4 DEF PacketInv, ListedQueued
<1>6. ListsApart'
  <2>1. \A r \in Queues : Once(reqs'[r])
    BY <1>1
  <2>2. ASSUME NEW r \in Queues, NEW s \in Queues, r # s PROVE (Listed(r) \cap Listed(s))' = {}
    BY <1>1, <1>2, <1>3, <1>4, <2>2 DEF PacketInv, ListsApart
  <2> QED  BY <2>1, <2>2 DEF ListsApart
<1>7. RestsApart'
  <2>1. \A d \in EMTs : Once(emt'[d].rest)
    BY <1>1
  <2>2. ASSUME NEW c \in EMTs, NEW d \in EMTs, c # d PROVE (Rest(c) \cap Rest(d))' = {}
    BY <1>1, <1>2, <1>3, <1>4, <2>2 DEF PacketInv, RestsApart
  <2>3. ASSUME NEW c \in EMTs, NEW r \in Queues PROVE (Rest(c) \cap Listed(r))' = {}
    <3>1. CASE c = e /\ r = q
      BY <3>1
    <3>2. CASE c # e \/ r # q
      BY <1>1, <1>2, <1>3, <1>4, <3>2 DEF PacketInv, RestsApart
    <3> QED  BY <3>1, <3>2
  <2> QED  BY <2>1, <2>2, <2>3 DEF RestsApart
<1>8. HandsApart'
  <2>1. ASSUME NEW c \in EMTs, NEW r \in Queues PROVE (Hand(c) \cap Listed(r))' = {}
    <3>1. CASE c = e /\ r = q
      BY <3>1
    <3>2. CASE c # e \/ r # q
      BY <1>1, <1>2, <1>3, <1>4, <3>2 DEF PacketInv, HandsApart
    <3> QED  BY <3>1, <3>2
  <2>2. ASSUME NEW c \in EMTs, NEW d \in EMTs PROVE (Hand(c) \cap Rest(d))' = {}
    <3>1. CASE c = e /\ d = e
      BY <3>1
    <3>2. CASE c # e \/ d # e
      BY <1>1, <1>2, <1>3, <1>4, <3>2 DEF PacketInv, HandsApart
    <3> QED  BY <3>1, <3>2
  <2>3. ASSUME NEW c \in EMTs, NEW d \in EMTs, c # d PROVE (Hand(c) \cap Hand(d))' = {}
    BY <1>1, <1>2, <1>3, <1>4, <2>3 DEF PacketInv, HandsApart
  <2> QED  BY <2>1, <2>2, <2>3 DEF HandsApart
<1>9. OnlyPacket(NoPacket)
  BY DEF OnlyPacket, packet
<1>10. \A d \in EMTs : NoPacket \notin Hand(d) /\ NoPacket \notin Rest(d)
  BY PacketsAre, Elements DEF Hand, PacketInv, EMTPacket
<1>11. PacketTypes'
  BY DEF PacketInv, PacketTypes, packet
<1>12. \A t \in Callers : Asks(t) => call[t].p # NoPacket
  BY PacketsAre, Elements
<1>13. ASSUME NEW t \in Callers, Asks(t), call[t].p \in Hand(e)'
       PROVE  ~emt'[e].own /\ call[t].pc \notin {"check", "done"}
  <2>1. state[call[t].p] = "QUEUED" /\ CallerPacket(t)
    BY <1>3, <1>4, <1>13 DEF PacketInv
  <2> QED  BY <2>1 DEF CallerPacket
<1> QED  BY <1>5, <1>6, <1>7, <1>8, <1>9, <1>10, <1>11, <1>12, <1>13, PacketsAre, EMTStep

LEMMA TakePacket ==
    ASSUME ControlInv, PacketInv, NEW e \in EMTs, Take(e)
    PROVE  PacketInv'
<1>1. /\ emt \in [EMTs -> EMTRecs] /\ emt[e] \in EMTRecs /\ emt[e].pc = "take" /\ emt[e].q \in Queues
      /\ EMTPacket(e) /\ UNCHANGED <<packet, call, calls>>
  BY DEF ControlInv, Take, EMTAt, PacketInv, EMTRecs
<1>2. ~emt[e].own /\ emt[e].rest = <<>> /\ Hand(e) = {} /\ Rest(e) = {}
  BY <1>1, EmptyOnce DEF EMTPacket, EMTAt, Hand, HasPacket, HandPcs, HeldPcs, Rest
<1>3. PICK q \in Queues : q = emt[e].q
  BY <1>1
<1>4. PICK list \in Seq(Packets) : list = reqs[q]
  BY <1>3, Elements
<1>5. /\ reqs'[q] = <<>> /\ \A r \in Queues \ {q} : reqs'[r] = reqs[r]
      /\ ToSet(list) = Listed(q) /\ Once(list)
  BY <1>3, <1>4 DEF Take, ControlInv, Listed, PacketInv, ListsApart
<1>6. Listed(q)' = {} /\ Once(reqs'[q])
  BY <1>5, EmptyOnce DEF Listed
<1>7. CASE list = <<>>
  <2>1. emt' = [emt EXCEPT ![e] = Runs]
    BY <1>3, <1>4, <1>7 DEF Take
  <2>2. /\ emt'[e].pc = "run" /\ emt'[e].rest = <<>> /\ ~emt'[e].own
        /\ \A d \in EMTs \ {e} : emt'[d] = emt[d]
    BY <1>1, <2>1 DEF Runs
  <2>3. EMTPacket(e)' /\ Hand(e)' = {} /\ Rest(e)' = {} /\ Once(emt'[e].rest)
    BY <2>2, EmptyOnce DEF EMTPacket, Hand, HasPacket, HandPcs, HeldPcs, EMTAt, Rest
  <2> QED  BY <1>1, <1>5, <1>6, <2>2, <2>3, EMTMoves
<1>8. CASE list # <<>>
  <2>1. PICK label \in {"process", "putback"} :
          /\ label = IF Len(list) = 1 THEN "process" ELSE "putback"
          /\ emt' = [emt EXCEPT ![e] = [emt[e] EXCEPT !.pc = label, !.p = Last(list), !.rest = Front(list)]]
    BY <1>3, <1>4, <1>8 DEF Take
  <2>2. /\ emt'[e].pc = label /\ emt'[e].p = Last(list) /\ emt'[e].rest = Front(list) /\ ~emt'[e].own
        /\ \A d \in EMTs \ {e} : emt'[d] = emt[d]
    BY <1>1, <1>2, <2>1 DEF EMTRecs
  <2>3. /\ Last(list) \in Packets /\ ToSet(list) = ToSet(Front(list)) \cup {Last(list)}
        /\ Once(Front(list)) /\ Last(list) \notin ToSet(Front(list))
        /\ label = "process" => Front(list) = <<>>
    BY <1>5, <1>8, <2>1, TakeOnce
  <2>4. Hand(e)' = {Last(list)} /\ Rest(e)' = ToSet(Front(list))
    BY <2>2 DEF Hand, HasPacket, HandPcs, HeldPcs, Rest
  <2>5. \A p \in Listed(q) : state[p] = "QUEUED" /\ state' = state
    BY <1>1 DEF PacketInv, ListedQueued, packet
  <2>6. EMTPacket(e)'
    BY <1>5, <2>2, <2>3, <2>4, <2>5 DEF EMTPacket, HasPacket, HandPcs, HeldPcs, EMTAt
  <2>7. (Listed(q) \cup Rest(e) \cup Hand(e))' \subseteq Listed(q)
    BY <1>5, <1>6, <2>3, <2>4
  <2>8. (Listed(q) \cap Rest(e) = {} /\ Listed(q) \cap Hand(e) = {} /\ Rest(e) \cap Hand(e) = {})'
    BY <1>6, <2>3, <2>4
  <2>9. \A d \in EMTs \ {e} : emt'[d] = emt[d]
    BY <2>2
  <2>10. Once(emt'[e].rest) /\ ~emt'[e].own
    BY <2>2, <2>3
  <2> QED  BY <1>1, <1>5, <1>6, <2>6, <2>7, <2>8, <2>9, <2>10, EMTMoves
<1> QED  BY <1>7, <1>8

LEMMA PutPacket ==
    ASSUME ControlInv, PacketInv, NEW e \in EMTs, PutBack(e) \/ PutBackJoin(e)
    PROVE  PacketInv'
<1>1. /\ emt \in [EMTs -> EMTRecs] /\ emt[e] \in EMTRecs /\ emt[e].pc = "putback" /\ emt[e].q \in Queues
      /\ EMTPacket(e) /\ UNCHANGED <<packet, call, calls>>
  BY DEF ControlInv, PutBack, PutBackJoin, EMTAt, PacketInv, EMTRecs
<1>2. ~emt[e].own /\ Hand(e) = {emt[e].p} /\ state[emt[e].p] = "QUEUED" /\ emt[e].p \in Packets
  BY <1>1 DEF EMTPacket, EMTAt, Hand, HasPacket, HandPcs, HeldPcs
<1>3. PICK q \in Queues : q = emt[e].q
  BY <1>1
<1>4. PICK rest \in Seq(Packets) : rest = emt[e].rest
  BY Elements
<1>5. /\ Hand(e) \cap Listed(q) = {} /\ Hand(e) \cap Rest(e) = {} /\ Rest(e) \cap Listed(q) = {}
      /\ Once(rest) /\ Once(reqs[q]) /\ ToSet(rest) = Rest(e) /\ reqs[q] \in Seq(Packets)
      /\ \A p \in Listed(q) : state[p] = "QUEUED"
  BY <1>4, Elements DEF PacketInv, HandsApart, RestsApart, ListsApart, Rest, ListedQueued
<1>6. \A r \in Queues \ {q} : reqs'[r] = reqs[r]
  BY <1>3 DEF PutBack, PutBackJoin, ControlInv
<1>7. CASE PutBack(e)
  <2>1. emt' = [emt EXCEPT ![e] = [emt[e] EXCEPT !.pc = "ffagain", !.rest = <<>>]] /\ reqs'[q] = rest
    BY <1>3, <1>4, <1>7 DEF PutBack, ControlInv
  <2>2. /\ emt'[e].pc = "ffagain" /\ emt'[e].p = emt[e].p /\ emt'[e].rest = <<>> /\ ~emt'[e].own
        /\ \A d \in EMTs \ {e} : emt'[d] = emt[d]
    BY <1>1, <1>2, <2>1 DEF EMTRecs
  <2>3. Listed(q)' = Rest(e) /\ Rest(e)' = {} /\ Hand(e)' = Hand(e) /\ Once(emt'[e].rest) /\ Once(reqs'[q])
    BY <1>2, <1>5, <2>1, <2>2, EmptyOnce DEF Listed, Rest, Hand, HasPacket, HandPcs, HeldPcs
  <2>4. EMTPacket(e)'
    BY <1>1, <1>2, <2>2, <2>3 DEF EMTPacket, HasPacket, HandPcs, HeldPcs, EMTAt, packet
  <2> QED  BY <1>1, <1>2, <1>5, <1>6, <2>2, <2>3, <2>4, EMTMoves
<1>8. CASE PutBackJoin(e)
  <2> DEFINE join == reqs[q] \o rest
  <2>1. emt' = [emt EXCEPT ![e].rest = join] /\ reqs'[q] = <<>>
    BY <1>3, <1>4, <1>8 DEF PutBackJoin, ControlInv, Joined
  <2>2. /\ join \in Seq(Packets) /\ ToSet(join) = Listed(q) \cup Rest(e) /\ Once(join)
    BY <1>5, JoinOnce DEF Listed
  <2> HIDE DEF join
  <2>3. /\ emt'[e].pc = "putback" /\ emt'[e].p = emt[e].p /\ emt'[e].rest = join /\ ~emt'[e].own
        /\ \A d \in EMTs \ {e} : emt'[d] = emt[d]
    BY <1>1, <1>2, <2>1 DEF EMTRecs
  <2>4. Listed(q)' = {} /\ Rest(e)' = ToSet(join) /\ Hand(e)' = Hand(e) /\ Once(emt'[e].rest) /\ Once(reqs'[q])
    BY <1>2, <2>1, <2>2, <2>3, EmptyOnce DEF Listed, Rest, Hand, HasPacket, HandPcs, HeldPcs
  <2>5. EMTPacket(e)'
    BY <1>1, <1>2, <1>5, <2>2, <2>3, <2>4 DEF EMTPacket, HasPacket, HandPcs, HeldPcs, EMTAt, packet
  <2> QED  BY <1>1, <1>2, <1>5, <1>6, <2>2, <2>3, <2>4, <2>5, EMTMoves
<1> QED  BY <1>7, <1>8

LEMMA FFAgainPacket ==
    ASSUME ControlInv, PacketInv, NEW e \in EMTs, FFAgain(e)
    PROVE  PacketInv'
<1>1. emt[e].pc = "ffagain" /\ EMTPacket(e) /\ UNCHANGED <<packet, reqs, call, calls>>
  BY DEF FFAgain, EMTAt, PacketInv
<1>2. /\ emt'[e].pc = "process" /\ emt'[e].p = emt[e].p /\ emt'[e].rest = emt[e].rest
      /\ emt'[e].own = emt[e].own /\ \A d \in EMTs \ {e} : emt'[d] = emt[d]
  BY EMTGone DEF FFAgain
<1>3. emt[e].rest = <<>> /\ ~emt[e].own
  BY <1>1 DEF EMTPacket, EMTAt
<1>4. EMTPacket(e)' /\ Hand(e)' = Hand(e)
  BY <1>1, <1>2, <1>3, EmptyOnce DEF EMTPacket, HasPacket, HandPcs, HeldPcs, Hand, EMTAt, Rest, packet
<1> QED  BY <1>1, <1>2, <1>3, <1>4, EMTPlain

\* An EMT that asks itself.
LEMMA OwnPacket ==
    ASSUME ControlInv, PacketInv, NEW e \in EMTs, BeginOwn(e)
    PROVE  PacketInv'
<1>1. PICK P \in Packets, nw \in BOOLEAN : OwnCall(e, P, nw)
  BY DEF BeginOwn
<1>2. /\ P \in free /\ calls \in Nat /\ calls < MaxCalls /\ StateTells(P) /\ state[P] = "FREE"
      /\ emt \in [EMTs -> EMTRecs] /\ emt[e] \in EMTRecs /\ emt[e].pc = "run" /\ EMTPacket(e)
      /\ UNCHANGED <<reqs, call>> /\ PacketTypes
  BY <1>1 DEF OwnCall, Allocated, ControlInv, PacketInv, StateTells, EMTAt, queues
<1>3. /\ emt'[e].pc = "return" /\ emt'[e].p = P /\ emt'[e].rest = <<>> /\ emt'[e].own
      /\ \A d \in EMTs \ {e} : emt'[d] = emt[d]
  <2>1. emt[e].rest = <<>>
    BY <1>2 DEF EMTPacket, EMTAt
  <2> QED  BY <1>1, <1>2, <2>1 DEF OwnCall, EMTRecs
<1>4. /\ OnlyPacket(P) /\ P \notin free' /\ state'[P] = "PROCESSING"
      /\ event'[P] = (event[P] /\ eventClear[P]) /\ calls' = calls + 1
  BY <1>1, <1>2 DEF OwnCall, Allocated, PacketTypes, OnlyPacket
<1>5. ~event'[P] /\ StateTells(P)'
  BY <1>2, <1>4 DEF StateTells
<1>6. Unserved(P)
  BY <1>2, NotServed
<1>7. PacketTypes'
  <2>1. calls' \in 0 .. MaxCalls
    BY <1>2, <1>4, BoundsAssumption
  <2>2. \A u \in Callers : call'[u].n \in 0 .. MaxCalls
    BY <1>2 DEF PacketTypes
  <2>3. event' \in [Packets -> BOOLEAN] /\ noWait' \in [Packets -> BOOLEAN]
    BY <1>1, <1>2 DEF OwnCall, Allocated, PacketTypes
  <2> QED  BY <1>1, <1>2, <2>1, <2>2, <2>3 DEF OwnCall, Allocated, PacketTypes, States
<1>8. EMTPacket(e)' /\ Hand(e)' = {P} /\ Rest(e)' = {}
  BY <1>3, <1>4, EmptyOnce DEF EMTPacket, HasPacket, HandPcs, HeldPcs, Hand, EMTAt, Rest
<1>9. /\ \A d \in EMTs \ {e} : Hand(d)' = Hand(d) /\ Rest(d)' = Rest(d)
      /\ \A q \in Queues : Listed(q)' = Listed(q)
      /\ \A d \in EMTs : Once(emt'[d].rest)
  BY <1>2, <1>3, EmptyOnce DEF Hand, HasPacket, Rest, Listed, PacketInv, RestsApart
<1>10. \A t \in Callers : Asks(t) => call[t].p # P
  BY <1>2, AskedInUse
<1>11. ListedQueued' /\ ListsApart'
  BY <1>2, <1>4, <1>6, <1>9, Elements DEF PacketInv, ListedQueued, ListsApart, OnlyPacket, Unserved
<1>12. RestsApart'
  BY <1>8, <1>9 DEF PacketInv, RestsApart
<1>13. HandsApart'
  BY <1>6, <1>8, <1>9 DEF PacketInv, HandsApart, Unserved
<1> QED  BY <1>2, <1>3, <1>4, <1>5, <1>6, <1>7, <1>8, <1>10, <1>11, <1>12, <1>13, EMTStep DEF Unserved

-----------------------------------------------------------------------------
(* What holds of the packets.                                              *)

LEMMA InitPacket == Init => PacketInv
<1> SUFFICES ASSUME Init PROVE PacketInv
  OBVIOUS
<1>1. PacketTypes
  <2>1. 0 \in 0 .. MaxCalls
    BY BoundsAssumption
  <2> QED  BY <2>1 DEF Init, PacketTypes, States, NoCall
<1>2. \A p \in Packets : StateTells(p)
  BY DEF Init, StateTells
<1>3. \A t \in Callers : ~Asks(t) /\ CallerPacket(t) /\ CallerAlone(t)
  BY DEF Init, NoCall, Asks, CallerPacket, CallerAlone, CallAt
<1>4. \A e \in EMTs : emt[e].pc = "run" /\ emt[e].rest = <<>> /\ ~emt[e].own
  BY DEF Init, Runs
<1>5. \A e \in EMTs : EMTPacket(e) /\ Hand(e) = {} /\ Rest(e) = {} /\ Once(emt[e].rest)
  BY <1>4, EmptyOnce DEF EMTPacket, EMTAt, HasPacket, HandPcs, HeldPcs, Hand, Rest
<1>6. \A q \in Queues : Listed(q) = {} /\ Once(reqs[q])
  BY EmptyOnce DEF Init, Listed
<1> QED  BY <1>1, <1>2, <1>3, <1>5, <1>6 DEF PacketInv, CallersApart, ListedQueued, ListsApart, RestsApart, HandsApart

LEMMA StepPacket == ControlInv /\ PacketInv /\ [Careful]_vars => PacketInv'
<1> SUFFICES ASSUME ControlInv, PacketInv, [Careful]_vars PROVE PacketInv'
  OBVIOUS
<1>1. ASSUME NEW t \in Callers, Begin(t) \/ Calling(t) PROVE PacketInv'
  BY <1>1, CallingPacket
<1>2. ASSUME NEW e \in EMTs, BeginOwn(e) \/ Processing(e) \/ VMR3WaitU(e) \/ Halting(e) PROVE PacketInv'
  BY <1>2, OwnPacket, IdlePacket, ServePacket, TakePacket, PutPacket, FFAgainPacket DEF Processing
<1>3. CASE UNCHANGED vars
  <2>1. PacketTypes' /\ (\A p \in Packets : StateTells(p)') /\ ListedQueued'
    BY <1>3 DEF vars, PacketInv, PacketTypes, StateTells, ListedQueued, Listed
  <2>2. (\A t \in Callers : CallerPacket(t)' /\ CallerAlone(t)') /\ CallersApart'
    BY <1>3 DEF vars, PacketInv, CallerPacket, CallerAlone, CallersApart, Asks, Hand, HasPacket, CallAt
  <2>3. \A e \in EMTs : EMTPacket(e)'
    BY <1>3 DEF vars, PacketInv, EMTPacket, HasPacket, Rest, EMTAt
  <2>4. ListsApart' /\ RestsApart' /\ HandsApart'
    BY <1>3 DEF vars, PacketInv, ListsApart, RestsApart, HandsApart, Hand, HasPacket, Rest, Listed
  <2> QED  BY <2>1, <2>2, <2>3, <2>4 DEF PacketInv
<1> QED  BY <1>1, <1>2, <1>3 DEF Careful

\* Wherever a packet is, on a list, in the hands of an EMT or of the caller, it is there
\* once, and its state, its event and its answer are those of that place.
THEOREM PacketInvCorrect == CarefulSpec => [](ControlInv /\ PacketInv)
<1>1. Init => ControlInv /\ PacketInv
  BY InitControl, InitPacket
<1>2. ControlInv /\ PacketInv /\ [Careful]_vars => (ControlInv /\ PacketInv)'
  BY StepControl, StepPacket
<1> QED  BY <1>1, <1>2, PTL DEF CarefulSpec

\* What VMReq.cpp asserts of a packet that is queued, processed, waited for and
\* recycled is so, as long as no packet is freed a second time that has been given to
\* somebody else.
THEOREM AssertionsCorrect == CarefulSpec => []Assertions
<1>1. ASSUME ControlInv, PacketInv PROVE Assertions
  <2>1. TypeOK
    <3>1. call \in [Callers -> [pc : {"idle", "queue", "ff", "notify", "wakeup", "poll", "wait", "check", "done"},
                                p : Packets \cup {NoPacket}, n : 0 .. MaxCalls,
                                dst : Seq(Queues), cpus : Seq(EMTs)]]
      <4>1. call \in [Callers -> CallRecs] /\ \A t \in Callers : call[t].n \in 0 .. MaxCalls
        BY <1>1 DEF ControlInv, PacketInv, PacketTypes
      <4> QED  BY <4>1 DEF CallRecs, CallPcs
    <3>2. emt \in [EMTs -> [pc : {"run", "clearff", "take", "putback", "ffagain", "process",
                                  "return", "notify", "again", "signal", "loop", "halt", "test", "block", "reset"},
                            q : Queues, p : Packets \cup {NoPacket}, rest : Seq(Packets), own : BOOLEAN]]
      <4>1. EMTPcs = {"run", "clearff", "take", "putback", "ffagain", "process",
                      "return", "notify", "again", "signal", "loop", "halt", "test", "block", "reset"}
        BY DEF EMTPcs, TakePcs, HaltPcs
      <4> QED  BY <1>1, <4>1 DEF ControlInv, EMTRecs
    <3> QED  BY <1>1, <3>1, <3>2 DEF ControlInv, PacketInv, PacketTypes, States, TypeOK
  <2>2. ASSUME NEW t \in Callers
        PROVE  /\ CallAt(t, "queue") => state[call[t].p] = "ALLOCATED"
               /\ call[t].pc \in {"poll", "wait"} =>
                    state[call[t].p] \in {"QUEUED", "PROCESSING", "COMPLETED"}
               /\ CallAt(t, "done") => state[call[t].p] = "COMPLETED"
    BY <1>1 DEF PacketInv, CallerPacket, CallAt, Asks
  <2>3. \A e \in EMTs :
          /\ EMTAt(e, "process") => state[emt[e].p] = "QUEUED"
          /\ EMTAt(e, "notify") \/ (EMTAt(e, "loop") /\ emt[e].own) => state[emt[e].p] = "COMPLETED"
    BY <1>1 DEF PacketInv, EMTPacket, EMTAt, HeldPcs
  <2>4. \A p \in free : state[p] = "FREE" /\ (eventClear[p] => ~event[p])
    BY <1>1 DEF PacketInv, PacketTypes, StateTells
  <2> QED  BY <2>1, <2>2, <2>3, <2>4 DEF Assertions
<1> QED  BY <1>1, PacketInvCorrect, PTL

\* The caller that VMR3ReqWait has told of the end finds the answer to its own call, in
\* a packet nobody else uses, under the same condition.
THEOREM AnswerIsMineCorrect == CarefulSpec => []AnswerIsMine
<1>1. ASSUME ControlInv, PacketInv PROVE AnswerIsMine
  <2> SUFFICES ASSUME NEW t \in Callers, CallAt(t, "done")
               PROVE  LET p == call[t].p IN
                      /\ state[p] = "COMPLETED" /\ status[p] = call[t].n
                      /\ p \notin free /\ \A q \in Queues : p \notin ToSet(reqs[q])
    BY DEF AnswerIsMine
  <2>1. /\ state[call[t].p] = "COMPLETED" /\ args[call[t].p] = call[t].n /\ Asks(t) /\ call[t].p \in Packets
    BY <1>1, Elements DEF PacketInv, CallerPacket, CallAt, Asks
  <2>2. StateTells(call[t].p) /\ ListedQueued
    BY <1>1, <2>1 DEF PacketInv
  <2> QED  BY <2>1, <2>2 DEF StateTells, ListedQueued, Listed
<1> QED  BY <1>1, PacketInvCorrect, PTL

-----------------------------------------------------------------------------
(* Lists, newest first, as lines, oldest first.                            *)

LineOf(p, rest, list) == <<p>> \o Reverse(rest) \o Reverse(list)

LEMMA ReverseIs ==
    ASSUME NEW S, NEW s \in Seq(S)
    PROVE  /\ Reverse(s) \in Seq(S) /\ Len(Reverse(s)) = Len(s)
           /\ \A i \in 1 .. Len(s) : Reverse(s)[i] = s[Len(s) - i + 1]
<1> DEFINE n == Len(s)
           r == Reverse(s)
<1>1. n \in Nat /\ \A i \in 1 .. n : s[i] \in S
  OBVIOUS
<1>2. r = [i \in 1 .. n |-> s[(n - i) + 1]]
  BY DEF Reverse
<1>3. \A i \in 1 .. n : (n - i) + 1 \in 1 .. n
  BY <1>1
<1>4. r \in [1 .. n -> S]
  BY <1>1, <1>2, <1>3
<1>5. r \in Seq(S) /\ Len(r) = n
  <2> HIDE DEF r, n
  <2> QED  BY <1>1, <1>4
<1> QED  BY <1>2, <1>5

LEMMA ReverseEmpty == Reverse(<<>>) = <<>>
BY DEF Reverse

LEMMA ReverseOne == \A x : Reverse(<<x>>) = <<x>>
<1> SUFFICES ASSUME NEW x PROVE Reverse(<<x>>) = <<x>>
  OBVIOUS
<1> DEFINE o == <<x>>
<1>1. o \in Seq({x}) /\ Len(o) = 1 /\ o[1] = x
  OBVIOUS
<1> HIDE DEF o
<1>2. Reverse(o) \in Seq({x}) /\ Len(Reverse(o)) = 1 /\ Reverse(o)[1] = o[1 - 1 + 1]
  BY <1>1, ReverseIs
<1>3. Reverse(o) = o
  BY <1>1, <1>2, SeqEqual
<1> QED  BY <1>3 DEF o

LEMMA ReverseJoin ==
    ASSUME NEW S, NEW s \in Seq(S), NEW u \in Seq(S)
    PROVE  Reverse(s \o u) = Reverse(u) \o Reverse(s)
<1> DEFINE a == Len(s)
           b == Len(u)
           l == Reverse(s \o u)
           r == Reverse(u) \o Reverse(s)
<1>1. a \in Nat /\ b \in Nat
  OBVIOUS
<1>2. /\ s \o u \in Seq(S) /\ Len(s \o u) = a + b
      /\ \A i \in 1 .. a + b : (s \o u)[i] = IF i <= a THEN s[i] ELSE u[i - a]
  BY ConcatProperties
<1>3. /\ Reverse(s) \in Seq(S) /\ Len(Reverse(s)) = a /\ \A i \in 1 .. a : Reverse(s)[i] = s[a - i + 1]
      /\ Reverse(u) \in Seq(S) /\ Len(Reverse(u)) = b /\ \A i \in 1 .. b : Reverse(u)[i] = u[b - i + 1]
  BY ReverseIs
<1>4. /\ l \in Seq(S) /\ Len(l) = a + b
      /\ \A i \in 1 .. a + b : l[i] = (s \o u)[(a + b) - i + 1]
  <2>1. PICK w \in Seq(S) : w = s \o u
    BY <1>2
  <2>2. Reverse(w) \in Seq(S) /\ Len(Reverse(w)) = Len(w) /\ \A i \in 1 .. Len(w) : Reverse(w)[i] = w[Len(w) - i + 1]
    BY ReverseIs
  <2>3. Len(w) = a + b
    BY <1>2, <2>1
  <2> HIDE DEF a, b
  <2> QED  BY <2>1, <2>2, <2>3
<1>5. /\ r \in Seq(S) /\ Len(r) = b + a
      /\ \A i \in 1 .. b + a : r[i] = IF i <= b THEN Reverse(u)[i] ELSE Reverse(s)[i - b]
  <2>1. PICK v \in Seq(S), w \in Seq(S) : v = Reverse(u) /\ w = Reverse(s)
    BY <1>3
  <2>2. /\ v \o w \in Seq(S) /\ Len(v \o w) = Len(v) + Len(w)
        /\ \A i \in 1 .. Len(v) + Len(w) : (v \o w)[i] = IF i <= Len(v) THEN v[i] ELSE w[i - Len(v)]
    BY ConcatProperties
  <2>3. Len(v) = b /\ Len(w) = a
    BY <1>3, <2>1
  <2> HIDE DEF a, b
  <2> QED  BY <2>1, <2>2, <2>3
<1> HIDE DEF l, r, a, b
<1>6. ASSUME NEW i \in 1 .. a + b PROVE l[i] = r[i]
  <2>1. (a + b) - i + 1 \in 1 .. a + b
    BY <1>1
  <2>2. CASE i <= b
    <3>1. i \in 1 .. b /\ ~((a + b) - i + 1 <= a) /\ ((a + b) - i + 1) - a = b - i + 1
      BY <1>1, <2>2
    <3>2. l[i] = u[b - i + 1]
      BY <1>2, <1>4, <2>1, <3>1
    <3>3. r[i] = u[b - i + 1]
      BY <1>1, <1>3, <1>5, <2>2, <3>1
    <3> QED  BY <3>2, <3>3
  <2>3. CASE ~(i <= b)
    <3>1. i - b \in 1 .. a /\ (a + b) - i + 1 <= a /\ (a + b) - i + 1 = a - (i - b) + 1
      BY <1>1, <2>3
    <3>2. l[i] = s[a - (i - b) + 1]
      BY <1>2, <1>4, <2>1, <3>1
    <3>3. r[i] = s[a - (i - b) + 1]
      BY <1>1, <1>3, <1>5, <2>3, <3>1
    <3> QED  BY <3>2, <3>3
  <2> QED  BY <2>2, <2>3
<1>7. Len(l) = Len(r)
  BY <1>1, <1>4, <1>5
<1>8. l = r
  BY <1>4, <1>5, <1>6, <1>7, SeqEqual
<1> QED  BY <1>8 DEF l, r

\* A push on the list is the end of the line.
LEMMA ReversePush ==
    ASSUME NEW S, NEW s \in Seq(S), NEW x \in S
    PROVE  Reverse(<<x>> \o s) = Append(Reverse(s), x)
<1>1. <<x>> \in Seq(S) /\ Reverse(s) \in Seq(S)
  BY ReverseIs
<1>2. Reverse(<<x>> \o s) = Reverse(s) \o <<x>>
  BY <1>1, ReverseJoin, ReverseOne
<1> QED  BY <1>1, <1>2, AppendIsConcat

\* The line of what is left when the oldest has been taken.
LEMMA ReverseTake ==
    ASSUME NEW S, NEW s \in Seq(S), s # <<>>
    PROVE  Reverse(s) = LineOf(Last(s), Front(s), <<>>)
<1> DEFINE f == Front(s)
           x == Last(s)
<1>1. f \in Seq(S) /\ x \in S
  BY TakeOnce
<1>2. s = f \o <<x>>
  <2>1. Len(s) \in Nat \ {0} /\ Len(f) = Len(s) - 1 /\ x = s[Len(s)] /\ \A i \in 1 .. Len(s) - 1 : f[i] = s[i]
    <3>1. Len(s) \in Nat \ {0}
      OBVIOUS
    <3>2. f = [i \in 1 .. Len(s) - 1 |-> s[i]] /\ x = s[Len(s)]
      BY <3>1 DEF Front, Last
    <3>3. Len(s) - 1 \in Nat
      BY <3>1
    <3> HIDE DEF f, x
    <3> QED  BY <1>1, <3>1, <3>2, <3>3
  <2> HIDE DEF f, x
  <2>2. Append(f, x) \in Seq(S) /\ Len(Append(f, x)) = Len(s)
    BY <1>1, <2>1, AppendProperties
  <2>3. \A i \in 1 .. Len(s) : Append(f, x)[i] = s[i]
    BY <1>1, <2>1, AppendProperties
  <2>4. Append(f, x) = s
    BY <2>2, <2>3, SeqEqual
  <2> QED  BY <1>1, <2>4, AppendIsConcat
<1> HIDE DEF f, x
<1>3. <<x>> \in Seq(S) /\ Reverse(f) \in Seq(S)
  BY <1>1, ReverseIs
<1>4. Reverse(s) = <<x>> \o Reverse(f)
  BY <1>1, <1>2, <1>3, ReverseJoin, ReverseOne
<1>5. <<x>> \o Reverse(f) \in Seq(S)
  BY <1>3
<1>6. LineOf(x, f, <<>>) = <<x>> \o Reverse(f)
  BY <1>5, ReverseEmpty, ConcatEmptySeq DEF LineOf
<1> QED  BY <1>4, <1>6 DEF f, x

LEMMA JoinAssociative ==
    ASSUME NEW S, NEW s \in Seq(S), NEW u \in Seq(S), NEW w \in Seq(S)
    PROVE  (s \o u) \o w = s \o (u \o w)
BY ConcatAssociative

LEMMA LineOps ==
    ASSUME NEW S, NEW p \in S, NEW rest \in Seq(S), NEW list \in Seq(S)
    PROVE  /\ LineOf(p, <<>>, rest) = LineOf(p, rest, <<>>)
           /\ LineOf(p, list \o rest, <<>>) = LineOf(p, rest, list)
           /\ \A x \in S : LineOf(p, rest, <<x>> \o list) = Append(LineOf(p, rest, list), x)
           /\ LineOf(p, <<>>, list) # <<>>
           /\ Head(LineOf(p, <<>>, list)) = p
           /\ Tail(LineOf(p, <<>>, list)) = Reverse(list)
<1> DEFINE o == <<p>>
           r == Reverse(rest)
           l == Reverse(list)
<1>1. o \in Seq(S) /\ r \in Seq(S) /\ l \in Seq(S) /\ \A x \in S : <<x>> \in Seq(S)
  BY ReverseIs
<1>2. LineOf(p, rest, list) = o \o r \o l /\ LineOf(p, rest, <<>>) = o \o r
  <2>1. o \o r \in Seq(S)
    BY <1>1
  <2> QED  BY <2>1, ReverseEmpty, ConcatEmptySeq DEF LineOf
<1>3. \A u \in Seq(S) : LineOf(p, <<>>, u) = o \o Reverse(u)
  BY <1>1, ReverseEmpty, ConcatEmptySeq DEF LineOf
<1>4. LineOf(p, list \o rest, <<>>) = o \o (r \o l)
  <2>1. list \o rest \in Seq(S) /\ Reverse(list \o rest) = r \o l
    BY ReverseJoin
  <2>2. o \o Reverse(list \o rest) \in Seq(S)
    BY <2>1, ReverseIs
  <2> QED  BY <2>1, <2>2, ReverseEmpty, ConcatEmptySeq DEF LineOf
<1>5. \A x \in S : LineOf(p, rest, <<x>> \o list) = (o \o r) \o (l \o <<x>>)
  BY <1>1, ReversePush, AppendIsConcat DEF LineOf
<1>6. /\ o \o l # <<>> /\ Head(o \o l) = p /\ Tail(o \o l) = l
  <2>1. o \o l \in Seq(S) /\ Len(o \o l) = 1 + Len(l) /\ (o \o l)[1] = p
        /\ \A i \in 1 .. Len(l) : (o \o l)[i + 1] = l[i]
    BY <1>1
  <2> DEFINE w == o \o l
  <2> HIDE DEF w
  <2>2. w \in Seq(S) /\ Len(w) = 1 + Len(l) /\ w[1] = p /\ \A i \in 1 .. Len(l) : w[i + 1] = l[i]
    BY <2>1 DEF w
  <2>3. Len(l) \in Nat
    BY <1>1
  <2> HIDE DEF l
  <2>4. w # <<>> /\ Head(w) = p
    BY <2>2, <2>3
  <2>5. Tail(w) \in Seq(S) /\ Len(Tail(w)) = Len(l) /\ \A i \in 1 .. Len(l) : Tail(w)[i] = l[i]
    BY <2>2, <2>3, <2>4, HeadTailProperties
  <2>6. Tail(w) = l
    BY <1>1, <2>5, SeqEqual
  <2> QED  BY <2>4, <2>6 DEF w
<1> HIDE DEF o, r, l
<1>7. o \o r \in Seq(S) /\ (o \o r) \o l \in Seq(S)
  BY <1>1
<1>8. (o \o r) \o l = o \o (r \o l)
  <2> HIDE <1>7
  <2> QED  BY <1>1, JoinAssociative
<1>9. ASSUME NEW x \in S PROVE (o \o r) \o (l \o <<x>>) = Append((o \o r) \o l, x)
  <2>1. Append((o \o r) \o l, x) = ((o \o r) \o l) \o <<x>>
    BY <1>7, AppendIsConcat
  <2>2. (o \o r) \o (l \o <<x>>) = ((o \o r) \o l) \o <<x>>
    BY <1>1, <1>7, JoinAssociative
  <2> QED  BY <2>1, <2>2
<1>10. LineOf(p, <<>>, rest) = o \o r /\ LineOf(p, <<>>, list) = o \o l
  BY <1>3 DEF r, l
<1> QED  BY <1>2, <1>4, <1>5, <1>6, <1>8, <1>9, <1>10 DEF l

-----------------------------------------------------------------------------
(* What a step is to those who call: VMReq implements RemoteCalls.         *)

\* A step that is none of theirs.
CallsSame == UNCHANGED <<Stages, CpuLines, AnyPool>>

LEMMA StageBecomes ==
    ASSUME NEW P \in Packets, \A p \in Packets \ {P} : state'[p] = state[p],
           NEW now, NEW then, Stage(P) = now, Stage(P)' = then
    PROVE  Calls!Becomes(P, now, then)
<1>1. \A p \in Packets \ {P} : Stage(p)' = Stage(p)
  BY DEF Stage
<1> QED  BY <1>1 DEF Calls!Becomes, Stages

LEMMA StageSame ==
    ASSUME \A p \in Packets : Stage(p)' = Stage(p)
    PROVE  UNCHANGED Stages
BY DEF Stages

LEMMA StageIs ==
    \A p \in Packets :
        /\ state[p] \in {"FREE", "ALLOCATED"} => Stage(p) = "unused"
        /\ state[p] = "QUEUED"     => Stage(p) = "asked"
        /\ state[p] = "PROCESSING" => Stage(p) = "running"
        /\ state[p] = "COMPLETED"  => Stage(p) = "answered"
        /\ state'[p] \in {"FREE", "ALLOCATED"} => Stage(p)' = "unused"
        /\ state'[p] = "QUEUED"     => Stage(p)' = "asked"
        /\ state'[p] = "PROCESSING" => Stage(p)' = "running"
        /\ state'[p] = "COMPLETED"  => Stage(p)' = "answered"
BY DEF Stage

\* What an EMT holds, of which queue.
Holding(e) == emt[e].pc \in HeldPcs

LEMMA HeldIs ==
    ASSUME ControlInv
    PROVE  /\ \A q : Held(q) = {e \in EMTs : emt[e].q = q /\ Holding(e)}
           /\ \A e \in EMTs, q \in EMTs : e \in Held(q) => e = q
           /\ ANY \notin EMTs
BY QueuesAssumption DEF ControlInv, EMTOk, Serves, Held, Holding, HeldPcs

HoldsOwn(e) == Holding(e) /\ emt[e].q = e

LEMMA LineIs ==
    ASSUME NEW e \in EMTs
    PROVE  /\ CpuLine(e) = IF HoldsOwn(e) THEN LineOf(emt[e].p, emt[e].rest, reqs[e])
                                          ELSE Reverse(reqs[e])
           /\ CpuLine(e)' = IF HoldsOwn(e)' THEN LineOf(emt'[e].p, emt'[e].rest, reqs'[e])
                                            ELSE Reverse(reqs'[e])
BY DEF CpuLine, LineOf, Held, HoldsOwn, Holding, HeldPcs

HasOfAny(e, p) == Holding(e) /\ emt[e].q = ANY /\ (p = emt[e].p \/ p \in Rest(e))

LEMMA PoolIs ==
    /\ \A p : p \in AnyPool  <=> p \in Listed(ANY) \/ \E e \in EMTs : HasOfAny(e, p)
    /\ \A p : p \in AnyPool' <=> p \in Listed(ANY)' \/ \E e \in EMTs : HasOfAny(e, p)'
BY DEF AnyPool, Listed, Rest, Held, HasOfAny, Holding, HeldPcs

\* An EMT that holds the same, or nothing, changes nothing.
HoldsSame(e) == \/ ~Holding(e) /\ ~Holding(e)'
                \/ /\ Holding(e) /\ Holding(e)'
                   /\ emt'[e].q = emt[e].q /\ emt'[e].p = emt[e].p /\ emt'[e].rest = emt[e].rest

LEMMA LineSame ==
    ASSUME NEW e \in EMTs, reqs'[e] = reqs[e],
           HoldsSame(e) \/ (emt[e].q # e /\ emt'[e].q # e)
    PROVE  CpuLine(e)' = CpuLine(e)
BY LineIs DEF HoldsSame, HoldsOwn, Holding

LEMMA PoolSame ==
    ASSUME reqs'[ANY] = reqs[ANY],
           \A e \in EMTs : HoldsSame(e) \/ (emt[e].q # ANY /\ emt'[e].q # ANY)
    PROVE  AnyPool' = AnyPool
<1>1. Listed(ANY)' = Listed(ANY)
  BY DEF Listed
<1>2. ASSUME NEW e \in EMTs, NEW p PROVE HasOfAny(e, p)' <=> HasOfAny(e, p)
  BY DEF HoldsSame, HasOfAny, Holding, Rest
<1>3. \A p : p \in AnyPool' <=> p \in AnyPool
  BY <1>1, <1>2, PoolIs
<1> QED  BY <1>3

LEMMA QueuesSame ==
    ASSUME UNCHANGED reqs, \A e \in EMTs : HoldsSame(e)
    PROVE  UNCHANGED <<CpuLines, AnyPool>>
<1>1. reqs'[ANY] = reqs[ANY] /\ \A e \in EMTs : reqs'[e] = reqs[e]
  OBVIOUS
<1>2. AnyPool' = AnyPool
  BY <1>1, PoolSame
<1>3. \A e \in EMTs : CpuLine(e)' = CpuLine(e)
  BY <1>1, LineSame
<1> QED  BY <1>2, <1>3 DEF CpuLines

\* The callers.
LEMMA CallerCalls ==
    ASSUME ControlInv, PacketInv, NEW t \in Callers, Begin(t) \/ Calling(t), ~Push(t)
    PROVE  [Calls!Next]_<<Stages, CpuLines, AnyPool>>
<1>1. UNCHANGED <<emt, reqs>>
  BY CallerFrame
<1>2. UNCHANGED <<CpuLines, AnyPool>>
  <2>1. \A e \in EMTs : HoldsSame(e)
    BY <1>1 DEF HoldsSame, Holding
  <2> QED  BY <1>1, <2>1, QueuesSame
<1>3. CASE Begin(t)
  <2>1. PICK P \in Packets : P \in free /\ state' = [state EXCEPT ![P] = "ALLOCATED"]
    BY <1>3 DEF Begin, VMR3ReqCallVU, Allocated
  <2>2. state[P] = "FREE" /\ state'[P] = "ALLOCATED" /\ \A p \in Packets \ {P} : state'[p] = state[p]
    BY <2>1 DEF PacketInv, StateTells, PacketTypes
  <2>3. \A p \in Packets : Stage(p)' = Stage(p)
    BY <2>2 DEF Stage
  <2> QED  BY <1>2, <2>3, StageSame
<1>4. CASE NextCpu(t) \/ VMR3ReqFree(t)
  <2>1. /\ call[t].pc = "done" /\ CallerPacket(t) /\ call[t].p \in Packets /\ PacketTypes
    BY <1>4, Elements DEF NextCpu, VMR3ReqFree, CallAt, PacketInv, CallerPacket, Asks
  <2>2. PICK P \in Packets : P = call[t].p
    BY <2>1
  <2>3. state[P] = "COMPLETED"
    BY <2>1, <2>2 DEF CallerPacket
  <2>4. /\ state'[P] \in {"ALLOCATED", "FREE"} /\ \A p \in Packets \ {P} : state'[p] = state[p]
    BY <1>4, <2>1, <2>2, <2>3 DEF NextCpu, VMR3ReqFree, Freed, PacketTypes
  <2>5. Stage(P) = "answered" /\ Stage(P)' = "unused"
    BY <2>3, <2>4, StageIs
  <2>6. Calls!Becomes(P, "answered", "unused")
    BY <2>4, <2>5, StageBecomes
  <2> QED  BY <1>2, <2>6 DEF Calls!Next, Calls!Done
<1>5. CASE ~Begin(t) /\ ~NextCpu(t) /\ ~VMR3ReqFree(t)
  <2>1. UNCHANGED state
    BY <1>5 DEF Calling, SetFF, NotifyCpuFF, SchedWakeUp, PollWoken, PollTimesOut, Woken, Check, packet
  <2>2. \A p \in Packets : Stage(p)' = Stage(p)
    BY <2>1 DEF Stage
  <2> QED  BY <1>2, <2>2, StageSame
<1> QED  BY <1>3, <1>4, <1>5

LEMMA PushCalls ==
    ASSUME ControlInv, PacketInv, NEW t \in Callers, Push(t)
    PROVE  Calls!Next
<1>1. /\ call[t].pc = "queue" /\ call[t].p \in Packets /\ Head(call[t].dst) \in Queues
      /\ CallerPacket(t) /\ PacketTypes
  <2>1. call[t].pc = "queue" /\ call[t] \in CallRecs /\ CallOk(t)
    BY DEF Push, CallAt, ControlInv
  <2>2. call[t].dst \in Seq(Queues) /\ call[t].dst # <<>>
    BY <2>1 DEF CallOk, CallRecs
  <2> QED  BY <2>1, <2>2 DEF CallOk, PacketInv
<1>2. PICK P \in Packets : P = call[t].p
  BY <1>1
<1>3. PICK q \in Queues : q = Head(call[t].dst)
  BY <1>1
<1>4. /\ reqs'[q] = <<P>> \o reqs[q] /\ \A r \in Queues \ {q} : reqs'[r] = reqs[r]
      /\ state[P] = "ALLOCATED" /\ state'[P] = "QUEUED" /\ \A p \in Packets \ {P} : state'[p] = state[p]
      /\ UNCHANGED emt
  BY <1>1, <1>2, <1>3 DEF Push, ControlInv, CallerPacket, CallAt, PacketTypes
<1>5. Calls!Becomes(P, "unused", "asked")
  <2>1. Stage(P) = "unused" /\ Stage(P)' = "asked"
    BY <1>4, StageIs
  <2> QED  BY <1>4, <2>1, StageBecomes
<1>6. \A e \in EMTs : HoldsSame(e) /\ Holding(e)' = Holding(e)
  BY <1>4 DEF HoldsSame, Holding
<1>7. \A r \in EMTs \ {q} : CpuLine(r)' = CpuLine(r)
  BY <1>4, <1>6, LineSame DEF Queues
<1>8. CASE q = ANY
  <2>1. UNCHANGED CpuLines
    BY <1>7, <1>8, HeldIs DEF CpuLines
  <2>2. Listed(ANY)' = {P} \cup Listed(ANY)
    <3>1. reqs[q] \in Seq(Packets)
      BY Elements
    <3> QED  BY <1>4, <1>8, <3>1, PushOnce DEF Listed
  <2>4. \A e \in EMTs : \A p : HasOfAny(e, p)' <=> HasOfAny(e, p)
    BY <1>4 DEF HasOfAny, Rest, Holding
  <2>5. AnyPool' = AnyPool \cup {P}
    <3>1. \A p : p \in AnyPool' <=> p \in AnyPool \cup {P}
      BY <2>2, <2>4, PoolIs
    <3> QED  BY <3>1
  <2> QED  BY <1>5, <2>1, <2>5 DEF Calls!Next, Calls!AskAny
<1>9. CASE q # ANY
  <2>1. q \in EMTs /\ reqs[q] \in Seq(Packets) /\ emt[q] \in EMTRecs
    BY <1>9, Elements DEF Queues
  <2>2. UNCHANGED AnyPool
    BY <1>4, <1>6, <1>9, PoolSame DEF Queues
  <2>3. CpuLine(q)' = Append(CpuLine(q), P)
    <3>1. Reverse(<<P>> \o reqs[q]) = Append(Reverse(reqs[q]), P)
      BY <2>1, ReversePush
    <3>2. HoldsOwn(q)' = HoldsOwn(q) /\ emt'[q] = emt[q]
      BY <1>4 DEF HoldsOwn, Holding
    <3>3. CASE HoldsOwn(q)
      <4>1. emt[q].p \in Packets /\ emt[q].rest \in Seq(Packets)
        <5>1. EMTPacket(q) /\ HasPacket(q)
          BY <2>1, <3>3 DEF HoldsOwn, Holding, PacketInv, HasPacket, HandPcs
        <5> QED  BY <2>1, <5>1, Elements DEF EMTPacket
      <4>2. \A p \in Packets, rest \in Seq(Packets), list \in Seq(Packets) :
              LineOf(p, rest, <<P>> \o list) = Append(LineOf(p, rest, list), P)
        BY LineOps
      <4>3. LineOf(emt[q].p, emt[q].rest, <<P>> \o reqs[q]) = Append(LineOf(emt[q].p, emt[q].rest, reqs[q]), P)
        BY <2>1, <4>1, <4>2
      <4> QED  BY <1>4, <2>1, <3>2, <3>3, <4>3, LineIs
    <3>4. CASE ~HoldsOwn(q)
      BY <1>4, <2>1, <3>1, <3>2, <3>4, LineIs
    <3> QED  BY <3>3, <3>4
  <2>4. CpuLines' = [CpuLines EXCEPT ![q] = Append(@, P)]
    BY <1>7, <2>1, <2>3 DEF CpuLines
  <2> QED  BY <1>5, <2>1, <2>2, <2>4 DEF Calls!Next, Calls!Ask
<1> QED  BY <1>8, <1>9

\* The EMTs: what is neither a queue's nor a packet's state.
LEMMA EMTStays ==
    ASSUME ControlInv, NEW e \in EMTs,
           \/ (\E q \in Queues : VMR3ReqProcessU(e, q)) \/ ClearFF(e) \/ FFAgain(e)
           \/ NotClear(e) \/ Signal(e) \/ Loop(e) \/ FreeRefused(e) \/ VMR3WaitU(e) \/ Halting(e)
    PROVE  UNCHANGED <<Stages, CpuLines, AnyPool>>
<1>1. UNCHANGED <<state, reqs>>
  BY DEF VMR3ReqProcessU, ClearFF, FFAgain, NotClear, Signal, Loop, FreeRefused, VMR3WaitU, Halting, Halt, Test,
         Block, ResetEvent, queues, packet
<1>2. UNCHANGED Stages
  BY <1>1, StageSame DEF Stage
<1>3. ASSUME NEW label, EMTGoto(e, label), Holding(e) => FFAgain(e) /\ label = "process",
             label \in HeldPcs => Holding(e)
      PROVE  UNCHANGED <<CpuLines, AnyPool>>
  <2>1. \A d \in EMTs : HoldsSame(d)
    BY <1>3, EMTGone DEF HoldsSame, Holding, HeldPcs
  <2> QED  BY <1>1, <2>1, QueuesSame
<1>4. CASE FFAgain(e)
  BY <1>2, <1>3, <1>4 DEF FFAgain, EMTAt, Holding, HeldPcs
<1>5. CASE Loop(e) \/ FreeRefused(e) \/ \E q \in Queues : VMR3ReqProcessU(e, q)
  <2>1. /\ ~Holding(e) /\ emt'[e].pc \in {"run", "clearff"}
        /\ \A d \in EMTs \ {e} : emt'[d] = emt[d]
    <3>1. emt \in [EMTs -> EMTRecs] /\ emt[e] \in EMTRecs
      BY DEF ControlInv
    <3>2. CASE Loop(e) \/ FreeRefused(e)
      <4> DEFINE r == [Runs EXCEPT !.pc = "clearff", !.q = emt[e].q]
      <4>1. r.pc = "clearff" /\ Runs.pc = "run"
        BY DEF Runs
      <4>2. /\ emt[e].pc \in {"loop", "again"}
            /\ emt' = [emt EXCEPT ![e] = r] \/ emt' = [emt EXCEPT ![e] = Runs]
        BY <3>2 DEF Loop, FreeRefused, EMTAt
      <4> HIDE DEF r
      <4> QED  BY <3>1, <4>1, <4>2 DEF Holding, HeldPcs
    <3>3. CASE \E q \in Queues : VMR3ReqProcessU(e, q)
      <4>1. emt[e].pc = "run" /\ \E q \in Queues : emt' = [emt EXCEPT ![e] = [emt[e] EXCEPT !.pc = "clearff", !.q = q]]
        BY <3>3 DEF VMR3ReqProcessU, EMTAt
      <4> QED  BY <3>1, <4>1 DEF EMTRecs, Holding, HeldPcs
    <3> QED  BY <1>5, <3>2, <3>3
  <2>2. \A d \in EMTs : HoldsSame(d)
    BY <2>1 DEF HoldsSame, Holding, HeldPcs
  <2> QED  BY <1>1, <1>2, <2>2, QueuesSame
<1>6. CASE ~FFAgain(e) /\ ~Loop(e) /\ ~FreeRefused(e) /\ ~\E q \in Queues : VMR3ReqProcessU(e, q)
  <2>1. PICK label : EMTGoto(e, label) /\ ~Holding(e) /\ label \notin HeldPcs
    BY <1>6 DEF ClearFF, NotClear, Signal, VMR3WaitU, Halting, Halt, Test, Block, ResetEvent, EMTAt, Holding, HeldPcs
  <2> QED  BY <1>2, <1>3, <2>1
<1> QED  BY <1>4, <1>5, <1>6

\* A packet is run by the EMT that made the request, answered, or freed.
LEMMA EMTAnswers ==
    ASSUME ControlInv, PacketInv, NEW e \in EMTs,
           Complete(e) \/ FreeNoWait(e) \/ OwnFree(e) \/ BeginOwn(e)
    PROVE  Calls!Next
<1>1. emt \in [EMTs -> EMTRecs] /\ emt[e] \in EMTRecs /\ EMTPacket(e) /\ PacketTypes
  BY DEF ControlInv, PacketInv
<1>2. UNCHANGED <<CpuLines, AnyPool>>
  <2>1. UNCHANGED reqs /\ emt[e].pc \in {"run", "return", "notify", "loop"}
    BY DEF Complete, FreeNoWait, OwnFree, BeginOwn, OwnCall, EMTAt, queues
  <2>2. emt'[e].pc \in {"run", "return", "notify", "loop", "again"} /\ \A d \in EMTs \ {e} : emt'[d] = emt[d]
    <3>1. CASE Complete(e)
      BY <1>1, <3>1 DEF Complete, EMTGoto, EMTRecs
    <3>2. CASE FreeNoWait(e)
      <4>1. PICK r \in EMTRecs : emt' = [emt EXCEPT ![e] = r] /\ r.pc \in {"run", "loop", "again"}
        BY <3>2, AfterFree
      <4> QED  BY <1>1, <4>1
    <3>3. CASE OwnFree(e)
      BY <1>1, <3>3 DEF OwnFree, Runs
    <3>4. CASE BeginOwn(e)
      BY <1>1, <3>4 DEF BeginOwn, OwnCall, EMTRecs
    <3> QED  BY <3>1, <3>2, <3>3, <3>4
  <2>3. \A d \in EMTs : HoldsSame(d)
    BY <2>1, <2>2 DEF HoldsSame, Holding, HeldPcs
  <2> QED  BY <2>1, <2>3, QueuesSame
<1>3. CASE Complete(e)
  <2>1. PICK P \in Packets : P = emt[e].p
    BY <1>1, <1>3 DEF Complete, EMTAt, EMTPacket, HasPacket, HandPcs
  <2>2. /\ state[P] = "PROCESSING" /\ state'[P] = "COMPLETED"
        /\ \A p \in Packets \ {P} : state'[p] = state[p]
    BY <1>1, <1>3, <2>1 DEF Complete, EMTAt, EMTPacket, PacketTypes
  <2>3. Calls!Becomes(P, "running", "answered")
    BY <2>2, StageIs, StageBecomes
  <2> QED  BY <1>2, <2>3 DEF Calls!Next, Calls!Answer
<1>4. CASE FreeNoWait(e) \/ OwnFree(e)
  <2>1. PICK P \in Packets : P = emt[e].p
    BY <1>1, <1>4 DEF FreeNoWait, OwnFree, EMTAt, EMTPacket, HasPacket, HandPcs
  <2>2. /\ state[P] = "COMPLETED" /\ state'[P] = "FREE"
        /\ \A p \in Packets \ {P} : state'[p] = state[p]
    BY <1>1, <1>4, <2>1 DEF FreeNoWait, OwnFree, Freed, EMTAt, EMTPacket, PacketTypes
  <2>3. Calls!Becomes(P, "answered", "unused")
    BY <2>2, StageIs, StageBecomes
  <2> QED  BY <1>2, <2>3 DEF Calls!Next, Calls!Done
<1>5. CASE BeginOwn(e)
  <2>1. PICK P \in Packets : P \in free /\ state' = [state EXCEPT ![P] = "PROCESSING"]
    BY <1>5 DEF BeginOwn, OwnCall, Allocated
  <2>2. /\ state[P] = "FREE" /\ state'[P] = "PROCESSING"
        /\ \A p \in Packets \ {P} : state'[p] = state[p]
    BY <1>1, <2>1 DEF PacketInv, StateTells, PacketTypes
  <2>3. Calls!Becomes(P, "unused", "running")
    BY <2>2, StageIs, StageBecomes
  <2> QED  BY <1>2, <2>3 DEF Calls!Next, Calls!RunOwn
<1> QED  BY <1>3, <1>4, <1>5

\* The request that was taken is run.
LEMMA ProcessCalls ==
    ASSUME ControlInv, PacketInv, NEW e \in EMTs, Process(e)
    PROVE  Calls!Next
<1>1. /\ emt[e].pc = "process" /\ EMTPacket(e) /\ PacketTypes /\ UNCHANGED reqs
      /\ emt[e].q \in {ANY, e} /\ HasPacket(e) /\ Holding(e) /\ ANY \notin EMTs
  BY HeldIs DEF Process, EMTAt, PacketInv, ControlInv, EMTOk, Serves, HasPacket, HandPcs, Holding, HeldPcs, queues
<1>2. PICK P \in Packets : P = emt[e].p
  BY <1>1 DEF EMTPacket
<1>3. emt'[e].pc = "return" /\ emt'[e].q = emt[e].q /\ \A d \in EMTs \ {e} : emt'[d] = emt[d]
  BY EMTGone DEF Process
<1>4. /\ state[P] = "QUEUED" /\ state'[P] = "PROCESSING" /\ \A p \in Packets \ {P} : state'[p] = state[p]
  BY <1>1, <1>2 DEF Process, EMTPacket, Holding, PacketTypes
<1>5. Calls!Becomes(P, "asked", "running")
  BY <1>4, StageIs, StageBecomes
<1>6. \A d \in EMTs \ {e} : HoldsSame(d) /\ Holding(d)' = Holding(d)
  BY <1>3 DEF HoldsSame, Holding
<1>7. ~Holding(e)' /\ emt[e].rest = <<>> /\ Rest(e) = {}
  BY <1>1, <1>3, EmptyOnce DEF Holding, HeldPcs, EMTPacket, EMTAt, Rest
<1>8. CASE emt[e].q = e
  <2>1. UNCHANGED AnyPool
    BY <1>1, <1>3, <1>6, <1>8, PoolSame
  <2>2. \A d \in EMTs \ {e} : CpuLine(d)' = CpuLine(d)
    BY <1>1, <1>6, LineSame
  <2>3. reqs[e] \in Seq(Packets)
    BY Elements DEF Queues
  <2>4. CpuLine(e) = LineOf(P, <<>>, reqs[e]) /\ CpuLine(e)' = Reverse(reqs[e])
    BY <1>1, <1>2, <1>7, <1>8, LineIs DEF HoldsOwn
  <2>5. CpuLine(e) # <<>> /\ Head(CpuLine(e)) = P /\ Tail(CpuLine(e)) = CpuLine(e)'
    <3>1. \A list \in Seq(Packets) : /\ LineOf(P, <<>>, list) # <<>> /\ Head(LineOf(P, <<>>, list)) = P
                                     /\ Tail(LineOf(P, <<>>, list)) = Reverse(list)
      BY EmptyIsSeq, LineOps
    <3> QED  BY <2>3, <2>4, <3>1
  <2>6. CpuLines' = [CpuLines EXCEPT ![e] = Tail(@)] /\ CpuLines[e] = CpuLine(e)
    BY <2>2, <2>5 DEF CpuLines
  <2> QED  BY <1>5, <2>1, <2>5, <2>6 DEF Calls!Next, Calls!Run
<1>9. CASE emt[e].q = ANY
  <2>1. UNCHANGED CpuLines
    <3>1. \A d \in EMTs : CpuLine(d)' = CpuLine(d)
      BY <1>1, <1>3, <1>6, <1>9, LineSame
    <3> QED  BY <3>1 DEF CpuLines
  <2>2. Listed(ANY)' = Listed(ANY) /\ P \notin Listed(ANY)
    BY <1>1, <1>2, HandAlone DEF Listed, Queues
  <2>3. \A p : (HasOfAny(e, p) <=> p = P) /\ ~HasOfAny(e, p)'
    BY <1>1, <1>2, <1>7, <1>9 DEF HasOfAny
  <2>4. \A d \in EMTs \ {e} : ~HasOfAny(d, P) /\ \A p : HasOfAny(d, p)' <=> HasOfAny(d, p)
    <3>1. \A d \in EMTs \ {e} : P \notin Rest(d) /\ P \notin Hand(d)
      BY <1>1, <1>2, HandAlone
    <3> QED  BY <1>3, <3>1 DEF HasOfAny, Holding, Rest, Hand, HasPacket, HandPcs
  <2>5. \A p : p \in AnyPool' <=> p \in AnyPool \ {P}
    <3>1. ASSUME NEW p, p \in AnyPool' PROVE p \in AnyPool \ {P}
      BY <2>2, <2>3, <2>4, <3>1, PoolIs
    <3>2. ASSUME NEW p, p \in AnyPool \ {P} PROVE p \in AnyPool'
      BY <2>2, <2>3, <2>4, <3>2, PoolIs
    <3> QED  BY <3>1, <3>2
  <2>6. P \in AnyPool
    BY <2>3, PoolIs
  <2>7. AnyPool' = AnyPool \ {P}
    BY <2>5
  <2> QED  BY <1>5, <2>1, <2>6, <2>7 DEF Calls!Next, Calls!RunAny
<1> QED  BY <1>1, <1>8, <1>9

\* An EMT that takes a list or puts it back moves nothing in the line, nor in the pool.
LEMMA QueuesKept ==
    ASSUME ControlInv, NEW e \in EMTs, UNCHANGED state, emt'[e].q = emt[e].q,
           \A d \in EMTs \ {e} : emt'[d] = emt[d],
           \A r \in Queues \ {emt[e].q} : reqs'[r] = reqs[r],
           emt[e].q = e => CpuLine(e)' = CpuLine(e),
           emt[e].q = ANY => \A p : (p \in Listed(ANY) \/ HasOfAny(e, p))' <=> (p \in Listed(ANY) \/ HasOfAny(e, p))
    PROVE  UNCHANGED <<Stages, CpuLines, AnyPool>>
<1>1. UNCHANGED Stages
  BY StageSame DEF Stage
<1>2. emt[e].q \in {ANY, e} /\ ANY \notin EMTs /\ \A d \in EMTs : d \in Queues
  BY HeldIs DEF ControlInv, EMTOk, Serves, Queues
<1>3. \A d \in EMTs \ {e} : HoldsSame(d)
  BY DEF HoldsSame, Holding
<1>4. UNCHANGED CpuLines
  <2>1. \A d \in EMTs \ {e} : CpuLine(d)' = CpuLine(d)
    BY <1>2, <1>3, LineSame
  <2>2. emt[e].q = ANY => CpuLine(e)' = CpuLine(e)
    BY <1>2, LineSame
  <2> QED  BY <1>2, <2>1, <2>2 DEF CpuLines
<1>5. CASE emt[e].q = e
  <2>1. UNCHANGED AnyPool
    BY <1>2, <1>3, <1>5, PoolSame DEF Queues
  <2> QED  BY <1>1, <1>4, <2>1
<1>6. CASE emt[e].q = ANY
  <2>1. \A d \in EMTs \ {e} : \A p : HasOfAny(d, p)' <=> HasOfAny(d, p)
    BY DEF HasOfAny, Holding, Rest
  <2>2. \A p : p \in AnyPool' <=> p \in AnyPool
    <3>1. ASSUME NEW p, p \in AnyPool' PROVE p \in AnyPool
      BY <1>6, <2>1, <3>1, PoolIs
    <3>2. ASSUME NEW p, p \in AnyPool PROVE p \in AnyPool'
      BY <1>6, <2>1, <3>2, PoolIs
    <3> QED  BY <3>1, <3>2
  <2>3. UNCHANGED AnyPool
    BY <2>2
  <2> QED  BY <1>1, <1>4, <2>3
<1> QED  BY <1>2, <1>5, <1>6

LEMMA TakeCalls ==
    ASSUME ControlInv, PacketInv, NEW e \in EMTs, Take(e)
    PROVE  UNCHANGED <<Stages, CpuLines, AnyPool>>
<1>1. /\ emt \in [EMTs -> EMTRecs] /\ emt[e] \in EMTRecs /\ emt[e].pc = "take" /\ UNCHANGED state
      /\ emt[e].q \in Queues /\ ~Holding(e)
  BY DEF ControlInv, Take, EMTAt, EMTRecs, Holding, HeldPcs, packet
<1>2. PICK q \in Queues : q = emt[e].q
  BY <1>1
<1>3. PICK list \in Seq(Packets) : list = reqs[q]
  BY Elements
<1>4. reqs'[q] = <<>> /\ \A r \in Queues \ {q} : reqs'[r] = reqs[r]
  BY <1>2 DEF Take, ControlInv
<1>5. CASE list = <<>>
  <2>1. emt' = [emt EXCEPT ![e] = Runs] /\ \A r \in Queues : reqs'[r] = reqs[r]
    BY <1>2, <1>3, <1>4, <1>5 DEF Take
  <2>2. \A d \in EMTs : HoldsSame(d)
    BY <1>1, <2>1 DEF HoldsSame, Holding, HeldPcs, Runs
  <2>3. UNCHANGED AnyPool /\ \A d \in EMTs : CpuLine(d)' = CpuLine(d)
    BY <2>1, <2>2, PoolSame, LineSame DEF Queues
  <2> QED  BY <1>1, <2>3, StageSame DEF CpuLines, Stage
<1>6. CASE list # <<>>
  <2>1. PICK label \in HeldPcs :
          emt' = [emt EXCEPT ![e] = [emt[e] EXCEPT !.pc = label, !.p = Last(list), !.rest = Front(list)]]
    BY <1>2, <1>3, <1>6 DEF Take, HeldPcs
  <2>2. /\ Holding(e)' /\ emt'[e].q = q /\ emt'[e].p = Last(list) /\ emt'[e].rest = Front(list)
        /\ \A d \in EMTs \ {e} : emt'[d] = emt[d]
    BY <1>1, <1>2, <2>1 DEF EMTRecs, Holding
  <2>3. ASSUME q = e PROVE CpuLine(e)' = CpuLine(e)
    <3>1. CpuLine(e) = Reverse(list)
      BY <1>1, <1>3, <2>3, LineIs DEF HoldsOwn
    <3>2. CpuLine(e)' = LineOf(Last(list), Front(list), <<>>)
      BY <1>4, <2>2, <2>3, LineIs DEF HoldsOwn
    <3> QED  BY <1>6, <3>1, <3>2, ReverseTake
  <2>4. ASSUME q = ANY, NEW p
        PROVE  (p \in Listed(ANY) \/ HasOfAny(e, p))' <=> (p \in Listed(ANY) \/ HasOfAny(e, p))
    <3>1. Listed(ANY)' = {} /\ Listed(ANY) = ToSet(list)
      BY <1>3, <1>4, <2>4, EmptyOnce DEF Listed
    <3>2. ToSet(list) = ToSet(Front(list)) \cup {Last(list)}
      BY <1>6, TakeOnce
    <3>3. HasOfAny(e, p)' <=> p \in ToSet(list)
      BY <2>2, <2>4, <3>2 DEF HasOfAny, Rest
    <3> QED  BY <1>1, <3>1, <3>3 DEF HasOfAny
  <2> QED  BY <1>1, <1>2, <1>4, <2>2, <2>3, <2>4, QueuesKept
<1> QED  BY <1>5, <1>6

LEMMA PutCalls ==
    ASSUME ControlInv, PacketInv, NEW e \in EMTs, PutBack(e) \/ PutBackJoin(e)
    PROVE  UNCHANGED <<Stages, CpuLines, AnyPool>>
<1>1. /\ emt \in [EMTs -> EMTRecs] /\ emt[e] \in EMTRecs /\ emt[e].pc = "putback" /\ UNCHANGED state
      /\ emt[e].q \in Queues /\ Holding(e) /\ EMTPacket(e)
  BY DEF ControlInv, PutBack, PutBackJoin, EMTAt, EMTRecs, Holding, HeldPcs, packet, PacketInv
<1>2. PICK q \in Queues : q = emt[e].q
  BY <1>1
<1>3. PICK P \in Packets : P = emt[e].p
  BY <1>1 DEF EMTPacket, HasPacket, HandPcs, HeldPcs
<1>4. PICK list \in Seq(Packets) : list = reqs[q]
  BY Elements
<1>5. PICK rest \in Seq(Packets) : rest = emt[e].rest
  BY Elements
<1>6. /\ Holding(e)' /\ emt'[e].p = P /\ emt'[e].q = q
      /\ \A d \in EMTs \ {e} : emt'[d] = emt[d]
      /\ \A r \in Queues \ {q} : reqs'[r] = reqs[r]
      /\ \/ list = <<>> /\ reqs'[q] = rest /\ emt'[e].rest = <<>>
         \/ reqs'[q] = <<>> /\ emt'[e].rest = list \o rest
  <2>1. \A r \in Queues \ {q} : reqs'[r] = reqs[r]
    BY <1>2 DEF PutBack, PutBackJoin, ControlInv
  <2>2. CASE PutBack(e)
    <3>1. emt' = [emt EXCEPT ![e] = [emt[e] EXCEPT !.pc = "ffagain", !.rest = <<>>]] /\ reqs'[q] = rest /\ list = <<>>
      BY <1>2, <1>4, <1>5, <2>2 DEF PutBack, ControlInv
    <3> QED  BY <1>1, <1>2, <1>3, <2>1, <3>1 DEF EMTRecs, Holding, HeldPcs
  <2>3. CASE PutBackJoin(e)
    <3> DEFINE join == list \o rest
    <3>1. emt' = [emt EXCEPT ![e].rest = join] /\ reqs'[q] = <<>>
      BY <1>2, <1>4, <1>5, <2>3 DEF PutBackJoin, ControlInv, Joined
    <3> HIDE DEF join
    <3>2. /\ Holding(e)' /\ emt'[e].p = P /\ emt'[e].q = q /\ emt'[e].rest = join
          /\ \A d \in EMTs \ {e} : emt'[d] = emt[d]
      BY <1>1, <1>2, <1>3, <3>1 DEF EMTRecs, Holding, HeldPcs
    <3> QED  BY <2>1, <3>1, <3>2 DEF join
  <2> QED  BY <2>2, <2>3
<1>7. ASSUME q = e PROVE CpuLine(e)' = CpuLine(e)
  <2>1. CpuLine(e) = LineOf(P, rest, list)
    BY <1>1, <1>2, <1>3, <1>4, <1>5, <1>7, LineIs DEF HoldsOwn
  <2>2. CpuLine(e)' = LineOf(P, emt'[e].rest, reqs'[e])
    BY <1>6, <1>7, LineIs DEF HoldsOwn
  <2>3. \A r \in Seq(Packets), l \in Seq(Packets) :
          LineOf(P, <<>>, r) = LineOf(P, r, <<>>) /\ LineOf(P, l \o r, <<>>) = LineOf(P, r, l)
    BY LineOps
  <2>4. CASE list = <<>> /\ reqs'[q] = rest /\ emt'[e].rest = <<>>
    BY <1>7, <2>1, <2>2, <2>3, <2>4
  <2>5. CASE reqs'[q] = <<>> /\ emt'[e].rest = list \o rest
    BY <1>7, <2>1, <2>2, <2>3, <2>5
  <2> QED  BY <1>6, <2>4, <2>5
<1>8. ASSUME q = ANY, NEW p
      PROVE  (p \in Listed(ANY) \/ HasOfAny(e, p))' <=> (p \in Listed(ANY) \/ HasOfAny(e, p))
  <2>1. p \in Listed(ANY) \/ HasOfAny(e, p) <=> p \in ToSet(list) \/ p = P \/ p \in ToSet(rest)
    BY <1>1, <1>2, <1>3, <1>4, <1>5, <1>8 DEF HasOfAny, Listed, Rest
  <2>2. (p \in Listed(ANY) \/ HasOfAny(e, p))' <=> p \in ToSet(reqs'[q]) \/ p = P \/ p \in ToSet(emt'[e].rest)
    BY <1>6, <1>8 DEF HasOfAny, Listed, Rest
  <2>3. ToSet(list \o rest) = ToSet(list) \cup ToSet(rest)
    BY JoinOnce
  <2> QED  BY <1>6, <2>1, <2>2, <2>3, EmptyOnce
<1> QED  BY <1>1, <1>2, <1>6, <1>7, <1>8, QueuesKept

LEMMA InitCalls == Init => Calls!Init
<1> SUFFICES ASSUME Init PROVE Calls!Init
  OBVIOUS
<1>1. Stages = [p \in Packets |-> "unused"]
  BY DEF Init, Stages, Stage
<1>2. \A e \in EMTs : ~Holding(e)
  BY DEF Init, Runs, Holding, HeldPcs
<1>3. CpuLines = [e \in EMTs |-> <<>>]
  <2>1. \A e \in EMTs : CpuLine(e) = <<>>
    BY <1>2, LineIs, ReverseEmpty DEF Init, Queues, HoldsOwn
  <2> QED  BY <2>1 DEF CpuLines
<1>4. AnyPool = {}
  BY <1>2, PoolIs, EmptyOnce DEF Init, Listed, Queues, HasOfAny
<1> QED  BY <1>1, <1>3, <1>4 DEF Calls!Init

LEMMA StepCalls == ControlInv /\ PacketInv /\ [Careful]_vars => [Calls!Next]_Calls!vars
<1> SUFFICES ASSUME ControlInv, PacketInv, [Careful]_vars PROVE Calls!Next \/ UNCHANGED <<Stages, CpuLines, AnyPool>>
  BY DEF Calls!vars
<1>1. ASSUME NEW t \in Callers, Begin(t) \/ Calling(t)
      PROVE  Calls!Next \/ UNCHANGED <<Stages, CpuLines, AnyPool>>
  BY <1>1, CallerCalls, PushCalls
<1>2. ASSUME NEW e \in EMTs, BeginOwn(e) \/ Processing(e) \/ VMR3WaitU(e) \/ Halting(e)
      PROVE  Calls!Next \/ UNCHANGED <<Stages, CpuLines, AnyPool>>
  BY <1>2, EMTStays, EMTAnswers, ProcessCalls, TakeCalls, PutCalls DEF Processing
<1>3. CASE UNCHANGED vars
  <2>1. UNCHANGED Stages
    BY <1>3, StageSame DEF vars, Stage
  <2>2. UNCHANGED <<CpuLines, AnyPool>>
    <3>1. \A e \in EMTs : HoldsSame(e)
      BY <1>3 DEF vars, HoldsSame, Holding
    <3> QED  BY <1>3, <3>1, QueuesSame DEF vars
  <2> QED  BY <2>1, <2>2
<1> QED  BY <1>1, <1>2, <1>3 DEF Careful

\* The lists and the EMTs that take them, put them back and go on keep what RemoteCalls
\* promises: a request is run once, in the order of those made of the virtual CPU.
THEOREM CallsImplemented == CarefulSpec => ImplementsCalls
<1>1. Init => Calls!Init
  BY InitCalls
<1>2. ControlInv /\ PacketInv /\ [Careful]_vars => [Calls!Next]_Calls!vars
  BY StepCalls
<1> QED  BY <1>1, <1>2, PacketInvCorrect, PTL DEF CarefulSpec, ImplementsCalls, Calls!Spec
=============================================================================
