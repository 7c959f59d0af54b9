------------------------------- MODULE VMReq -------------------------------
(***************************************************************************)
(* VM requests (VMM/VMMR3/VMReq.cpp) and the halt of the EMTs they wake    *)
(* (VMM/VMMR3/VMEmt.cpp, VMM/VMMR0/GVMMR0.cpp).  Any thread has a function *)
(* run on an EMT: it allocates a request packet, pushes it on the lock-free*)
(* list of one virtual CPU or of all, sets a force flag, wakes EMTs that   *)
(* are halted, and waits for the packet's event.                           *)
(*                                                                         *)
(* An EMT that halts stores fWait, then tests the force flags; who sets    *)
(* one tests fWait afterwards.                                             *)
(***************************************************************************)
EXTENDS Integers, Sequences, FiniteSets, SequencesExt

CONSTANTS
    Callers,    \* threads that make requests and are not EMTs
    Waiters,    \* those that wait for the answer: the others do not free the packet
    Pollers,    \* those of them that use the common queue like Main's Console: ask with
                \* a wait of 0 ms, leave the Console's lock, wait without a time-out
    EMTs,       \* the EMTs, one for each virtual CPU
    EMTCallers, \* those of the EMTs that make requests too
    Failing,    \* those of them that may call, without waiting, a function that fails
    ANY,        \* VMCPUID_ANY: the queue of all EMTs
    ALL,        \* VMCPUID_ALL: one virtual CPU after the other
    cPackets,   \* bound: how many request packets there are
    Dests,      \* bound: the destinations the callers ask for
    MaxCalls    \* bound: how many requests are made

Queues   == EMTs \cup {ANY}
Packets  == 1 .. cPackets
NoPacket == 0

ASSUME ThreadsAssumption ==
    /\ Callers \cap EMTs = {} /\ Waiters \subseteq Callers /\ Pollers \subseteq Waiters
    /\ EMTCallers \subseteq EMTs /\ Failing \subseteq EMTCallers
ASSUME EMTsAssumption == IsFiniteSet(EMTs) /\ EMTs # {}
ASSUME QueuesAssumption ==
    ANY \notin EMTs /\ ALL \notin Queues /\ Dests \subseteq Queues \cup {ALL}
ASSUME BoundsAssumption == cPackets \in Nat /\ MaxCalls \in Nat

VARIABLES
    state,      \* enmState of each packet
    status,     \* iStatus: the call it answers, 0 while that is pending
    args,       \* the function and its arguments: which call it is
    noWait,     \* VMREQFLAGS_NO_WAIT
    event,      \* EventSem, auto-reset
    eventClear, \* fEventSemClear
    free,       \* apReqFree: the packets in the nine free lists
    reqs,       \* pReqs of each queue, newest first
    ff,         \* VM_FF_REQUEST for ANY, VMCPU_FF_REQUEST
    call,       \* each caller's call: what it does next and its locals
    emt,        \* the same of each EMT
    fWait,      \* an EMT is halted, or about to be, or just was
    haltEvent,  \* HaltEventMulti
    calls       \* history: how many calls were made

packet == <<state, status, args, noWait, event, eventClear, free>>
queues == <<reqs, ff>>
halts  == <<fWait, haltEvent>>
vars   == <<state, status, args, noWait, event, eventClear, free, reqs, ff,
            call, emt, fWait, haltEvent, calls>>

\* p the packet, n the call, dst the queues it is still to be put to, cpus the
\* EMTs still to be notified.
NoCall == [pc |-> "idle", p |-> NoPacket, n |-> 0, dst |-> <<>>, cpus |-> <<>>]
\* q the queue, p the request taken from it, rest what is to be put back, own
\* when the EMT made the request itself.
Runs   == [pc |-> "run", q |-> ANY, p |-> NoPacket, rest |-> <<>>, own |-> FALSE]

CallAt(t, label) == call[t].pc = label
EMTAt(e, label)  == emt[e].pc = label
CallGoto(t, label) == call' = [call EXCEPT ![t].pc = label]
EMTGoto(e, label)  == emt' = [emt EXCEPT ![e].pc = label]

Init ==
    /\ state  = [p \in Packets |-> "FREE"]
    /\ status = [p \in Packets |-> 0]
    /\ args   = [p \in Packets |-> 0]
    /\ noWait = [p \in Packets |-> FALSE]
    /\ event  = [p \in Packets |-> FALSE]
    /\ eventClear = [p \in Packets |-> TRUE]
    /\ free   = Packets
    /\ reqs   = [q \in Queues |-> <<>>]
    /\ ff     = [q \in Queues |-> FALSE]
    /\ call   = [t \in Callers |-> NoCall]
    /\ emt    = [e \in EMTs |-> Runs]
    /\ fWait  = [e \in EMTs |-> FALSE]
    /\ haltEvent = [e \in EMTs |-> FALSE]
    /\ calls  = 0

-----------------------------------------------------------------------------
(* VMR3ReqCallVU: allocate a packet, queue it, wait for it, free it.       *)

AllCpus == SetToSeq(EMTs)

Targets(dst) == IF dst = ALL THEN AllCpus ELSE <<dst>>

\* VMR3ReqAllocU takes a packet off a free list, makes "sure the event sem is not
\* signaled" and initialises it; the caller fills it in.  Nobody else knows it.
Allocated(p, st, nw) ==
    /\ p \in free
    /\ free' = free \ {p}
    /\ calls < MaxCalls
    /\ calls' = calls + 1
    /\ event' = [event EXCEPT ![p] = @ /\ eventClear[p]]
    /\ eventClear' = [eventClear EXCEPT ![p] = TRUE]
    /\ state'  = [state EXCEPT ![p] = st]
    /\ args'   = [args EXCEPT ![p] = calls']
    /\ noWait' = [noWait EXCEPT ![p] = nw]
    /\ UNCHANGED status

VMR3ReqCallVU(t, p, dst) ==
    /\ CallAt(t, "idle")
    /\ Allocated(p, "ALLOCATED", t \notin Waiters)
    /\ dst = ALL => t \in Waiters
    /\ call' = [call EXCEPT ![t] = [pc |-> "queue", p |-> p, n |-> calls',
                                    dst |-> Targets(dst), cpus |-> <<>>]]
    /\ UNCHANGED <<queues, emt, halts>>

\* VMR3ReqQueue: insert it ...
Push(t) ==
    LET p == call[t].p  q == Head(call[t].dst) IN
    /\ CallAt(t, "queue")
    /\ state' = [state EXCEPT ![p] = "QUEUED"]
    /\ reqs' = [reqs EXCEPT ![q] = <<p>> \o @]
    /\ CallGoto(t, "ff")
    /\ UNCHANGED <<status, args, noWait, event, eventClear, free, ff, emt, halts, calls>>

\* ... set the force flag ...
SetFF(t) ==
    LET q == Head(call[t].dst) IN
    /\ CallAt(t, "ff")
    /\ ff' = [ff EXCEPT ![q] = TRUE]
    /\ call' = [call EXCEPT ![t] = [@ EXCEPT !.pc = "notify",
                                             !.cpus = IF q = ANY THEN AllCpus ELSE <<q>>]]
    /\ UNCHANGED <<packet, reqs, emt, halts, calls>>

\* ... and notify: wake the EMT if it has fWait set, then the next one.  Without
\* VMREQFLAGS_NO_WAIT the caller then waits.
Polls(t) == t \in Pollers /\ call[t].dst = <<ANY>>

Notified(t) ==
    LET next == Tail(call[t].cpus) IN
    call' = [call EXCEPT ![t] =
        IF Len(@.cpus) > 1 THEN [@ EXCEPT !.pc = "notify", !.cpus = next]
        ELSE IF t \notin Waiters THEN NoCall
        ELSE [@ EXCEPT !.pc = IF Polls(t) THEN "poll" ELSE "wait", !.cpus = <<>>]]

NotifyCpuFF(t) ==
    /\ CallAt(t, "notify")
    /\ IF fWait[Head(call[t].cpus)] THEN CallGoto(t, "wakeup") ELSE Notified(t)
    /\ UNCHANGED <<packet, queues, emt, halts, calls>>

\* GVMMR0SchedWakeUp signals whether or not the EMT is blocked already.
SchedWakeUp(t) ==
    /\ CallAt(t, "wakeup")
    /\ haltEvent' = [haltEvent EXCEPT ![Head(call[t].cpus)] = TRUE]
    /\ Notified(t)
    /\ UNCHANGED <<packet, queues, emt, fWait, calls>>

\* VMR3ReqWait with no time to wait: either way the Console goes on to wait.
PollWoken(t) ==
    LET p == call[t].p IN
    /\ CallAt(t, "poll")
    /\ event[p]
    /\ event' = [event EXCEPT ![p] = FALSE]
    /\ eventClear' = [eventClear EXCEPT ![p] = TRUE]
    /\ CallGoto(t, "wait")
    /\ UNCHANGED <<state, status, args, noWait, free, queues, emt, halts, calls>>

PollTimesOut(t) ==
    /\ CallAt(t, "poll")
    /\ ~event[call[t].p]
    /\ CallGoto(t, "wait")
    /\ UNCHANGED <<packet, queues, emt, halts, calls>>

\* VMR3ReqWait(RT_INDEFINITE_WAIT) goes on until the request is completed.
Woken(t) ==
    LET p == call[t].p IN
    /\ CallAt(t, "wait")
    /\ event[p]
    /\ event' = [event EXCEPT ![p] = FALSE]
    /\ CallGoto(t, "check")
    /\ UNCHANGED <<state, status, args, noWait, eventClear, free, queues, emt, halts, calls>>

Check(t) ==
    LET p == call[t].p IN
    /\ CallAt(t, "check")
    /\ IF state[p] = "COMPLETED"
       THEN CallGoto(t, "done") /\ eventClear' = [eventClear EXCEPT ![p] = TRUE]
       ELSE CallGoto(t, "wait") /\ UNCHANGED eventClear
    /\ UNCHANGED <<state, status, args, noWait, event, free, queues, emt, halts, calls>>

\* VMCPUID_ALL: the next virtual CPU, "reinit some members".
NextCpu(t) ==
    LET next == Tail(call[t].dst) IN
    /\ CallAt(t, "done")
    /\ Len(call[t].dst) > 1
    /\ state' = [state EXCEPT ![call[t].p] = "ALLOCATED"]
    /\ call' = [call EXCEPT ![t] = [@ EXCEPT !.pc = "queue", !.dst = next]]
    /\ UNCHANGED <<status, args, noWait, event, eventClear, free, queues, emt, halts, calls>>

\* VMR3ReqFree, which refuses a packet that is not in one of two states.  What a
\* free packet was used for means nothing.
Freed(p) ==
    IF state[p] \in {"ALLOCATED", "COMPLETED"}
    THEN /\ state'  = [state EXCEPT ![p] = "FREE"]
         /\ status' = [status EXCEPT ![p] = 0]
         /\ args'   = [args EXCEPT ![p] = 0]
         /\ noWait' = [noWait EXCEPT ![p] = FALSE]
         /\ free'   = free \cup {p}
    ELSE UNCHANGED <<state, status, args, noWait, free>>

VMR3ReqFree(t) ==
    /\ CallAt(t, "done")
    /\ Len(call[t].dst) = 1
    /\ Freed(call[t].p)
    /\ call' = [call EXCEPT ![t] = NoCall]
    /\ UNCHANGED <<event, eventClear, queues, emt, halts, calls>>

-----------------------------------------------------------------------------
(* VMR3ReqProcessU, on the EMT that has seen the force flag.               *)

VMR3ReqProcessU(e, q) ==
    /\ EMTAt(e, "run")
    /\ q \in {ANY, e}
    /\ ff[q]
    /\ emt' = [emt EXCEPT ![e] = [@ EXCEPT !.pc = "clearff", !.q = q]]
    /\ UNCHANGED <<packet, queues, call, halts, calls>>

ClearFF(e) ==
    /\ EMTAt(e, "clearff")
    /\ ff' = [ff EXCEPT ![emt[e].q] = FALSE]
    /\ EMTGoto(e, "take")
    /\ UNCHANGED <<packet, reqs, call, halts, calls>>

\* Mutant: the oldest request is not unlinked from the others.
TakeUnlinkless(e) ==
    LET list == reqs[emt[e].q] IN
    /\ EMTAt(e, "take")
    /\ reqs' = [reqs EXCEPT ![emt[e].q] = <<>>]
    /\ emt' = [emt EXCEPT ![e] =
           IF list = <<>> THEN Runs
           ELSE [@ EXCEPT !.pc = IF Len(list) = 1 THEN "process" ELSE "putback",
                          !.p = Last(list), !.rest = list]]
    /\ UNCHANGED <<packet, ff, call, halts, calls>>

\* The list is taken; the oldest request is kept, the others put back.
Take(e) ==
    LET list == reqs[emt[e].q] IN
    /\ EMTAt(e, "take")
    /\ reqs' = [reqs EXCEPT ![emt[e].q] = <<>>]
    /\ emt' = [emt EXCEPT ![e] =
           IF list = <<>> THEN Runs
           ELSE [@ EXCEPT !.pc = IF Len(list) = 1 THEN "process" ELSE "putback",
                          !.p = Last(list), !.rest = Front(list)]]
    /\ UNCHANGED <<packet, ff, call, halts, calls>>

\* Mutant: the others are put back by a plain store.
PutBackOver(e) ==
    /\ EMTAt(e, "putback")
    /\ reqs' = [reqs EXCEPT ![emt[e].q] = emt[e].rest]
    /\ emt' = [emt EXCEPT ![e] = [@ EXCEPT !.pc = "ffagain", !.rest = <<>>]]
    /\ UNCHANGED <<packet, ff, call, halts, calls>>

\* vmR3ReqProcessUTooManyHelper.
PutBack(e) ==
    /\ EMTAt(e, "putback")
    /\ reqs[emt[e].q] = <<>>
    /\ reqs' = [reqs EXCEPT ![emt[e].q] = emt[e].rest]
    /\ emt' = [emt EXCEPT ![e] = [@ EXCEPT !.pc = "ffagain", !.rest = <<>>]]
    /\ UNCHANGED <<packet, ff, call, halts, calls>>

\* Mutant: what was pushed in the meantime is linked to the end.
JoinedBehind(e) == emt[e].rest \o reqs[emt[e].q]

Joined(e) == reqs[emt[e].q] \o emt[e].rest

PutBackJoin(e) ==
    /\ EMTAt(e, "putback")
    /\ reqs[emt[e].q] # <<>>
    /\ reqs' = [reqs EXCEPT ![emt[e].q] = <<>>]
    /\ emt' = [emt EXCEPT ![e].rest = Joined(e)]
    /\ UNCHANGED <<packet, ff, call, halts, calls>>

\* Mutant: the force flag is left cleared.
FFForgotten(e) ==
    /\ EMTAt(e, "ffagain")
    /\ EMTGoto(e, "process")
    /\ UNCHANGED <<packet, queues, call, halts, calls>>

FFAgain(e) ==
    /\ EMTAt(e, "ffagain")
    /\ ff' = [ff EXCEPT ![emt[e].q] = TRUE]
    /\ EMTGoto(e, "process")
    /\ UNCHANGED <<packet, reqs, call, halts, calls>>

\* vmR3ReqProcessOneU: run the function, complete the request.
Process(e) ==
    /\ EMTAt(e, "process")
    /\ state' = [state EXCEPT ![emt[e].p] = "PROCESSING"]
    /\ EMTGoto(e, "return")
    /\ UNCHANGED <<status, args, noWait, event, eventClear, free, queues, call, halts, calls>>

Complete(e) ==
    LET p == emt[e].p IN
    /\ EMTAt(e, "return")
    /\ status' = [status EXCEPT ![p] = args[p]]
    /\ state' = [state EXCEPT ![p] = "COMPLETED"]
    /\ EMTGoto(e, "notify")
    /\ UNCHANGED <<args, noWait, event, eventClear, free, queues, call, halts, calls>>

\* "Free the packet, nobody is waiting" ...  An EMT that made the request itself is
\* back in its VMR3ReqCallVU, which frees the packet too if the function failed.
FreeNoWait(e) ==
    LET p == emt[e].p IN
    /\ EMTAt(e, "notify")
    /\ noWait[p]
    /\ Freed(p)
    /\ \/ ~emt[e].own /\ emt' = [emt EXCEPT ![e] = [@ EXCEPT !.pc = "loop", !.p = NoPacket]]
       \/ emt[e].own /\ emt' = [emt EXCEPT ![e] = Runs]
       \/ /\ emt[e].own /\ e \in Failing
          /\ emt' = [emt EXCEPT ![e] = [Runs EXCEPT !.pc = "again", !.p = p]]
    /\ UNCHANGED <<event, eventClear, queues, call, halts, calls>>

\* The second time nobody has the packet yet, and VMR3ReqFree asserts and refuses ...
FreeRefused(e) ==
    /\ EMTAt(e, "again")
    /\ state[emt[e].p] = "FREE"
    /\ emt' = [emt EXCEPT ![e] = Runs]
    /\ UNCHANGED <<packet, queues, call, halts, calls>>

\* ... or it is somebody's again, and perhaps freed.
FreeTaken(e) ==
    /\ EMTAt(e, "again")
    /\ state[emt[e].p] # "FREE"
    /\ Freed(emt[e].p)
    /\ emt' = [emt EXCEPT ![e] = Runs]
    /\ UNCHANGED <<event, eventClear, queues, call, halts, calls>>

\* Mutant: fEventSemClear is left set.
ClearAnyway(e) ==
    /\ EMTAt(e, "notify")
    /\ ~noWait[emt[e].p]
    /\ EMTGoto(e, "signal")
    /\ UNCHANGED <<packet, queues, call, halts, calls>>

\* ... or tell the waiter.
NotClear(e) ==
    /\ EMTAt(e, "notify")
    /\ ~noWait[emt[e].p]
    /\ eventClear' = [eventClear EXCEPT ![emt[e].p] = FALSE]
    /\ EMTGoto(e, "signal")
    /\ UNCHANGED <<state, status, args, noWait, event, free, queues, call, halts, calls>>

Signal(e) ==
    /\ EMTAt(e, "signal")
    /\ event' = [event EXCEPT ![emt[e].p] = TRUE]
    /\ EMTGoto(e, "loop")
    /\ UNCHANGED <<state, status, args, noWait, eventClear, free, queues, call, halts, calls>>

\* Go on with the queue, or return with an EM scheduling status of the request.
Loop(e) ==
    /\ EMTAt(e, "loop")
    /\ ~emt[e].own
    /\ \/ emt' = [emt EXCEPT ![e] = [Runs EXCEPT !.pc = "clearff", !.q = emt[e].q]]
       \/ emt' = [emt EXCEPT ![e] = Runs]
    /\ UNCHANGED <<packet, queues, call, halts, calls>>

\* "The requester was an EMT, just execute it": its VMR3ReqCallVU up to the call
\* of vmR3ReqProcessOneU, with VMREQFLAGS_NO_WAIT or without; nobody else knows the
\* packet.
OwnCall(e, p, nw) ==
    /\ EMTAt(e, "run")
    /\ e \in EMTCallers
    /\ Allocated(p, "PROCESSING", nw)
    /\ emt' = [emt EXCEPT ![e] = [@ EXCEPT !.pc = "return", !.p = p, !.own = TRUE]]
    /\ UNCHANGED <<queues, call, halts>>

\* Without that flag the packet is freed once, by VMR3ReqCallVU or who called it;
\* its event stays set.
OwnFree(e) ==
    /\ EMTAt(e, "loop")
    /\ emt[e].own
    /\ Freed(emt[e].p)
    /\ emt' = [emt EXCEPT ![e] = Runs]
    /\ UNCHANGED <<event, eventClear, queues, call, halts, calls>>

-----------------------------------------------------------------------------
(* VMR3WaitU and vmR3HaltGlobal1Wait: an EMT with nothing to do.           *)

Pending(e) == ff[ANY] \/ ff[e]

VMR3WaitU(e) ==
    /\ EMTAt(e, "run")
    /\ ~Pending(e)
    /\ EMTGoto(e, "halt")
    /\ UNCHANGED <<packet, queues, call, halts, calls>>

\* Mutant: the flags are not tested again once fWait is set.
HaltAtOnce(e) ==
    /\ EMTAt(e, "halt")
    /\ fWait' = [fWait EXCEPT ![e] = TRUE]
    /\ EMTGoto(e, "block")
    /\ UNCHANGED <<packet, queues, call, haltEvent, calls>>

Halt(e) ==
    /\ EMTAt(e, "halt")
    /\ fWait' = [fWait EXCEPT ![e] = TRUE]
    /\ EMTGoto(e, "test")
    /\ UNCHANGED <<packet, queues, call, haltEvent, calls>>

\* GVMMR0SchedHalt blocks, or only resets the event if the time is near.
Test(e) ==
    /\ EMTAt(e, "test")
    /\ IF Pending(e) THEN EMTGoto(e, "run") /\ fWait' = [fWait EXCEPT ![e] = FALSE]
       ELSE UNCHANGED fWait /\ (EMTGoto(e, "block") \/ EMTGoto(e, "reset"))
    /\ UNCHANGED <<packet, queues, call, haltEvent, calls>>

\* The cap of one second on the wait is left out: nothing relies on it.
Block(e) ==
    /\ EMTAt(e, "block")
    /\ haltEvent[e]
    /\ EMTGoto(e, "reset")
    /\ UNCHANGED <<packet, queues, call, halts, calls>>

ResetEvent(e) ==
    /\ EMTAt(e, "reset")
    /\ haltEvent' = [haltEvent EXCEPT ![e] = FALSE]
    /\ EMTGoto(e, "test")
    /\ UNCHANGED <<packet, queues, call, fWait, calls>>

-----------------------------------------------------------------------------
Begin(t) == \E p \in Packets, dst \in Dests : VMR3ReqCallVU(t, p, dst)

BeginOwn(e) == \E p \in Packets, nw \in BOOLEAN : OwnCall(e, p, nw)

Calling(t) ==
    \/ Push(t) \/ SetFF(t) \/ NotifyCpuFF(t) \/ SchedWakeUp(t)
    \/ PollWoken(t) \/ PollTimesOut(t) \/ Woken(t) \/ Check(t)
    \/ NextCpu(t) \/ VMR3ReqFree(t)

Processing(e) ==
    \/ \E q \in Queues : VMR3ReqProcessU(e, q)
    \/ ClearFF(e) \/ Take(e) \/ PutBack(e) \/ PutBackJoin(e) \/ FFAgain(e)
    \/ Process(e) \/ Complete(e) \/ FreeNoWait(e) \/ NotClear(e) \/ Signal(e)
    \/ Loop(e) \/ OwnFree(e) \/ FreeRefused(e)

Halting(e) == Halt(e) \/ Test(e) \/ Block(e) \/ ResetEvent(e)

Careful == \/ \E t \in Callers : Begin(t) \/ Calling(t)
           \/ \E e \in EMTs : BeginOwn(e) \/ Processing(e) \/ VMR3WaitU(e) \/ Halting(e)

Next == Careful \/ \E e \in EMTs : FreeTaken(e)

Spec == Init /\ [][Next]_vars

\* The behaviours in which no packet is freed that was given to somebody else in the
\* meantime.  Nothing can be said of such a packet, and with lists that are sequences
\* this module does not tell what becomes of its links.
CarefulSpec == Init /\ [][Careful]_vars

\* Threads that can go on do; nobody has to call or to halt.
FairSpec == /\ CarefulSpec
            /\ \A t \in Callers : WF_vars(Calling(t))
            /\ \A e \in EMTs : WF_vars(Processing(e) \/ Halting(e))

-----------------------------------------------------------------------------
(* Properties.                                                             *)

TypeOK ==
    /\ state \in [Packets -> {"FREE", "ALLOCATED", "QUEUED", "PROCESSING", "COMPLETED"}]
    /\ status \in [Packets -> 0 .. MaxCalls] /\ args \in [Packets -> 0 .. MaxCalls]
    /\ noWait \in [Packets -> BOOLEAN] /\ event \in [Packets -> BOOLEAN]
    /\ eventClear \in [Packets -> BOOLEAN]
    /\ free \subseteq Packets
    /\ reqs \in [Queues -> Seq(Packets)] /\ ff \in [Queues -> BOOLEAN]
    /\ call \in [Callers -> [pc : {"idle", "queue", "ff", "notify", "wakeup", "poll",
                                    "wait", "check", "done"},
                              p : Packets \cup {NoPacket}, n : 0 .. MaxCalls,
                              dst : Seq(Queues), cpus : Seq(EMTs)]]
    /\ emt \in [EMTs -> [pc : {"run", "clearff", "take", "putback", "ffagain", "process",
                                "return", "notify", "again", "signal", "loop", "halt",
                                "test", "block", "reset"},
                          q : Queues, p : Packets \cup {NoPacket}, rest : Seq(Packets),
                          own : BOOLEAN]]
    /\ fWait \in [EMTs -> BOOLEAN] /\ haltEvent \in [EMTs -> BOOLEAN]
    /\ calls \in 0 .. MaxCalls

\* What an EMT has taken off the list of q and not begun: to be put back, or
\* the oldest, that it is about to process.
Held(q) == {e \in EMTs : emt[e].q = q /\ emt[e].pc \in {"putback", "ffagain", "process"}}

\* The queue of one virtual CPU, oldest first; only its EMT takes from it.
CpuLine(q) == IF q \in Held(q) THEN <<emt[q].p>> \o Reverse(emt[q].rest) \o Reverse(reqs[q])
                               ELSE Reverse(reqs[q])

\* The common queue keeps no order: an EMT may take and run what was pushed
\* while another holds what it is about to put back.
AnyPool == ToSet(reqs[ANY]) \cup UNION {{emt[e].p} \cup ToSet(emt[e].rest) : e \in Held(ANY)}

Stage(p) == CASE state[p] \in {"FREE", "ALLOCATED"} -> "unused"
              [] state[p] = "QUEUED"     -> "asked"
              [] state[p] = "PROCESSING" -> "running"
              [] state[p] = "COMPLETED"  -> "answered"

Stages   == [p \in Packets |-> Stage(p)]
CpuLines == [e \in EMTs |-> CpuLine(e)]

\* A request is run once, in the order of the requests made of the virtual CPU,
\* whatever is pushed while the list is taken and put back; its packet is used
\* for something else only after that.
Calls == INSTANCE RemoteCalls WITH Ordered <- EMTs, stage <- Stages,
                                   line <- CpuLines, pool <- AnyPool
ImplementsCalls == Calls!Spec

\* While a list is not empty its force flag is set, or who pushed is about to
\* set it, or an EMT is about to take the list or to set the flag again.
NoRequestStranded ==
    \A q \in Queues : reqs[q] # <<>> =>
        \/ ff[q]
        \/ \E t \in Callers : CallAt(t, "ff") /\ Head(call[t].dst) = q
        \/ \E e \in EMTs : emt[e].q = q /\ emt[e].pc \in {"take", "ffagain"}

Serves(e, q)  == q \in {ANY, e}
Asleep(e)     == EMTAt(e, "block") /\ ~haltEvent[e]
WillNotify(t, e) == call[t].pc \in {"notify", "wakeup"} /\ e \in ToSet(call[t].cpus)

\* vmR3HaltGlobal1Wait against vmR3HaltGlobal1NotifyCpuFF: when a force flag is
\* set and all EMTs that serve it sleep, somebody is about to wake one.
NoLostWakeup ==
    \A q \in Queues :
        ff[q] /\ (\A e \in EMTs : Serves(e, q) => Asleep(e)) =>
            \E t \in Callers, e \in EMTs : Serves(e, q) /\ WillNotify(t, e)

\* A caller that returns from the wait finds the answer to its own call in the
\* packet, which nobody uses any more.
AnswerIsMine ==
    \A t \in Callers : CallAt(t, "done") =>
        LET p == call[t].p IN
        /\ state[p] = "COMPLETED"
        /\ status[p] = call[t].n
        /\ p \notin free /\ \A q \in Queues : p \notin ToSet(reqs[q])

\* The types, and what the code asserts of a packet: it is allocated when it is
\* queued, queued when it is processed and under way while somebody waits for
\* it, it is completed when it is freed, and one that is recycled is free and has no
\* event signalled unless fEventSemClear says so:
\* "Assert(RTSemEventWait(pReq->EventSem, 0) == VERR_TIMEOUT)".
\* The second free of FreeRefused is not among these: its assertion always fails.
Assertions ==
    /\ TypeOK
    /\ \A t \in Callers :
         /\ CallAt(t, "queue") => state[call[t].p] = "ALLOCATED"
         /\ call[t].pc \in {"poll", "wait"} =>
              state[call[t].p] \in {"QUEUED", "PROCESSING", "COMPLETED"}
         /\ CallAt(t, "done") => state[call[t].p] = "COMPLETED"
    /\ \A e \in EMTs :
         /\ EMTAt(e, "process") => state[emt[e].p] = "QUEUED"
         /\ EMTAt(e, "notify") \/ (EMTAt(e, "loop") /\ emt[e].own) =>
              state[emt[e].p] = "COMPLETED"
    /\ \A p \in free : state[p] = "FREE" /\ (eventClear[p] => ~event[p])

Returns(t) == ~CallAt(t, "idle") ~> CallAt(t, "idle")

\* Whoever waits for a request until it is completed returns: no wake-up of an
\* EMT, no request and no signal is lost.
CallsReturn == \A t \in Callers \ Pollers : Returns(t)

\* The same of those that ask with no time to wait and then wait for the answer,
\* as VMR3ReqCall and VMR3ReqQueue say is to be done: "set cMillies to 0 and use
\* VMR3ReqWait() to check for completion".
PollsReturn == \A t \in Pollers : Returns(t)
=============================================================================
