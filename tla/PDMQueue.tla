------------------------------ MODULE PDMQueue ------------------------------
(***************************************************************************)
(* PDM queues (VMM/VMMAll/PDMAllQueue.cpp, VMM/VMMR3/PDMQueue.cpp).        *)
(* Devices and drivers allocate an item, fill it in and insert it, in      *)
(* ring-3, ring-0 or the raw-mode context; an EMT hands it to the consumer *)
(* in ring-3.  A queue has a ring of free items and one LIFO list of       *)
(* pending items per context, all lock-free.                               *)
(*                                                                         *)
(* The queues of a VM share VM_FF_PDM_QUEUES and two bits: ACTIVE while an *)
(* EMT flushes, PENDING to tell it of inserts since it began.  Queues with *)
(* a timer have neither, their timer flushes them.                         *)
(***************************************************************************)
EXTENDS Integers, Sequences, SequencesExt

CONSTANTS
    Threads,    \* every thread that inserts or flushes
    Inserters,  \* those that insert
    EMTs,       \* those that are emulation threads
    TimerEMT,   \* the EMT that runs the timers
    cForced,    \* queues 1 .. cForced are flushed when VM_FF_PDM_QUEUES is set
    cTimed,     \* the cTimed queues after them by a timer each
    RZQueues,   \* the queues that are enabled in ring-0 and raw-mode
    RZContexts, \* those of the two contexts the VM uses
    Fussy,      \* the queues whose consumer may say "enough"
    cItems,     \* how many items a queue has
    Slack,      \* PDMQUEUE_FREE_SLACK
    None,       \* an empty slot
    MaxInserts  \* bound: how many items are inserted in all

Forced   == 1 .. cForced
Queues   == 1 .. cForced + cTimed
Contexts == {"R3", "RC", "R0"}
Items    == 1 .. cItems
Slots    == 0 .. cItems + Slack - 1

ASSUME ThreadsAssumption == TimerEMT \in EMTs /\ EMTs \cup Inserters \subseteq Threads
ASSUME QueuesAssumption ==
    /\ cForced \in Nat /\ cTimed \in Nat
    /\ RZQueues \subseteq Queues /\ Fussy \subseteq Queues
    /\ RZContexts \subseteq {"RC", "R0"}
ASSUME SlotsAssumption ==
    /\ cItems \in Nat \ {0} /\ Slack \in Nat \ {0}
    /\ None \notin Items /\ MaxInserts \in Nat

VARIABLES
    slot,       \* aFreeItems[0 .. cItems + PDMQUEUE_FREE_SLACK)
    iFreeHead,  \* where an item is put back
    iFreeTail,  \* where the next one is taken
    pending,    \* pPendingR3, pPendingRC, pPendingR0: newest first
    ff,         \* VM_FF_PDM_QUEUES
    active,     \* PDM_QUEUE_FLUSH_FLAG_ACTIVE_BIT
    bit,        \* PDM_QUEUE_FLUSH_FLAG_PENDING_BIT
    call,       \* each thread's call: what it does next and its locals
    from,       \* history: the context an item was last inserted in
    refused,    \* history: the items a consumer refused since
    inserts     \* history: how many items were inserted

ring  == <<slot, iFreeHead, iFreeTail>>
flags == <<ff, active, bit>>
vars  == <<slot, iFreeHead, iFreeTail, pending, ff, active, bit, call, from,
           refused, inserts>>

\* q the queue, c the inserter's context, i the index it read, item the item
\* it read there, list the items being flushed, oldest first.
Idle == [pc |-> "idle", q |-> 1, c |-> "R3", i |-> 0, item |-> None, list |-> <<>>]

At(t, label)    == call[t].pc = label
Return(t)       == call' = [call EXCEPT ![t] = Idle]
Goto(t, label)  == call' = [call EXCEPT ![t].pc = label]
Flush(t, label, list) ==
    call' = [call EXCEPT ![t] = [@ EXCEPT !.pc = label, !.list = list]]

After(i) == (i + 1) % (cItems + Slack)

\* pdmR3QueueCreate.
Init ==
    /\ slot = [q \in Queues |-> [i \in Slots |-> IF i < cItems THEN i + 1 ELSE None]]
    /\ iFreeHead = [q \in Queues |-> cItems]
    /\ iFreeTail = [q \in Queues |-> 0]
    /\ pending   = [q \in Queues |-> [c \in Contexts |-> <<>>]]
    /\ ff = FALSE /\ active = FALSE /\ bit = FALSE
    /\ call     = [t \in Threads |-> Idle]
    /\ from     = [q \in Queues |-> [i \in Items |-> "R3"]]
    /\ refused  = [q \in Queues |-> {}]
    /\ inserts  = 0

-----------------------------------------------------------------------------
(* PDMQueueAlloc.  An exhausted queue returns NULL: nothing changes.       *)

Exhausted(q) == iFreeTail[q] = iFreeHead[q]

\* The index is read, then the item there.
Read(t, q, c) ==
    LET i == iFreeTail[q] IN
    call' = [call EXCEPT ![t] = [@ EXCEPT !.pc = "alloc", !.q = q, !.c = c,
                                          !.i = i, !.item = slot[q][i]]]

MayInsert(t, q, c) ==
    /\ inserts < MaxInserts
    /\ c # "R3" => t \in EMTs /\ q \in RZQueues /\ c \in RZContexts

PDMQueueAlloc(t, q, c) ==
    /\ At(t, "idle")
    /\ MayInsert(t, q, c)
    /\ ~Exhausted(q)
    /\ Read(t, q, c)
    /\ UNCHANGED <<ring, pending, flags, from, refused, inserts>>

\* ASMAtomicCmpXchgU32(&iFreeTail, iNext, i), and the loop when it fails.
Taken(t) == iFreeTail[call[t].q] = call[t].i

AllocTake(t) ==
    /\ At(t, "alloc")
    /\ Taken(t)
    /\ iFreeTail' = [iFreeTail EXCEPT ![call[t].q] = After(call[t].i)]
    /\ call' = [call EXCEPT ![t] = [@ EXCEPT !.pc = "push", !.i = 0]]
    /\ UNCHANGED <<slot, iFreeHead, pending, flags, from, refused, inserts>>

AllocAgain(t) ==
    /\ At(t, "alloc")
    /\ ~Taken(t)
    /\ IF Exhausted(call[t].q) THEN Return(t) ELSE Read(t, call[t].q, call[t].c)
    /\ UNCHANGED <<ring, pending, flags, from, refused, inserts>>

-----------------------------------------------------------------------------
(* PDMQueueInsert.  The loop of the exchange that pushes the item has no   *)
(* effect until it succeeds, and the list it then links to is the current  *)
(* one whatever happened in between.                                       *)

AfterPush(t) ==
    call' = [call EXCEPT ![t] = IF @.q \in Forced THEN [Idle EXCEPT !.pc = "ff"] ELSE Idle]

Push(t) ==
    LET q == call[t].q  c == call[t].c  item == call[t].item IN
    /\ At(t, "push")
    /\ pending' = [pending EXCEPT ![q][c] = <<item>> \o @]
    /\ from'    = [from EXCEPT ![q][item] = c]
    /\ refused' = [refused EXCEPT ![q] = @ \ {item}]
    /\ inserts' = inserts + 1
    /\ AfterPush(t)
    /\ UNCHANGED <<ring, flags>>

SetFF(t) ==
    /\ At(t, "ff")
    /\ ff' = TRUE
    /\ Goto(t, "bit")
    /\ UNCHANGED <<ring, pending, active, bit, from, refused, inserts>>

SetBit(t) ==
    /\ At(t, "bit")
    /\ bit' = TRUE
    /\ Return(t)
    /\ UNCHANGED <<ring, pending, ff, active, from, refused, inserts>>

-----------------------------------------------------------------------------
(* PDMR3QueueFlushAll, called by an EMT that has seen the force flag.      *)

PDMR3QueueFlushAll(e) ==
    /\ At(e, "idle")
    /\ ff
    /\ Goto(e, "clearff")
    /\ UNCHANGED <<ring, pending, flags, from, refused, inserts>>

ClearFF(e) ==
    /\ At(e, "clearff")
    /\ ff' = FALSE
    /\ Goto(e, "activate")
    /\ UNCHANGED <<ring, pending, active, bit, from, refused, inserts>>

\* Mutant: the bit is set without looking at its old value.
ActivateAnyway(e) ==
    /\ At(e, "activate")
    /\ active' = TRUE
    /\ Goto(e, "clearbit")
    /\ UNCHANGED <<ring, pending, ff, bit, from, refused, inserts>>

\* ASMAtomicBitTestAndSet: leave when another EMT is at it.
Activate(e) ==
    /\ At(e, "activate")
    /\ active' = TRUE
    /\ IF active THEN Return(e) ELSE Goto(e, "clearbit")
    /\ UNCHANGED <<ring, pending, ff, bit, from, refused, inserts>>

ClearBit(e) ==
    /\ At(e, "clearbit")
    /\ bit' = FALSE
    /\ call' = [call EXCEPT ![e] = [@ EXCEPT !.pc = "walk", !.q = 1]]
    /\ UNCHANGED <<ring, pending, ff, active, from, refused, inserts>>

\* The walk over pQueuesForced.
HasPending(q) == \E c \in Contexts : pending[q][c] # <<>>

NextQueue(e) == call' = [call EXCEPT ![e] = [@ EXCEPT !.pc = "walk", !.q = call[e].q + 1]]

Walk(e) ==
    /\ At(e, "walk")
    /\ IF call[e].q \notin Forced THEN Goto(e, "inactive")
       ELSE IF HasPending(call[e].q) THEN Goto(e, "take")
       ELSE NextQueue(e)
    /\ UNCHANGED <<ring, pending, flags, from, refused, inserts>>

\* Mutant: both bits are cleared when the walk is over.
DeactivateBoth(e) ==
    /\ At(e, "inactive")
    /\ active' = FALSE /\ bit' = FALSE
    /\ Goto(e, "testbit")
    /\ UNCHANGED <<ring, pending, ff, from, refused, inserts>>

Deactivate(e) ==
    /\ At(e, "inactive")
    /\ active' = FALSE
    /\ Goto(e, "testbit")
    /\ UNCHANGED <<ring, pending, ff, bit, from, refused, inserts>>

\* The two tests that end the loop, "after clearing the active bit".
TestBit(e) ==
    /\ At(e, "testbit")
    /\ Goto(e, IF bit THEN "clearff" ELSE "testff")
    /\ UNCHANGED <<ring, pending, flags, from, refused, inserts>>

TestFF(e) ==
    /\ At(e, "testff")
    /\ IF ff THEN Goto(e, "clearff") ELSE Return(e)
    /\ UNCHANGED <<ring, pending, flags, from, refused, inserts>>

\* pdmR3QueueTimer, the other caller of pdmR3QueueFlush.
pdmR3QueueTimer(e, q) ==
    /\ At(e, "idle")
    /\ e = TimerEMT
    /\ q \in Queues \ Forced
    /\ HasPending(q)
    /\ call' = [call EXCEPT ![e] = [@ EXCEPT !.pc = "take", !.q = q]]
    /\ UNCHANGED <<ring, pending, flags, from, refused, inserts>>

-----------------------------------------------------------------------------
(* pdmR3QueueFlush.                                                        *)

\* The three lists are taken one after the other, each reversed and put
\* before what was taken already.
Took(e, c, label) ==
    LET q == call[e].q IN
    /\ pending' = [pending EXCEPT ![q][c] = <<>>]
    /\ Flush(e, label, Reverse(pending[q][c]) \o call[e].list)
    /\ UNCHANGED <<ring, flags, from, refused, inserts>>

TakeR3(e) == At(e, "take")   /\ Took(e, "R3", "takeRC")
TakeRC(e) == At(e, "takeRC") /\ Took(e, "RC", "takeR0")
TakeR0(e) == At(e, "takeR0") /\ Took(e, "R0", "feed")

\* The timer's flush returns, that of PDMR3QueueFlushAll goes on walking.
Flushed(e) ==
    call' = [call EXCEPT ![e] =
        IF @.q \in Forced THEN [Idle EXCEPT !.pc = "walk", !.q = call[e].q + 1] ELSE Idle]

\* pdmR3QueueFree: only the EMT that flushes moves iFreeHead.
Free(q, item) ==
    /\ slot' = [slot EXCEPT ![q][iFreeHead[q]] = item]
    /\ iFreeHead' = [iFreeHead EXCEPT ![q] = After(@)]

\* The consumer accepts the oldest item.
Feed(e) ==
    /\ At(e, "feed")
    /\ call[e].list # <<>>
    /\ Free(call[e].q, Head(call[e].list))
    /\ Flush(e, "feed", Tail(call[e].list))
    /\ UNCHANGED <<iFreeTail, pending, flags, from, refused, inserts>>

\* The consumer says "enough": what is left goes back on the list.
Enough(e) ==
    /\ At(e, "feed")
    /\ call[e].list # <<>>
    /\ call[e].q \in Fussy
    /\ Goto(e, "putback")
    /\ refused' = [refused EXCEPT ![call[e].q] = @ \cup ToSet(call[e].list)]
    /\ UNCHANGED <<ring, pending, flags, from, inserts>>

FeedDone(e) ==
    /\ At(e, "feed")
    /\ call[e].list = <<>>
    /\ Flushed(e)
    /\ UNCHANGED <<ring, pending, flags, from, refused, inserts>>

\* ASMAtomicCmpXchgPtr(&pPendingR3, pItems, NULL).
PutBack(e) ==
    LET q == call[e].q IN
    /\ At(e, "putback")
    /\ pending[q]["R3"] = <<>>
    /\ pending' = [pending EXCEPT ![q]["R3"] = Reverse(call[e].list)]
    /\ Flushed(e)
    /\ UNCHANGED <<ring, flags, from, refused, inserts>>

\* Mutant: the items left over are linked in front of the others.
JoinedInFront(e) == Reverse(pending[call[e].q]["R3"]) \o call[e].list

\* Otherwise what was pushed in the meantime is taken off and ours, the older
\* ones, are linked to its end.
Joined(e) == call[e].list \o Reverse(pending[call[e].q]["R3"])

PutBackJoin(e) ==
    LET q == call[e].q IN
    /\ At(e, "putback")
    /\ pending[q]["R3"] # <<>>
    /\ pending' = [pending EXCEPT ![q]["R3"] = <<>>]
    /\ Flush(e, "putback", Joined(e))
    /\ UNCHANGED <<ring, flags, from, refused, inserts>>

-----------------------------------------------------------------------------
Inserting(t) ==
    \/ \E q \in Queues, c \in Contexts : PDMQueueAlloc(t, q, c)
    \/ AllocTake(t) \/ AllocAgain(t) \/ Push(t) \/ SetFF(t) \/ SetBit(t)

Flushing(e) ==
    \/ PDMR3QueueFlushAll(e) \/ ClearFF(e) \/ Activate(e) \/ ClearBit(e)
    \/ Walk(e) \/ Deactivate(e) \/ TestBit(e) \/ TestFF(e)
    \/ \E q \in Queues : pdmR3QueueTimer(e, q)
    \/ TakeR3(e) \/ TakeRC(e) \/ TakeR0(e)
    \/ Feed(e) \/ Enough(e) \/ FeedDone(e) \/ PutBack(e) \/ PutBackJoin(e)

Next == (\E t \in Inserters : Inserting(t)) \/ (\E e \in EMTs : Flushing(e))

Spec == Init /\ [][Next]_vars

-----------------------------------------------------------------------------
(* Properties.                                                             *)

FlushPcs == {"take", "takeRC", "takeR0", "feed", "putback"}
Pcs == FlushPcs \cup {"idle", "alloc", "push", "ff", "bit", "clearff", "activate",
                      "clearbit", "walk", "inactive", "testbit", "testff"}

TypeOK ==
    /\ slot \in [Queues -> [Slots -> Items \cup {None}]]
    /\ iFreeHead \in [Queues -> Slots] /\ iFreeTail \in [Queues -> Slots]
    /\ pending \in [Queues -> [Contexts -> Seq(Items)]]
    /\ ff \in BOOLEAN /\ active \in BOOLEAN /\ bit \in BOOLEAN
    /\ call \in [Threads -> [pc : Pcs, q : 1 .. cForced + cTimed + 1, c : Contexts,
                             i : Slots, item : Items \cup {None}, list : Seq(Items)]]
    /\ from \in [Queues -> [Items -> Contexts]]
    /\ refused \in [Queues -> SUBSET Items]
    /\ inserts \in Nat

\* The items of the ring from iFreeTail up to iFreeHead, that can be allocated.
FreeSlots(q) == {i \in Slots : IF iFreeTail[q] <= iFreeHead[q]
                               THEN iFreeTail[q] <= i /\ i < iFreeHead[q]
                               ELSE iFreeTail[q] <= i \/ i < iFreeHead[q]}

\* What an EMT has taken off a queue's lists; one EMT at a time flushes it.
FlushesQueue(e, q) == call[e].pc \in FlushPcs /\ call[e].q = q
InFlush(q) == IF \E e \in EMTs : FlushesQueue(e, q)
              THEN call[CHOOSE e \in EMTs : FlushesQueue(e, q)].list
              ELSE <<>>

Listed(q) == InFlush(q) \o Reverse(pending[q]["R0"]) \o Reverse(pending[q]["RC"])
                       \o Reverse(pending[q]["R3"])

\* A queue that can be used outside ring-3 and whose consumer refuses items
\* keeps no order: they are put back on the ring-3 list, which is fed last.
Ordered == Queues \ (RZQueues \cap Fussy)

Lines == {"R3"} \cup RZContexts

\* The pairs of elements of which the first comes first.
Pairs(s) == {<<s[p[1]], s[p[2]]>> : p \in {p \in (DOMAIN s) \X (DOMAIN s) : p[1] < p[2]}}

FreeItems == [q \in Queues |-> {slot[q][i] : i \in FreeSlots(q)}]
Waiting   == [q \in Queues |-> [c \in Lines |-> {i \in ToSet(Listed(q)) : from[q][i] = c}]]
Order     == [q \in Queues |-> IF q \in Ordered
                               THEN {p \in Pairs(Listed(q)) : from[q][p[1]] = from[q][p[2]]}
                               ELSE {}]

\* A queue is a mailbox with a line for each context: an item inserted is
\* consumed once, in the order of the inserts made from its context, whatever
\* is pushed while the lists are taken or refused items put back; nobody gets
\* an item from PDMQueueAlloc that is in use, unless the index comes round while
\* he allocates, which the run's bound on inserts excludes.
Box == INSTANCE Mailbox WITH Boxes <- Queues, free <- FreeItems, waiting <- Waiting, order <- Order
ImplementsMailbox == Box!Spec

\* The types, and the assertion of pdmR3QueueFlush, "Someone is racing us? This
\* shouldn't happen!": the three lists are never found empty, nor does anybody
\* else flush the same queue.
Assertions ==
    /\ TypeOK
    /\ \A e \in EMTs : At(e, "take") => HasPending(call[e].q)
    /\ \A e, d \in EMTs : FlushesQueue(e, call[d].q) /\ FlushesQueue(d, call[d].q) => e = d

\* Who will set the PENDING bit for it, or come to the queue on its walk.
Tells(t)        == call[t].pc \in {"ff", "bit"}
WillFlush(e, q) == /\ call[e].pc \in FlushPcs \cup {"walk"}
                   /\ call[e].q \in Forced
                   /\ call[e].q < q \/ (call[e].q = q /\ call[e].pc # "putback")
Waits(q, i) == i \in ToSet(Listed(q)) /\ i \notin refused[q]

\* No insert is missed: while an item waits in a forced queue the PENDING bit
\* is set, or its inserter is about to set it, or the EMT that flushes has the
\* queue before it.
PendingBitKnows ==
    \A q \in Forced, i \in Items :
        Waits(q, i) => \/ bit
                       \/ \E t \in Threads : Tells(t)
                       \/ \E e \in EMTs : WillFlush(e, q)

\* The comment of PDMR3QueueFlushAll: "Queue inserts occurring during the flush
\* are caught using the pending bit."  When nobody is at it, every item that
\* waits has the force flag set for it.
InsertsAreCaught ==
    (\A t \in Threads : At(t, "idle")) =>
        \A q \in Forced, i \in Items : Waits(q, i) => ff

\* PDMQueueAlloc: "Allocate an item from a queue. [...] @thread Any thread."  An
\* item allocated and not yet inserted is nobody else's: it is not in the ring, it
\* is on no list and no other thread was given it.
AllocatedIsMine ==
    \A t \in Threads : At(t, "push") =>
        /\ call[t].item \notin FreeItems[call[t].q] \cup ToSet(Listed(call[t].q))
        /\ \A u \in Threads \ {t} :
               At(u, "push") => <<call[u].q, call[u].item>> # <<call[t].q, call[t].item>>
=============================================================================
