------------------------------ MODULE Mailbox ------------------------------
(***************************************************************************)
(* What a PDM queue promises its users: an item that is allocated, filled  *)
(* in and inserted is handed to the consumer once, the items of one line   *)
(* in the order they were inserted in, and can be allocated again only     *)
(* then.  PDMQueue implements it.                                          *)
(***************************************************************************)
CONSTANTS
    Boxes, Lines, Items,
    Ordered     \* the boxes that keep each of their lines in order

VARIABLES
    free,       \* free[b]: the items nobody uses
    waiting,    \* waiting[b][l]: the items that wait for the consumer
    order       \* order[b]: <<i, j>> if i comes before j in their line

vars == <<free, waiting, order>>

Held(b) == {i \in Items : i \notin free[b] /\ \A l \in Lines : i \notin waiting[b][l]}

Init == /\ free = [b \in Boxes |-> Items]
        /\ waiting = [b \in Boxes |-> [l \in Lines |-> {}]]
        /\ order = [b \in Boxes |-> {}]

Alloc(b, i) ==
    /\ i \in free[b]
    /\ free' = [free EXCEPT ![b] = @ \ {i}]
    /\ UNCHANGED <<waiting, order>>

\* A line that is kept in order grows at its end.
Insert(b, l, i) ==
    /\ i \in Held(b)
    /\ waiting' = [waiting EXCEPT ![b][l] = @ \cup {i}]
    /\ order' = IF b \in Ordered THEN [order EXCEPT ![b] = @ \cup (waiting[b][l] \X {i})]
                                 ELSE order
    /\ UNCHANGED free

\* The consumer gets an item that nothing of its line comes before.
Deliver(b, l, i) ==
    /\ i \in waiting[b][l]
    /\ \A j \in waiting[b][l] : <<j, i>> \notin order[b]
    /\ free' = [free EXCEPT ![b] = @ \cup {i}]
    /\ waiting' = [waiting EXCEPT ![b][l] = @ \ {i}]
    /\ order' = [order EXCEPT ![b] = @ \ ({i} \X waiting[b][l])]

Next == \E b \in Boxes, i \in Items :
            Alloc(b, i) \/ \E l \in Lines : Insert(b, l, i) \/ Deliver(b, l, i)

Spec == Init /\ [][Next]_vars
=============================================================================
