---------------------------- MODULE RemoteCalls ----------------------------
(***************************************************************************)
(* What the VM request packets promise: the function asked for is run once *)
(* from the queue it was put to, those of a queue kept in order in the     *)
(* order they were asked for, and a packet is used anew only when it was.  *)
(* VMReq implements it.                                                    *)
(***************************************************************************)
EXTENDS Sequences

CONSTANTS Packets, Ordered  \* the queues kept in order

VARIABLES
    stage,   \* "unused", "asked", "running" or "answered"
    line,    \* line[q]: the packets asked for, oldest first
    pool     \* the packets asked for from the queue that keeps no order

vars == <<stage, line, pool>>

Init == /\ stage = [p \in Packets |-> "unused"]
        /\ line = [q \in Ordered |-> <<>>]
        /\ pool = {}

Becomes(p, now, then) == stage[p] = now /\ stage' = [stage EXCEPT ![p] = then]

Ask(p, q) ==
    /\ Becomes(p, "unused", "asked")
    /\ line' = [line EXCEPT ![q] = Append(@, p)]
    /\ UNCHANGED pool

AskAny(p) ==
    /\ Becomes(p, "unused", "asked")
    /\ pool' = pool \cup {p}
    /\ UNCHANGED line

Run(q) ==
    /\ line[q] # <<>>
    /\ Becomes(Head(line[q]), "asked", "running")
    /\ line' = [line EXCEPT ![q] = Tail(@)]
    /\ UNCHANGED pool

RunAny(p) ==
    /\ p \in pool
    /\ Becomes(p, "asked", "running")
    /\ pool' = pool \ {p}
    /\ UNCHANGED line

\* Who serves the queues runs what it wants itself.
RunOwn(p) == Becomes(p, "unused", "running") /\ UNCHANGED <<line, pool>>

Answer(p) == Becomes(p, "running", "answered") /\ UNCHANGED <<line, pool>>

Done(p)   == Becomes(p, "answered", "unused") /\ UNCHANGED <<line, pool>>

Next == \/ \E p \in Packets, q \in Ordered : Ask(p, q)
        \/ \E q \in Ordered : Run(q)
        \/ \E p \in Packets : AskAny(p) \/ RunAny(p) \/ RunOwn(p) \/ Answer(p) \/ Done(p)

Spec == Init /\ [][Next]_vars
=============================================================================
