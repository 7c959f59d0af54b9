--------------------------- MODULE RecursiveLock ---------------------------
(***************************************************************************)
(* What a PDM critical section promises its users: a recursive lock that   *)
(* one thread at a time has entered, however the enters and leaves are     *)
(* carried out.  PDMCritSect implements it.                                *)
(***************************************************************************)
EXTENDS Integers

CONSTANTS Threads, Sects

VARIABLE depth  \* depth[t][s]: how often t has entered s without leaving it

Init == depth = [t \in Threads |-> [s \in Sects |-> 0]]

Enter(t, s) ==
    /\ \A u \in Threads \ {t} : depth[u][s] = 0
    /\ depth' = [depth EXCEPT ![t][s] = @ + 1]

Leave(t, s) ==
    /\ depth[t][s] > 0
    /\ depth' = [depth EXCEPT ![t][s] = @ - 1]

Next == \E t \in Threads, s \in Sects : Enter(t, s) \/ Leave(t, s)

Spec == Init /\ [][Next]_depth
=============================================================================
