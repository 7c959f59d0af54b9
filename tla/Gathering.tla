----------------------------- MODULE Gathering -----------------------------
(***************************************************************************)
(* What VMMR3EmtRendezvous promises: nobody begins before everybody has    *)
(* come, nobody goes before everybody is through, nobody comes to the next *)
(* gathering before all have gone from this one; and the handler is run    *)
(* once by each EMT, or by one of them, in the order that was asked for.   *)
(* EMTRendezvous implements it.                                            *)
(***************************************************************************)
EXTENDS Integers

CONSTANT EMTs   \* their indices: 0, 1, ...

VARIABLES
    place,   \* "away", "here", "inside" the handler, or "through" with it
    manner   \* how the handler is run

vars == <<place, manner>>

All(where) == \A e \in EMTs : place[e] \in where

Init == /\ place = [e \in EMTs |-> "away"]
        /\ manner = "ONE_BY_ONE"

Call == /\ All({"away"})
        /\ manner' \in {"ONE_BY_ONE", "ALL_AT_ONCE", "ONCE", "ASCENDING", "DESCENDING"}
        /\ UNCHANGED place

Move(e, there) == place' = [place EXCEPT ![e] = there] /\ UNCHANGED manner

Come(e) ==
    /\ place[e] = "away"
    /\ All({"away", "here"})
    /\ Move(e, "here")

\* Whose turn it is once all have come.
Turn(e) ==
    LET Done == {d \in EMTs : place[d] = "through"} IN
    /\ All({"here", "inside", "through"})
    /\ manner # "ALL_AT_ONCE" => All({"here", "through"})
    /\ manner = "ASCENDING"  => Done = {d \in EMTs : d < e}
    /\ manner = "DESCENDING" => Done = {d \in EMTs : d > e}
    /\ manner = "ONCE"       => Done = {}

Begin(e) == place[e] = "here" /\ Turn(e) /\ Move(e, "inside")

\* An EMT passes over the handler if one before it failed.
PassOver(e) ==
    /\ place[e] = "here" /\ Turn(e)
    /\ \E d \in EMTs : place[d] = "through"
    /\ Move(e, "through")

End(e) ==
    /\ place[e] = "inside"
    /\ IF manner = "ONCE" THEN place' = [d \in EMTs |-> "through"] /\ UNCHANGED manner
       ELSE Move(e, "through")

Go(e) ==
    /\ place[e] = "through"
    /\ All({"through", "away"})
    /\ Move(e, "away")

Next == Call \/ \E e \in EMTs : Come(e) \/ Begin(e) \/ PassOver(e) \/ End(e) \/ Go(e)

Spec == Init /\ [][Next]_vars
=============================================================================
