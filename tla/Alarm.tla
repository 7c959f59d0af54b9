------------------------------- MODULE Alarm -------------------------------
(***************************************************************************)
(* What TM promises the owner of a timer: it goes off only while it is     *)
(* armed, never before its deadline, and once for each time it was armed.  *)
(* TMTimer implements it.                                                  *)
(***************************************************************************)
EXTENDS Integers

CONSTANTS Timers, Times, Off, Ringing

VARIABLES
    alarm,  \* the deadline of an armed timer; Off or Ringing for the others
    now     \* the clock

vars == <<alarm, now>>

Init == alarm = [t \in Timers |-> Off] /\ now = 0

Set(t, value) == alarm' = [alarm EXCEPT ![t] = value] /\ UNCHANGED now

Arm(t) == \E e \in Times : Set(t, e)

Disarm(t) == Set(t, Off)

GoOff(t) ==
    /\ alarm[t] \in Times
    /\ alarm[t] <= now
    /\ Set(t, Ringing)

Tick == now' = now + 1 /\ UNCHANGED alarm

Next == Tick \/ \E t \in Timers : Arm(t) \/ Disarm(t) \/ GoOff(t)

Spec == Init /\ [][Next]_vars
=============================================================================
