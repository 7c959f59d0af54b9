------------------------------- MODULE XRoads -------------------------------
(***************************************************************************)
(* The crossroads semaphore of IPRT (Runtime/generic/semxroads-generic.cpp)*)
(* Any number of threads may be on the crossing as long as they go the same*)
(* way, north-south or east-west.  Who arrives while the traffic flows the *)
(* other way waits; the last one across reverses it and signals the event  *)
(* of those who wait, and the last of these to wake up resets the event.   *)
(*                                                                         *)
(* The two counts, the two counts of waiters and the direction are one 64- *)
(* bit word, which every step exchanges whole: a failed exchange begins    *)
(* anew and has no effect, so a step here is one that succeeds.            *)
(***************************************************************************)
EXTENDS Integers, FiniteSets

CONSTANTS
    Threads,
    MaxEnters   \* bound: how many times the crossing is entered

Dirs == {"NS", "EW"}
Other(d) == IF d = "NS" THEN "EW" ELSE "NS"

ASSUME ThreadsAssumption == IsFiniteSet(Threads)
ASSUME EntersAssumption == MaxEnters \in Nat

VARIABLES
    count,      \* cNorthSouth, cEastWest: threads on the crossing or waiting
    waiting,    \* cWaitingNS, cWaitingEW
    dir,        \* fDirection
    event,      \* aDirs[d].hEvt, a multiple release event
    needReset,  \* aDirs[d].fNeedReset
    pc,         \* what each thread does next
    way,        \* fDir: where it goes
    enters      \* history: how many times the crossing was entered

word == <<count, waiting, dir>>
sems == <<event, needReset>>
vars == <<count, waiting, dir, event, needReset, pc, way, enters>>

Goto(t, label) == pc' = [pc EXCEPT ![t] = label]
Add(n, d) == count' = [count EXCEPT ![d] = @ + n]

\* RTSemXRoadsCreate.
Init ==
    /\ count     = [d \in Dirs |-> 0]
    /\ waiting   = [d \in Dirs |-> 0]
    /\ dir       = "NS"
    /\ event     = [d \in Dirs |-> FALSE]
    /\ needReset = [d \in Dirs |-> FALSE]
    /\ pc        = [t \in Threads |-> "out"]
    /\ way       = [t \in Threads |-> "NS"]
    /\ enters    = 0

-----------------------------------------------------------------------------
(* rtSemXRoadsEnter.                                                       *)

Enters(t, d) ==
    /\ pc[t] = "out"
    /\ enters < MaxEnters
    /\ enters' = enters + 1
    /\ way' = [way EXCEPT ![t] = d]

\* "It flows in the right direction, try follow it before it changes."
EnterSimple(t, d) ==
    /\ Enters(t, d)
    /\ dir = d
    /\ Add(1, d)
    /\ Goto(t, "in")
    /\ UNCHANGED <<waiting, dir, sems>>

\* "Wrong direction, but we're alone here and can simply try switch".
Alone == count["NS"] = 0 /\ count["EW"] = 0

EnterSwitch(t, d) ==
    /\ Enters(t, d)
    /\ dir # d
    /\ Alone
    /\ Add(1, d)
    /\ dir' = d
    /\ Goto(t, "switched")
    /\ UNCHANGED <<waiting, sems>>

Switched(t) ==
    /\ pc[t] = "switched"
    /\ Goto(t, "in")
    /\ UNCHANGED <<word, sems, way, enters>>

\* "Add ourselves to the queue and wait for the direction to change."
EnterWait(t, d) ==
    /\ Enters(t, d)
    /\ dir # d
    /\ ~Alone
    /\ Add(1, d)
    /\ waiting' = [waiting EXCEPT ![d] = @ + 1]
    /\ Goto(t, "wait")
    /\ UNCHANGED <<dir, sems>>

Wakeup(t) ==
    /\ pc[t] = "wait"
    /\ event[way[t]]
    /\ Goto(t, "woken")
    /\ UNCHANGED <<word, sems, way, enters>>

\* Wait once more if the direction is not ours.
TestDirection(t) ==
    /\ pc[t] = "woken"
    /\ Goto(t, IF dir = way[t] THEN "leavequeue" ELSE "wait")
    /\ UNCHANGED <<word, sems, way, enters>>

\* Mutant: every thread that wakes up resets the event.
LeaveQueueReset(t) ==
    /\ pc[t] = "leavequeue"
    /\ waiting' = [waiting EXCEPT ![way[t]] = @ - 1]
    /\ Goto(t, "reset")
    /\ UNCHANGED <<count, dir, sems, way, enters>>

\* "Decrement the wait count and maybe reset the semaphore (if we're last)."
LeaveQueue(t) ==
    /\ pc[t] = "leavequeue"
    /\ waiting' = [waiting EXCEPT ![way[t]] = @ - 1]
    /\ Goto(t, IF waiting'[way[t]] = 0 THEN "reset" ELSE "in")
    /\ UNCHANGED <<count, dir, sems, way, enters>>

\* ASMAtomicXchgBool(&fNeedReset, false).
ClearNeedReset(t) ==
    /\ pc[t] = "reset"
    /\ needReset' = [needReset EXCEPT ![way[t]] = FALSE]
    /\ Goto(t, IF needReset[way[t]] THEN "resetevent" ELSE "in")
    /\ UNCHANGED <<word, event, way, enters>>

\* Mutant: the event stays set.
ResetForgotten(t) ==
    /\ pc[t] = "resetevent"
    /\ Goto(t, "in")
    /\ UNCHANGED <<word, sems, way, enters>>

ResetEvent(t) ==
    /\ pc[t] = "resetevent"
    /\ event' = [event EXCEPT ![way[t]] = FALSE]
    /\ Goto(t, "in")
    /\ UNCHANGED <<word, needReset, way, enters>>

-----------------------------------------------------------------------------
(* rtSemXRoadsLeave.                                                       *)

\* Mutant: only the waiters are looked at, not who is on the crossing.
LastAcrossWaiters(d) == waiting[Other(d)] # 0

\* The last one across, and somebody wants to go the other way.
LastAcross(d) == count[d] = 1 /\ count[Other(d)] # 0

\* Mutant: the last one across may leave the direction as it is.
LeaveSimply(t) ==
    LET d == way[t] IN
    /\ pc[t] = "in"
    /\ Add(-1, d)
    /\ Goto(t, "out")
    /\ UNCHANGED <<waiting, dir, sems, way, enters>>

\* "We're not the last one across or there aren't any one waiting".
LeaveSimple(t) ==
    LET d == way[t] IN
    /\ pc[t] = "in"
    /\ ~LastAcross(d)
    /\ Add(-1, d)
    /\ Goto(t, "out")
    /\ UNCHANGED <<waiting, dir, sems, way, enters>>

\* "Reverse the direction and signal the threads in the other direction."
LeaveReverse(t) ==
    LET d == way[t] IN
    /\ pc[t] = "in"
    /\ LastAcross(d)
    /\ Add(-1, d)
    /\ dir' = Other(d)
    /\ Goto(t, "needreset")
    /\ UNCHANGED <<waiting, sems, way, enters>>

SetNeedReset(t) ==
    /\ pc[t] = "needreset"
    /\ needReset' = [needReset EXCEPT ![Other(way[t])] = TRUE]
    /\ Goto(t, "signal")
    /\ UNCHANGED <<word, event, way, enters>>

Signal(t) ==
    /\ pc[t] = "signal"
    /\ event' = [event EXCEPT ![Other(way[t])] = TRUE]
    /\ Goto(t, "out")
    /\ UNCHANGED <<word, needReset, way, enters>>

-----------------------------------------------------------------------------
Arrive(t) == \E d \in Dirs : EnterSimple(t, d) \/ EnterSwitch(t, d) \/ EnterWait(t, d)

Cross(t) ==
    \/ Switched(t) \/ Wakeup(t) \/ TestDirection(t) \/ LeaveQueue(t)
    \/ ClearNeedReset(t) \/ ResetEvent(t)
    \/ LeaveSimple(t) \/ LeaveReverse(t) \/ SetNeedReset(t) \/ Signal(t)

Next == \E t \in Threads : Arrive(t) \/ Cross(t)

Spec == Init /\ [][Next]_vars

\* Who has arrived goes on, and does not stay on the crossing for ever.
FairSpec == Spec /\ \A t \in Threads : WF_vars(Cross(t))

-----------------------------------------------------------------------------
(* Properties.                                                             *)

Queued  == {"wait", "woken", "leavequeue"}
Across  == {"switched", "in", "reset", "resetevent"}
Leaving == {"needreset", "signal"}

TypeOK ==
    /\ count \in [Dirs -> Nat] /\ waiting \in [Dirs -> Nat]
    /\ dir \in Dirs
    /\ event \in [Dirs -> BOOLEAN] /\ needReset \in [Dirs -> BOOLEAN]
    /\ pc \in [Threads -> Queued \cup Across \cup Leaving \cup {"out"}]
    /\ way \in [Threads -> Dirs]
    /\ enters \in 0 .. MaxEnters

\* Nobody is on the crossing in a direction while another goes the other way,
\* from the exchange that let it in to the one that takes it off.
Exclusion ==
    \A s, t \in Threads : pc[s] \in Across /\ pc[t] \in Across => way[s] = way[t]

\* The word says who is there: the counts are those of the threads that wait or
\* cross, and the direction is that of whoever crosses.
Users(d)   == {t \in Threads : way[t] = d /\ pc[t] \in Queued \cup Across}
Waiters(d) == {t \in Threads : way[t] = d /\ pc[t] \in Queued}

CountsExact ==
    \A d \in Dirs : count[d] = Cardinality(Users(d)) /\ waiting[d] = Cardinality(Waiters(d))

\* The types, and the Asserts of the two workers: the event needs no reset when
\* the direction is switched or reversed, it does when a thread wakes up, and no
\* thread has to wait twice; there are no more waiters than threads, and the
\* direction does not change under who is on the crossing.
Assertions ==
    /\ TypeOK
    /\ \A d \in Dirs : waiting[d] <= count[d]
    /\ \A t \in Threads :
        /\ pc[t] = "in" => dir = way[t] /\ count[way[t]] > 0
        /\ pc[t] = "leavequeue" => waiting[way[t]] > 0
        /\ pc[t] = "switched"  => ~needReset[way[t]]
        /\ pc[t] = "needreset" => ~needReset[Other(way[t])]
        /\ pc[t] = "woken"     => needReset[way[t]] /\ dir = way[t]

\* A thread that waits when the traffic flows its way has the event set for it,
\* or the one that reversed the direction is about to set it: nobody resets the
\* event before the last of them woke up.
NoLostWakeup ==
    \A t \in Threads : pc[t] = "wait" /\ dir = way[t] =>
        event[dir] \/ \E s \in Threads : pc[s] \in Leaving /\ way[s] # dir

\* Everybody who arrives gets across, if only so many enter: a stream of threads
\* in one direction keeps the others waiting.
EveryoneCrosses == \A t \in Threads : pc[t] = "wait" ~> pc[t] = "in"
=============================================================================
