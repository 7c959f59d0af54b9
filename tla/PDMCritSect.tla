---------------------------- MODULE PDMCritSect ----------------------------
(***************************************************************************)
(* PDM critical sections (VMM/VMMAll/PDMAllCritSect.cpp): recursive locks  *)
(* shared by ring-3 threads, ring-0 and the raw-mode context.  Every       *)
(* atomic access of the code is a step of its own; a thread's program      *)
(* counter pc[t] names the access it is about to make.                     *)
(*                                                                         *)
(* A context that may not block queues its leave on the virtual CPU        *)
(* (PENDING_UNLOCK); PDMCritSectFF replays the queue once the EMT is back  *)
(* in ring-3, and a ring-3 call that enters a section replays it first.    *)
(***************************************************************************)
EXTENDS Integers, Sequences, FiniteSets

CONSTANTS
    Threads,    \* every thread that uses the sections
    EMTs,       \* those that are emulation threads and run guest code
    Sects,      \* the critical sections; the clients' lock order is <
    NIL,        \* NIL_RTNATIVETHREAD
    MaxNest     \* bound: how deep a client nests one section

ASSUME ThreadsAssumption == EMTs \subseteq Threads /\ NIL \notin Threads
ASSUME SectsAssumption == Sects \subseteq Nat /\ Sects # {}
ASSUME MaxNestAssumption == MaxNest \in Nat \ {0}
ASSUME FiniteAssumption == IsFiniteSet(Threads)

VARIABLES
    cLockers,   \* Core.cLockers: -1 when free
    cNestings,  \* Core.cNestings
    owner,      \* Core.NativeThreadOwner
    pending,    \* PDMCRITSECT_FLAGS_PENDING_UNLOCK is set in Core.fFlags
    event,      \* the auto-reset semaphore Core.EventSem is signalled
    exitEvent,  \* EventToSignal is not NIL
    pc,         \* what each thread does next; "idle" when in client code
    sect,       \* the section the thread's current operation is about
    caller,     \* who called the leave: "client", "ff" or "yield"
    toSignal,   \* the local hEventToSignal of PDMCritSectLeave
    ctx,        \* "R3", "R0" (interrupts on), "RZ" (RC, or R0 with them off)
    call,       \* the context a ring-3 call suspended, or "none"
    want,       \* the argument of that call: the section to enter
    queue,      \* apQueuedCritSectsLeaves[0..cQueuedCritSectLeaves)
    fi,         \* the loop index of PDMCritSectFF
    depth       \* history: enters minus leaves the client has made

shared == <<cLockers, cNestings, owner, pending, event, exitEvent>>
local  == <<pc, sect, caller, toSignal, ctx, call, want, queue, fi>>
vars   == <<cLockers, cNestings, owner, pending, event, exitEvent, pc, sect,
            caller, toSignal, ctx, call, want, queue, fi, depth>>

Contexts == {"R3", "R0", "RZ"}


Pcs == {"idle", "enter", "spin", "contend", "wait", "first", "own", "nest",
        "unnest", "flag", "release", "count", "unlock", "signal", "exitsig",
        "rzNest", "rzFlag", "rzOwner", "rzCas", "rzRetake", "rzRenest",
        "rzQueue", "ff"}

NextPc(t, label) == pc' = [pc EXCEPT ![t] = label]

(***************************************************************************)
(* The client's side: it balances enters and leaves, nests up to MaxNest   *)
(* and enters a section for good only after those with smaller numbers.    *)
(***************************************************************************)
Holds(t, s) == depth[t][s] > 0
HoldsNone(t) == \A s \in Sects : ~Holds(t, s)
InOrder(t, s) == Holds(t, s) \/ \A r \in Sects : Holds(t, r) => r < s
Deepen(t, s)  == depth' = [depth EXCEPT ![t][s] = @ + 1]
Shallow(t, s) == depth' = [depth EXCEPT ![t][s] = @ - 1]

-----------------------------------------------------------------------------
(* A section is created free; every thread starts in ring-3 client code.   *)
Init ==
    /\ cLockers  = [s \in Sects |-> -1]
    /\ cNestings = [s \in Sects |-> 0]
    /\ owner     = [s \in Sects |-> NIL]
    /\ pending   = [s \in Sects |-> FALSE]
    /\ event     = [s \in Sects |-> FALSE]
    /\ exitEvent = [s \in Sects |-> FALSE]
    /\ pc        = [t \in Threads |-> "idle"]
    /\ sect      = [t \in Threads |-> CHOOSE s \in Sects : TRUE]
    /\ caller    = [t \in Threads |-> "client"]
    /\ toSignal  = [t \in Threads |-> FALSE]
    /\ ctx       = [t \in Threads |-> "R3"]
    /\ call      = [t \in Threads |-> "none"]
    /\ want      = sect
    /\ queue     = [t \in Threads |-> <<>>]
    /\ fi        = [t \in Threads |-> 0]
    /\ depth     = [t \in Threads |-> [s \in Sects |-> 0]]

-----------------------------------------------------------------------------
(* pdmCritSectEnter: the lucky exchange -1 -> 0, or the nested entry.  The *)
(* owner test is merged with the failed exchange: only t itself can make   *)
(* owner[s] equal to t or different from it.                               *)

\* Mutant: a load and a store instead of the exchange also takes a section
\* that is owned without waiters.
LuckyRace(t, s) ==
    /\ cLockers[s] \in {-1, 0}
    /\ cLockers' = [cLockers EXCEPT ![s] = 0]
    /\ NextPc(t, "first")

Lucky(t, s) ==
    /\ cLockers[s] = -1
    /\ cLockers' = [cLockers EXCEPT ![s] = 0]
    /\ NextPc(t, "first")

Nested(t, s) ==
    /\ cLockers[s] # -1
    /\ owner[s] = t
    /\ cLockers' = [cLockers EXCEPT ![s] = @ + 1]
    /\ NextPc(t, "nest")

EnterCas(t, s) ==
    \/ Lucky(t, s)
    \/ Nested(t, s)
    \/ /\ cLockers[s] # -1
       /\ owner[s] # t
       /\ NextPc(t, "spin")
       /\ UNCHANGED cLockers

EnterFrame == UNCHANGED <<cNestings, owner, pending, event, exitEvent, caller,
                          toSignal, ctx, call, want, queue, fi, depth>>

\* PDMCritSectEnter called by client code.
Enter(t, s) ==
    /\ pc[t] = "idle"
    /\ depth[t][s] < MaxNest
    /\ InOrder(t, s)
    /\ sect' = [sect EXCEPT ![t] = s]
    /\ EnterCas(t, s)
    /\ EnterFrame

\* The same call made by PDMR3CritSectYield or to service a ring-3 call.
EnterAgain(t) ==
    /\ pc[t] = "enter"
    /\ EnterCas(t, sect[t])
    /\ EnterFrame
    /\ UNCHANGED sect

\* PDMCritSectTryEnter; when the section is busy it changes nothing.
TryEnter(t, s) ==
    /\ pc[t] = "idle"
    /\ depth[t][s] < MaxNest
    /\ sect' = [sect EXCEPT ![t] = s]
    /\ Lucky(t, s) \/ Nested(t, s)
    /\ EnterFrame

\* An iteration of the spin loop that wins.
SpinWin(t) ==
    /\ pc[t] = "spin"
    /\ Lucky(t, sect[t])
    /\ EnterFrame
    /\ UNCHANGED sect

\* The spin count is used up: block where the context allows it.
SpinOut(t) ==
    /\ pc[t] = "spin"
    /\ ctx[t] # "RZ"
    /\ NextPc(t, "contend")
    /\ EnterFrame
    /\ UNCHANGED <<cLockers, sect>>

\* Ring-0 without preemption, or RC: rcBusy goes back to the caller.
Busy(t) ==
    /\ pc[t] = "spin"
    /\ ctx[t] # "R3"
    /\ NextPc(t, "idle")
    /\ EnterFrame
    /\ UNCHANGED <<cLockers, sect>>

\* The same with rcBusy = VINF_SUCCESS: VMMRZCallRing3(PDM_CRIT_SECT_ENTER),
\* which vmmR3ServiceCallRing3Request begins with PDMCritSectFF.
RingCall(t) ==
    /\ pc[t] = "spin"
    /\ ctx[t] # "R3"
    /\ call' = [call EXCEPT ![t] = ctx[t]]
    /\ ctx'  = [ctx EXCEPT ![t] = "R3"]
    /\ want' = [want EXCEPT ![t] = sect[t]]
    /\ NextPc(t, "ff")
    /\ UNCHANGED <<shared, sect, caller, toSignal, queue, fi, depth>>

\* The increment of cLockers returned 0.
\* Mutant: it compares the value before the increment.
ContendWinsLate(s) == cLockers[s] \in {-1, 0}
ContendWins(s) == cLockers[s] = -1

\* pdmR3R0CritSectEnterContended: register as a locker.
Contend(t) ==
    /\ pc[t] = "contend"
    /\ cLockers' = [cLockers EXCEPT ![sect[t]] = @ + 1]
    /\ NextPc(t, IF ContendWins(sect[t]) THEN "first" ELSE "wait")
    /\ EnterFrame
    /\ UNCHANGED sect

\* The wait returns VINF_SUCCESS and resets the semaphore.  A wait that is
\* interrupted changes nothing and loops.
Wake(t) ==
    /\ pc[t] = "wait"
    /\ event[sect[t]]
    /\ event' = [event EXCEPT ![sect[t]] = FALSE]
    /\ NextPc(t, "first")
    /\ UNCHANGED <<cLockers, cNestings, owner, pending, exitEvent, sect, caller,
                   toSignal, ctx, call, want, queue, fi, depth>>

\* pdmCritSectEnterFirst: cNestings, then the owner.
First(t) ==
    /\ pc[t] = "first"
    /\ cNestings' = [cNestings EXCEPT ![sect[t]] = 1]
    /\ NextPc(t, "own")
    /\ UNCHANGED <<cLockers, owner, pending, event, exitEvent, sect, caller,
                   toSignal, ctx, call, want, queue, fi, depth>>

\* An enter returns; one that served a ring-3 call resumes the caller there.
Entered(t) ==
    /\ Deepen(t, sect[t])
    /\ NextPc(t, "idle")
    /\ ctx'  = [ctx EXCEPT ![t] = IF call[t] = "none" THEN @ ELSE call[t]]
    /\ call' = [call EXCEPT ![t] = "none"]
    /\ UNCHANGED <<cLockers, pending, event, exitEvent, sect, caller, toSignal,
                   want, queue, fi>>

Own(t) ==
    /\ pc[t] = "own"
    /\ owner' = [owner EXCEPT ![sect[t]] = t]
    /\ UNCHANGED cNestings
    /\ Entered(t)

\* Mutant: only cLockers counts the nested enter.
NestUncounted(t) ==
    /\ pc[t] = "nest"
    /\ UNCHANGED <<cNestings, owner>>
    /\ Entered(t)

Nest(t) ==
    /\ pc[t] = "nest"
    /\ cNestings' = [cNestings EXCEPT ![sect[t]] = @ + 1]
    /\ UNCHANGED owner
    /\ Entered(t)

-----------------------------------------------------------------------------
(* PDMCritSectLeave.  A caller that is not the owner only runs into an     *)
(* assertion, so it has no step here; OwnerHolds shows that none gets that *)
(* far.  c names the caller the leave returns to.                          *)
LeaveFrame == UNCHANGED <<owner, event, sect, caller, toSignal, ctx, call,
                          want, queue, fi, depth>>

LeaveNested(t, s) ==
    /\ cNestings[s] > 1
    /\ cNestings' = [cNestings EXCEPT ![s] = @ - 1]
    /\ NextPc(t, "unnest")
    /\ UNCHANGED <<exitEvent, toSignal>>

\* Mutant: EventToSignal is read but not reset to NIL.
LeaveKeepsEvent(t, s) ==
    /\ cNestings[s] <= 1
    /\ ctx[t] # "RZ"
    /\ toSignal' = [toSignal EXCEPT ![t] = ctx[t] = "R3" /\ exitEvent[s]]
    /\ NextPc(t, "flag")
    /\ UNCHANGED <<cNestings, exitEvent>>

LeaveForReal(t, s) ==
    /\ cNestings[s] <= 1
    /\ ctx[t] # "RZ"
    /\ IF ctx[t] = "R3"
         THEN /\ toSignal'  = [toSignal EXCEPT ![t] = exitEvent[s]]
              /\ exitEvent' = [exitEvent EXCEPT ![s] = FALSE]
         ELSE UNCHANGED <<toSignal, exitEvent>>
    /\ NextPc(t, "flag")
    /\ UNCHANGED cNestings

\* Mutant: the context is tested before the nestings.
LeaveTryNested(t, s) ==
    /\ ctx[t] = "RZ"
    /\ NextPc(t, IF cLockers[s] = 0 THEN "rzNest" ELSE "rzQueue")
    /\ UNCHANGED <<cNestings, exitEvent, toSignal>>

LeaveTry(t, s) ==
    /\ cNestings[s] <= 1
    /\ ctx[t] = "RZ"
    /\ NextPc(t, IF cLockers[s] = 0 THEN "rzNest" ELSE "rzQueue")
    /\ UNCHANGED <<cNestings, exitEvent, toSignal>>

LeaveBy(t, s, c) ==
    /\ owner[s] = t
    /\ LeaveNested(t, s) \/ LeaveForReal(t, s) \/ LeaveTry(t, s)
    /\ sect'   = [sect EXCEPT ![t] = s]
    /\ caller' = [caller EXCEPT ![t] = c]
    /\ UNCHANGED <<cLockers, owner, pending, event, ctx, call, want, queue>>

Leave(t, s) ==
    /\ pc[t] = "idle"
    /\ Holds(t, s)
    /\ LeaveBy(t, s, "client")
    /\ Shallow(t, s)
    /\ UNCHANGED fi

\* Where a leave that is done goes: back to the client, to the loop of
\* PDMCritSectFF, or to the second half of PDMR3CritSectYield.
AfterLeave(t) ==
    CASE caller[t] = "client" -> "idle"
      [] caller[t] = "ff"     -> "ff"
      [] caller[t] = "yield"  -> "enter"

\* Mutant: a nested leave forgets the locker.
UnnestUncounted(t) ==
    /\ pc[t] = "unnest"
    /\ NextPc(t, AfterLeave(t))
    /\ UNCHANGED <<cLockers, cNestings, pending, exitEvent>>
    /\ LeaveFrame

Unnest(t) ==
    /\ pc[t] = "unnest"
    /\ cLockers' = [cLockers EXCEPT ![sect[t]] = @ - 1]
    /\ NextPc(t, AfterLeave(t))
    /\ UNCHANGED <<cNestings, pending, exitEvent>>
    /\ LeaveFrame

\* Leaving for real: the flag, the owner, the nestings, then the lockers.
\* Mutant: PENDING_UNLOCK stays set.
FlagKept(t) ==
    /\ pc[t] = "flag"
    /\ NextPc(t, "release")
    /\ UNCHANGED <<cLockers, cNestings, pending, exitEvent>>
    /\ LeaveFrame

Flag(t) ==
    /\ pc[t] = "flag"
    /\ pending' = [pending EXCEPT ![sect[t]] = FALSE]
    /\ NextPc(t, "release")
    /\ UNCHANGED <<cLockers, cNestings, exitEvent>>
    /\ LeaveFrame

Release(t) ==
    /\ pc[t] = "release"
    /\ owner' = [owner EXCEPT ![sect[t]] = NIL]
    /\ NextPc(t, "count")
    /\ UNCHANGED <<cLockers, cNestings, pending, event, exitEvent, sect, caller,
                   toSignal, ctx, call, want, queue, fi, depth>>

Count(t) ==
    /\ pc[t] = "count"
    /\ cNestings' = [cNestings EXCEPT ![sect[t]] = @ - 1]
    /\ NextPc(t, "unlock")
    /\ UNCHANGED <<cLockers, pending, exitEvent>>
    /\ LeaveFrame

\* The decrement of cLockers returned 0 or more.
\* Mutant: off by one, it also signals when nobody waits.
UnlockWakesAlways(s) == cLockers[s] >= 0
UnlockWakes(s) == cLockers[s] > 0

AfterUnlock(t) == IF toSignal[t] THEN "exitsig" ELSE AfterLeave(t)

Unlock(t) ==
    /\ pc[t] = "unlock"
    /\ cLockers' = [cLockers EXCEPT ![sect[t]] = @ - 1]
    /\ NextPc(t, IF UnlockWakes(sect[t]) THEN "signal" ELSE AfterUnlock(t))
    /\ UNCHANGED <<cNestings, pending, exitEvent>>
    /\ LeaveFrame

Signal(t) ==
    /\ pc[t] = "signal"
    /\ event' = [event EXCEPT ![sect[t]] = TRUE]
    /\ NextPc(t, AfterUnlock(t))
    /\ UNCHANGED <<cLockers, cNestings, owner, pending, exitEvent, sect, caller,
                   toSignal, ctx, call, want, queue, fi, depth>>

ExitSignal(t) ==
    /\ pc[t] = "exitsig"
    /\ toSignal' = [toSignal EXCEPT ![t] = FALSE]
    /\ NextPc(t, AfterLeave(t))
    /\ UNCHANGED <<shared, sect, caller, ctx, call, want, queue, fi, depth>>

\* Leaving where the semaphore may not be signalled: give the section up
\* without a waiter, and take it back when one raced in.
RzNest(t) ==
    /\ pc[t] = "rzNest"
    /\ cNestings' = [cNestings EXCEPT ![sect[t]] = 0]
    /\ NextPc(t, "rzFlag")
    /\ UNCHANGED <<cLockers, pending, exitEvent>>
    /\ LeaveFrame

RzFlag(t) ==
    /\ pc[t] = "rzFlag"
    /\ pending' = [pending EXCEPT ![sect[t]] = FALSE]
    /\ NextPc(t, "rzOwner")
    /\ UNCHANGED <<cLockers, cNestings, exitEvent>>
    /\ LeaveFrame

RzOwner(t) ==
    /\ pc[t] = "rzOwner"
    /\ owner' = [owner EXCEPT ![sect[t]] = NIL]
    /\ NextPc(t, "rzCas")
    /\ UNCHANGED <<cLockers, cNestings, pending, event, exitEvent, sect, caller,
                   toSignal, ctx, call, want, queue, fi, depth>>

\* The exchange 0 -> -1 succeeds.
\* Mutant: cLockers is stored, a waiter that raced in is lost.
RzStore(s) == TRUE
RzAlone(s) == cLockers[s] = 0

RzCas(t) ==
    /\ pc[t] = "rzCas"
    /\ IF RzAlone(sect[t])
         THEN /\ cLockers' = [cLockers EXCEPT ![sect[t]] = -1]
              /\ NextPc(t, AfterLeave(t))
         ELSE /\ NextPc(t, "rzRetake")
              /\ UNCHANGED cLockers
    /\ UNCHANGED <<cNestings, pending, exitEvent>>
    /\ LeaveFrame

RzRetake(t) ==
    /\ pc[t] = "rzRetake"
    /\ owner' = [owner EXCEPT ![sect[t]] = t]
    /\ NextPc(t, "rzRenest")
    /\ UNCHANGED <<cLockers, cNestings, pending, event, exitEvent, sect, caller,
                   toSignal, ctx, call, want, queue, fi, depth>>

RzRenest(t) ==
    /\ pc[t] = "rzRenest"
    /\ cNestings' = [cNestings EXCEPT ![sect[t]] = 1]
    /\ NextPc(t, "rzQueue")
    /\ UNCHANGED <<cLockers, pending, exitEvent>>
    /\ LeaveFrame

\* Set PENDING_UNLOCK and queue the section for ring-3.
RzQueue(t) ==
    /\ pc[t] = "rzQueue"
    /\ pending' = [pending EXCEPT ![sect[t]] = TRUE]
    /\ queue'   = [queue EXCEPT ![t] = Append(@, sect[t])]
    /\ NextPc(t, "idle")
    /\ UNCHANGED <<cLockers, cNestings, owner, event, exitEvent, sect, caller,
                   toSignal, ctx, call, want, fi, depth>>

-----------------------------------------------------------------------------
(* PDMCritSectFF: leave every queued section, then empty the queue.  It    *)
(* returns to the ring-3 call it precedes, or to the EMT's ring-3 loop.    *)
FFLeave(t) ==
    /\ pc[t] = "ff"
    /\ fi[t] < Len(queue[t])
    /\ LeaveBy(t, queue[t][fi[t] + 1], "ff")
    /\ fi' = [fi EXCEPT ![t] = @ + 1]
    /\ UNCHANGED depth

\* Where PDMCritSectFF returns to.
FFReturns(t) ==
    /\ caller' = [caller EXCEPT ![t] = "client"]
    /\ sect' = [sect EXCEPT ![t] = IF call[t] = "none" THEN @ ELSE want[t]]
    /\ NextPc(t, IF call[t] = "none" THEN "idle" ELSE "enter")
    /\ UNCHANGED <<shared, toSignal, ctx, call, want, depth>>

\* Mutants: the loop ends before its last section; cQueuedCritSectLeaves is
\* not set to 0; the loop index is not started afresh.
FFDoneEarly(t) ==
    /\ pc[t] = "ff"
    /\ queue' = [queue EXCEPT ![t] = <<>>]
    /\ fi'    = [fi EXCEPT ![t] = 0]
    /\ FFReturns(t)

FFDoneKeepsQueue(t) ==
    /\ pc[t] = "ff"
    /\ fi[t] = Len(queue[t])
    /\ fi' = [fi EXCEPT ![t] = 0]
    /\ FFReturns(t)
    /\ UNCHANGED queue

FFDoneKeepsIndex(t) ==
    /\ pc[t] = "ff"
    /\ fi[t] = Len(queue[t])
    /\ queue' = [queue EXCEPT ![t] = <<>>]
    /\ FFReturns(t)
    /\ UNCHANGED fi

FFDone(t) ==
    /\ pc[t] = "ff"
    /\ fi[t] = Len(queue[t])
    /\ queue' = [queue EXCEPT ![t] = <<>>]
    /\ fi'    = [fi EXCEPT ![t] = 0]
    /\ FFReturns(t)

\* PDMR3CritSectYield: leave and enter again when somebody waits.  The spin
\* in between only gives the others time.
\* The test is the one PDMCritSectHasWaiters makes.
HasWaiters(s) == cLockers[s] >= cNestings[s]

Yield(t, s) ==
    /\ pc[t] = "idle"
    /\ ctx[t] = "R3"
    /\ depth[t][s] = 1
    /\ \A r \in Sects \ {s} : Holds(t, r) => r < s
    /\ cNestings[s] = 1
    /\ HasWaiters(s)
    /\ LeaveBy(t, s, "yield")
    /\ Shallow(t, s)
    /\ UNCHANGED fi

\* PDMR3CritSectScheduleExitEvent by the owner, in ring-3.
ScheduleExitEvent(t, s) ==
    /\ pc[t] = "idle"
    /\ ctx[t] = "R3"
    /\ Holds(t, s)
    /\ owner[s] = t
    /\ ~exitEvent[s]
    /\ exitEvent' = [exitEvent EXCEPT ![s] = TRUE]
    /\ UNCHANGED <<cLockers, cNestings, owner, pending, event, local, depth>>

\* The EMT starts executing guest code, and comes back to ring-3, where
\* emR3HighPriorityPostForcedActions runs PDMCritSectFF before anything else.
\* It crosses with no section held.
RunGuest(t) ==
    /\ t \in EMTs
    /\ pc[t] = "idle"
    /\ ctx[t] = "R3"
    /\ HoldsNone(t)
    /\ \E c \in {"R0", "RZ"} : ctx' = [ctx EXCEPT ![t] = c]
    /\ UNCHANGED <<shared, pc, sect, caller, toSignal, call, want, queue, fi, depth>>

\* Mutant: the pending force flag is not looked at.
ToRing3Late(t) ==
    /\ pc[t] = "idle"
    /\ ctx[t] # "R3"
    /\ HoldsNone(t)
    /\ ctx' = [ctx EXCEPT ![t] = "R3"]
    /\ UNCHANGED <<shared, pc, sect, caller, toSignal, call, want, queue, fi, depth>>

ToRing3(t) ==
    /\ pc[t] = "idle"
    /\ ctx[t] # "R3"
    /\ HoldsNone(t)
    /\ ctx' = [ctx EXCEPT ![t] = "R3"]
    /\ NextPc(t, "ff")
    /\ UNCHANGED <<shared, sect, caller, toSignal, call, want, queue, fi, depth>>

-----------------------------------------------------------------------------
\* What client code decides to do, and what a thread does on its own.
Client(t) ==
    \/ RunGuest(t) \/ ToRing3(t)
    \/ \E s \in Sects : \/ Enter(t, s) \/ TryEnter(t, s) \/ Leave(t, s)
                        \/ Yield(t, s) \/ ScheduleExitEvent(t, s)

Enters(t) == \/ EnterAgain(t) \/ SpinWin(t) \/ SpinOut(t) \/ Busy(t) \/ RingCall(t)
             \/ Contend(t) \/ Wake(t) \/ First(t) \/ Own(t) \/ Nest(t)
Leaves(t) == \/ Unnest(t) \/ Flag(t) \/ Release(t) \/ Count(t) \/ Unlock(t)
             \/ Signal(t) \/ ExitSignal(t)
RzLeaves(t) == \/ RzNest(t) \/ RzFlag(t) \/ RzOwner(t) \/ RzCas(t)
               \/ RzRetake(t) \/ RzRenest(t) \/ RzQueue(t)
FF(t) == FFLeave(t) \/ FFDone(t)

Step(t) == Enters(t) \/ Leaves(t) \/ RzLeaves(t) \/ FF(t)

Next == \E t \in Threads : Client(t) \/ Step(t)

Spec == Init /\ [][Next]_vars

(***************************************************************************)
(* Fairness.  The host schedules every thread that can run (WF of Step),   *)
(* holders do leave and EMTs do come back to ring-3 (SF, since the client  *)
(* may be busy with other sections in between).                            *)
(***************************************************************************)
Fairness ==
    \A t \in Threads :
        /\ WF_vars(Step(t))
        /\ \A s \in Sects : SF_vars(Leave(t, s))
        /\ SF_vars(\E s \in Sects : Leave(t, s) /\ HoldsNone(t)')
        /\ SF_vars(ToRing3(t))

FairSpec == Spec /\ Fairness

-----------------------------------------------------------------------------
\* The values every variable keeps; cLockers and cNestings as signed counters.
TypeOK ==
    /\ cLockers  \in [Sects -> Int]
    /\ cNestings \in [Sects -> Int]
    /\ owner     \in [Sects -> Threads \cup {NIL}]
    /\ pending   \in [Sects -> BOOLEAN]
    /\ event     \in [Sects -> BOOLEAN]
    /\ exitEvent \in [Sects -> BOOLEAN]
    /\ pc        \in [Threads -> Pcs]
    /\ sect      \in [Threads -> Sects]
    /\ caller    \in [Threads -> {"client", "ff", "yield"}]
    /\ toSignal  \in [Threads -> BOOLEAN]
    /\ ctx       \in [Threads -> Contexts]
    /\ call      \in [Threads -> {"none", "R0", "RZ"}]
    /\ want      \in [Threads -> Sects]
    /\ queue     \in [Threads -> Seq(Sects)]
    /\ fi        \in [Threads -> Nat]
    /\ \A t \in Threads : fi[t] <= Len(queue[t])
    /\ depth     \in [Threads -> [Sects -> Int]]

At(t, s, labels) == sect[t] = s /\ pc[t] \in labels

Waiters(s) == {t \in Threads : At(t, s, {"wait"})}

\* The steps of a thread that has the section although it is not its owner:
\* it has been let in and not stored itself yet, or is giving the section up.
HandlingPcs == {"first", "own", "count", "unlock", "signal", "rzCas", "rzRetake"}
Inside(t, s) == owner[s] = t \/ At(t, s, HandlingPcs)

Queued(t, s) == \E i \in 1..Len(queue[t]) : i > fi[t] /\ queue[t][i] = s

\* What pdmCritSectEnterFirst asserts: whoever is let in finds no owner, no
\* pending unlock and nobody else who has the section or is promised it.
EnterFirstAlone ==
    \A t \in Threads : pc[t] = "first" =>
        /\ owner[sect[t]] = NIL
        /\ ~pending[sect[t]]
        /\ ~event[sect[t]]
        /\ \A u \in Threads \ {t} : ~Inside(u, sect[t])

\* A section is in one pair of hands: two threads never both own, enter or
\* give up the same section, and a signalled semaphore excludes all of them.
Exclusive(s) ==
    \A t, u \in Threads : Inside(t, s) => ~event[s] /\ (Inside(u, s) => u = t)

OneInside == \A s \in Sects : Exclusive(s)

\* What makes OneInside inductive: where the program counters leave a thread's
\* ownership, what a free section looks like, and how far the counters of a
\* section that is in use may be apart.
OwnerPcs == {"nest", "unnest", "flag", "release", "rzNest", "rzFlag", "rzOwner",
             "rzRenest", "rzQueue"}

PcOwner(s) ==
    \A t \in Threads : /\ At(t, s, OwnerPcs) => owner[s] = t
                       /\ At(t, s, HandlingPcs) => owner[s] # t

FreeIsFree(s) ==
    /\ cLockers[s] >= -1
    /\ cLockers[s] = -1 => ~event[s] /\ \A t \in Threads : ~Inside(t, s)

CountersOK(s) ==
    \A t \in Threads :
        /\ At(t, s, {"own"}) => cNestings[s] = 1
        /\ At(t, s, {"nest", "unnest"}) => cLockers[s] >= cNestings[s]
        /\ owner[s] = t /\ ~At(t, s, {"rzFlag", "rzOwner", "rzRenest"}) =>
             cNestings[s] >= 1 /\ cLockers[s] >= cNestings[s] - 1

PendingOwned(s) ==
    pending[s] => /\ owner[s] # NIL
                  /\ \A t \in Threads : ~At(t, s, {"release", "rzOwner"})

SectInv(s) ==
    Exclusive(s) /\ PcOwner(s) /\ FreeIsFree(s) /\ CountersOK(s) /\ PendingOwned(s)

MutexInv == \A s \in Sects : SectInv(s)

\* Every leave is made by the owner: by the client that entered, and by
\* PDMCritSectFF for each section it finds queued, once for each.
OwnerHolds ==
    \A t \in Threads, s \in Sects :
        Holds(t, s) \/ Queued(t, s) => owner[s] = t

\* A section is queued at most once on a virtual CPU: the eight entries of
\* apQueuedCritSectsLeaves bound the sections, not the leaves.  In ring-3 nobody
\* is left with a queued leave: the queue is worked off before an EMT runs other
\* code there.
QueuedOnce ==
    \A t \in Threads :
        /\ \A i, j \in 1..Len(queue[t]) : queue[t][i] = queue[t][j] => i = j
        /\ ctx[t] = "R3" /\ pc[t] \in {"idle", "wait", "spin"} => queue[t] = <<>>

\* cNestings of a section whose owner is in client code is what that client
\* entered and did not leave, plus one for a leave that is still queued.
NestingCount ==
    \A t \in Threads, s \in Sects :
        pc[t] = "idle" /\ owner[s] = t =>
            cNestings[s] = depth[t][s] + (IF Queued(t, s) THEN 1 ELSE 0)

\* What cLockers counts beside the waiters: one less than the nestings of the
\* owner, with the corrections of the steps between two counter updates.
OwnLockers(s) ==
    IF \E t \in Threads : Inside(t, s) /\ ~At(t, s, {"signal"})
      THEN LET t == CHOOSE u \in Threads : Inside(u, s)
           IN  IF At(t, s, {"first", "unlock", "rzFlag", "rzOwner", "rzCas", "rzRetake", "rzRenest"})
                 THEN 0
                 ELSE IF At(t, s, {"nest", "unnest"}) THEN cNestings[s]
                                                      ELSE cNestings[s] - 1
      ELSE -1

\* So the test that PDMCritSectHasWaiters and PDMR3CritSectYield make is exact
\* for an owner in client code.
LockerCount ==
    \A s \in Sects :
        /\ cLockers[s] = OwnLockers(s) + Cardinality(Waiters(s))
        /\ \A t \in Threads :
             pc[t] = "idle" /\ owner[s] = t => (HasWaiters(s) <=> Waiters(s) # {})

\* A semaphore is signalled, or about to be, only for a thread that waits, so
\* the section is never left to nobody.
NoLostWakeup ==
    \A s \in Sects :
        event[s] \/ (\E t \in Threads : At(t, s, {"signal"})) => Waiters(s) # {}

\* A scheduled exit event stays with an owner: no section is given up with
\* EventToSignal set, so the event cannot leak to the next owner.
ExitEventOwned == \A s \in Sects : exitEvent[s] => owner[s] # NIL

\* While somebody waits for a section nobody gets in but by its semaphore.
NoBarging ==
    [][\A t \in Threads : pc[t] # "first" /\ pc'[t] = "first"
            => pc[t] = "wait" \/ Waiters(sect'[t]) = {}]_vars

\* PDMCritSectIsOwner: in ring-3 the owner test alone, elsewhere with the
\* pending unlock taken into account.
IsOwner(t, s) ==
    /\ owner[s] = t
    /\ ctx[t] = "R3" \/ ~pending[s] \/ cNestings[s] > 1

\* @returns true if owner, false if not owner (PDMAllCritSect.cpp:664-665).
IsOwnerExact ==
    \A t \in Threads, s \in Sects :
        pc[t] = "idle" => (IsOwner(t, s) <=> Holds(t, s))

\* The sections implement the recursive lock their users are promised.
Lock == INSTANCE RecursiveLock
ImplementsLock == Lock!Spec

\* A queued leave is carried out: the section does not stay with an EMT that
\* has left it.
QueueDrains == \A t \in Threads : queue[t] # <<>> ~> queue[t] = <<>>

\* A section somebody waits for is handed to a waiter again and again.
HandedOver ==
    \A s \in Sects : Waiters(s) # {} ~>
        \E t \in Threads : At(t, s, {"first"})
=============================================================================
