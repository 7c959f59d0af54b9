------------------------------ MODULE TMTimer ------------------------------
(***************************************************************************)
(* TM's timers (VMM/VMMAll/TMAll.cpp, VMM/VMMR3/TM.cpp): one timer queue   *)
(* other than TMCLOCK_VIRTUAL_SYNC's.  Any thread arms and stops timers by *)
(* compare-and-exchange on their state and pushes them on a lock-free      *)
(* schedule list; whoever owns the TM lock takes that list and brings the  *)
(* ordered list of active timers up to date.  The timer EMT runs the       *)
(* timers that have expired.                                               *)
(*                                                                         *)
(* Both linked lists are sequences, head first.  That is exact as long as  *)
(* LinkedOnce and ActiveExact hold; the one step that breaks ActiveExact   *)
(* (an unlink of a timer that is not linked) is modelled as the pointers   *)
(* have it.                                                                *)
(***************************************************************************)
EXTENDS Integers, Sequences, FiniteSets

CONSTANTS
    Timers,     \* the timers of the queue
    Threads,    \* every thread that uses them
    EMTs,       \* those that are emulation threads
    TimerCpu,   \* the EMT that runs the queues: aCpus[idTimerCpu]
    Crit,       \* timers with pCritSect, all that of one device
    Stops,      \* timers whose owner calls TMTimerStop
    Mortal,     \* timers whose owner calls TMR3TimerDestroy
    NULL,       \* no timer, no thread
    MaxTime,    \* bound: the clock and the expire times
    MaxCalls    \* bound: how many API calls are made

ASSUME ThreadsAssumption ==
    EMTs \subseteq Threads /\ TimerCpu \in EMTs /\ NULL \notin Threads
ASSUME TimersAssumption ==
    NULL \notin Timers /\ Crit \subseteq Timers /\ Stops \subseteq Timers
                       /\ Mortal \subseteq Timers
ASSUME BoundsAssumption == MaxTime \in Nat /\ MaxCalls \in Nat

VARIABLES
    state,      \* TMTIMER.enmState
    expire,     \* TMTIMER.u64Expire
    sched,      \* the queue's schedule list (offSchedule, offScheduleNext)
    active,     \* the queue's active list (offActive, offNext, offPrev)
    qexpire,    \* TMTIMERQUEUE.u64Expire
    ff,         \* VMCPU_FF_TIMER of the timer EMT
    running,    \* TM.fRunningQueues
    lock,       \* the thread that owns the TM lock, or NULL
    crit,       \* the thread that owns the device's critical section, or NULL
    now,        \* the clock
    call,       \* each thread's API call
    walk,       \* the lock owner's tmTimerQueueSchedule
    run,        \* the timer EMT's TMR3TimerQueuesDo
    calls       \* how many API calls have been made

queue == <<sched, active, qexpire>>
vars  == <<state, expire, sched, active, qexpire, ff, running, lock, crit, now,
           call, walk, run, calls>>

Never == MaxTime + 1    \* INT64_MAX
Times == 0 .. MaxTime

Pending == {"PENDING_STOP", "PENDING_STOP_SCHEDULE", "PENDING_SCHEDULE",
            "PENDING_SCHEDULE_SET_EXPIRE", "PENDING_RESCHEDULE",
            "PENDING_RESCHEDULE_SET_EXPIRE"}

Setting == {"PENDING_SCHEDULE_SET_EXPIRE", "PENDING_RESCHEDULE_SET_EXPIRE"}

\* The states whose timers are on the active list.
Listed == {"ACTIVE", "PENDING_STOP", "PENDING_RESCHEDULE",
           "PENDING_RESCHEDULE_SET_EXPIRE"}

States == Pending \cup {"STOPPED", "ACTIVE", "EXPIRED_GET_UNLINK",
                        "EXPIRED_DELIVER", "DESTROY", "FREE"}

CallPcs == {"idle", "try", "start", "insert", "cas", "read", "stop",
            "stop2", "link", "expire", "publish", "schedule", "walk",
            "destroy", "free"}
WalkPcs == {"none", "pop", "read", "unlink", "settle", "insert", "postpone"}
RunPcs  == {"idle", "lock", "schedule", "head", "loop", "crit", "fire",
            "unlink", "callback"}

Idle    == [pc |-> "idle", op |-> "none", t |-> NULL, e |-> 0, old |-> "FREE"]
NoWalk  == [pc |-> "none", todo |-> <<>>, t |-> NULL, old |-> "FREE", tries |-> 0]
NoRun   == [pc |-> "idle", t |-> NULL, next |-> NULL, now |-> 0]

Init ==
    /\ state = [t \in Timers |-> "STOPPED"]
    /\ expire = [t \in Timers |-> 0]
    /\ sched = <<>> /\ active = <<>> /\ qexpire = Never
    /\ ff = FALSE /\ running = FALSE
    /\ lock = NULL /\ crit = NULL
    /\ now = 0
    /\ call = [th \in Threads |-> Idle]
    /\ walk = NoWalk /\ run = NoRun
    /\ calls = 0

(***************************************************************************)
(* Locks, lists and states.                                                *)
(***************************************************************************)
RunOwnsLock == run.pc \notin {"idle", "lock"}
RunOwnsCrit == run.pc \in {"fire", "unlink", "callback"} /\ run.t \in Crit

\* TM_TRY_LOCK_TIMERS: the section is recursive.
MayLock(th) == lock \in {NULL, th}

\* The owner of the lock or section after th's call gives it up: a call made
\* by a callback only nests in what the queue run holds.
LockAfter(th) == IF th = TimerCpu /\ RunOwnsLock THEN th ELSE NULL
CritAfter(th, t) ==
    IF t \in Crit /\ ~(th = TimerCpu /\ RunOwnsCrit) THEN NULL ELSE crit

Cas(t, old, new) == state[t] = old /\ state' = [state EXCEPT ![t] = new]

Goto(th, label) == call' = [call EXCEPT ![th].pc = label]

\* The call returns: the client leaves the device's critical section.
Return(th) ==
    /\ call' = [call EXCEPT ![th] = Idle]
    /\ crit' = CritAfter(th, call[th].t)

\* tmTimerQueueLinkActive: before the first timer that expires later.
Ahead(e) == {i \in 1 .. Len(active) : \A j \in 1 .. i : expire[active[j]] <= e}

LinkActive(t, e) ==
    LET n == Cardinality(Ahead(e))
    IN  /\ active' = SubSeq(active, 1, n) \o <<t>> \o SubSeq(active, n + 1, Len(active))
        /\ qexpire' = IF n = 0 THEN e ELSE qexpire

Linked(t) == \E i \in 1 .. Len(active) : active[i] = t
Place(t)  == CHOOSE i \in 1 .. Len(active) : active[i] = t

\* tmTimerQueueUnlinkActive.  A timer that is not linked has no predecessor
\* and no successor, so unlinking it makes the list empty.
Without(t) ==
    IF Linked(t) THEN SubSeq(active, 1, Place(t) - 1) \o SubSeq(active, Place(t) + 1, Len(active))
                 ELSE <<>>
IsHead(t) == Linked(t) => Place(t) = 1

\* Mutant: the queue's cached expire time is left alone.
UnlinkKeepsExpire(t) == active' = Without(t) /\ UNCHANGED qexpire

UnlinkActive(t) ==
    /\ active' = Without(t)
    /\ qexpire' = IF ~IsHead(t) THEN qexpire
                  ELSE IF Without(t) = <<>> THEN Never ELSE expire[Head(Without(t))]

NextOf(t) ==
    IF Linked(t) /\ Place(t) < Len(active) THEN active[Place(t) + 1] ELSE NULL

\* tmTimerLinkSchedule.  The exchange that fails and is retried is no step.
LinkSchedule(t) == sched' = <<t>> \o sched


(***************************************************************************)
(* tmTimerQueueSchedule: take the whole schedule list and settle its       *)
(* timers one by one.  Each compare-and-exchange may lose to another       *)
(* thread; after the third loss the timer is dropped.                      *)
(***************************************************************************)
cRetries == 2

TakeSchedule ==
    /\ walk' = [NoWalk EXCEPT !.pc = "pop", !.todo = sched]
    /\ sched' = <<>>

WalkDone == walk.pc = "none" \/ (walk.pc = "pop" /\ walk.todo = <<>>)

Handler(s) ==
    CASE s \in {"PENDING_RESCHEDULE", "PENDING_STOP"} -> "unlink"
      [] s \in {"PENDING_SCHEDULE", "PENDING_STOP_SCHEDULE"} -> "settle"
      [] s \in Setting -> "postpone"
      [] OTHER -> "pop"

WalkOn(label) == walk' = [walk EXCEPT !.pc = label]

Retry == walk' = IF walk.tries > 0
                 THEN [walk EXCEPT !.pc = "read", !.tries = @ - 1]
                 ELSE [walk EXCEPT !.pc = "pop"]

WalkPop ==
    /\ walk.pc = "pop" /\ walk.todo # <<>>
    /\ LET t == Head(walk.todo)
       IN  walk' = [pc |-> Handler(state[t]), todo |-> Tail(walk.todo), t |-> t,
                    old |-> state[t], tries |-> cRetries]
    /\ UNCHANGED <<state, queue>>

WalkReread ==
    /\ walk.pc = "read"
    /\ walk' = [walk EXCEPT !.pc = Handler(state[walk.t]), !.old = state[walk.t]]
    /\ UNCHANGED <<state, queue>>

OffList(s) == IF s = "PENDING_RESCHEDULE" THEN "PENDING_SCHEDULE" ELSE "PENDING_STOP_SCHEDULE"

WalkUnlink ==
    /\ walk.pc = "unlink"
    /\ UNCHANGED sched
    /\ \/ /\ Cas(walk.t, walk.old, OffList(walk.old))
          /\ UnlinkActive(walk.t)
          /\ walk' = [walk EXCEPT !.pc = "settle", !.old = OffList(walk.old)]
       \/ /\ state[walk.t] # walk.old
          /\ Retry
          /\ UNCHANGED <<state, active, qexpire>>

WalkSettle ==
    /\ walk.pc = "settle"
    /\ UNCHANGED queue
    /\ \/ /\ walk.old = "PENDING_SCHEDULE"
          /\ Cas(walk.t, walk.old, "ACTIVE")
          /\ WalkOn("insert")
       \/ /\ walk.old = "PENDING_STOP_SCHEDULE"
          /\ Cas(walk.t, walk.old, "STOPPED")
          /\ WalkOn("pop")
       \/ /\ state[walk.t] # walk.old
          /\ Retry
          /\ UNCHANGED state

WalkInsert ==
    /\ walk.pc = "insert"
    /\ LinkActive(walk.t, expire[walk.t])
    /\ WalkOn("pop")
    /\ UNCHANGED <<state, sched>>

\* Mutant: the timer being set is not put back.
WalkDrops ==
    /\ walk.pc = "postpone"
    /\ WalkOn("pop")
    /\ UNCHANGED <<state, queue>>

\* The timer's setter is not done with it: look at it again another time.
WalkPostpone ==
    /\ walk.pc = "postpone"
    /\ LinkSchedule(walk.t)
    /\ WalkOn("pop")
    /\ UNCHANGED <<state, active, qexpire>>

Walk ==
    /\ WalkPop \/ WalkReread \/ WalkUnlink \/ WalkSettle \/ WalkInsert \/ WalkPostpone
    /\ UNCHANGED <<expire, ff, running, lock, crit, now, call, run, calls>>

(***************************************************************************)
(* The API.  A client calls from its thread, or, on the timer EMT, from a  *)
(* timer's callback.  It owns the critical section of the timer's device   *)
(* (TMTIMER_ASSERT_CRITSECT) and leaves destroyed timers alone.            *)
(***************************************************************************)
Begin(th, t) ==
    /\ call[th].pc = "idle"
    /\ th = TimerCpu => run.pc \in {"idle", "callback"}
    /\ state[t] \notin {"DESTROY", "FREE"}
    /\ \A u \in Threads : call[u].op = "destroy" => call[u].t # t
    /\ t \in Crit => crit \in {NULL, th}
    /\ crit' = IF t \in Crit THEN th ELSE crit
    /\ calls < MaxCalls /\ calls' = calls + 1
    /\ UNCHANGED <<state, expire, queue, ff, running, lock, now, walk, run>>

\* May a timer in this state be made active directly, without the list?
Optimised(t) == state[t] = "EXPIRED_DELIVER" \/ (state[t] = "STOPPED" /\ t \in Crit)

TMTimerSet(th, t, e) ==
    /\ Begin(th, t)
    /\ call' = [call EXCEPT ![th] =
                  [pc |-> IF Optimised(t) THEN "try" ELSE "cas",
                   op |-> "set", t |-> t, e |-> e, old |-> state[t]]]

TryStart(th) ==
    LET t == call[th].t
    IN  /\ call[th].pc = "try"
        /\ \/ /\ MayLock(th)
              /\ Cas(t, call[th].old, "ACTIVE")
              /\ lock' = th
              /\ Goto(th, "start")
           \/ /\ ~MayLock(th) \/ state[t] # call[th].old
              /\ Goto(th, "cas")
              /\ UNCHANGED <<state, lock>>
        /\ UNCHANGED <<expire, queue, ff, crit, walk>>

\* tmTimerSetOptimizedStart
StartExpire(th) ==
    /\ call[th].pc = "start"
    /\ expire' = [expire EXCEPT ![call[th].t] = call[th].e]
    /\ Goto(th, "insert")
    /\ UNCHANGED <<state, queue, ff, lock, crit, walk>>

StartLink(th) ==
    /\ call[th].pc = "insert"
    /\ LinkActive(call[th].t, call[th].e)
    /\ lock' = LockAfter(th)
    /\ Return(th)
    /\ UNCHANGED <<state, expire, sched, ff, walk>>

SetTarget(s) ==
    IF s \in Listed THEN "PENDING_RESCHEDULE_SET_EXPIRE" ELSE "PENDING_SCHEDULE_SET_EXPIRE"

\* Mutant: a timer that is being stopped is pushed again.
UnscheduledOrStopped == {"EXPIRED_DELIVER", "STOPPED", "ACTIVE", "PENDING_STOP"}

\* Where a change of state must be followed by a push on the schedule list.
Unscheduled == {"EXPIRED_DELIVER", "STOPPED", "ACTIVE"}

\* Spins while the timer is EXPIRED_GET_UNLINK or being set.
SetCas(th) ==
    LET t == call[th].t  s == state[t]
    IN  /\ call[th].pc = "cas"
        /\ s \in Unscheduled \cup (Pending \ Setting)
        /\ state' = [state EXCEPT ![t] = SetTarget(s)]
        /\ call' = [call EXCEPT ![th].pc = IF s \in Unscheduled THEN "link" ELSE "expire",
                                ![th].old = SetTarget(s)]
        /\ UNCHANGED <<expire, queue, ff, lock, crit, walk>>

\* The second half of tmTimerTryWithLink.
Link(th) ==
    /\ call[th].pc = "link"
    /\ LinkSchedule(call[th].t)
    /\ Goto(th, IF call[th].op = "set" THEN "expire" ELSE "schedule")
    /\ UNCHANGED <<state, expire, active, qexpire, ff, lock, crit, walk>>

\* Mutant: the time is taken to be relative to the clock.
SetExpireRelative(th) ==
    /\ call[th].pc = "expire"
    /\ expire' = [expire EXCEPT ![call[th].t] = now + call[th].e]
    /\ Goto(th, "publish")
    /\ UNCHANGED <<state, queue, ff, lock, crit, walk>>

SetExpire(th) ==
    /\ call[th].pc = "expire"
    /\ expire' = [expire EXCEPT ![call[th].t] = call[th].e]
    /\ Goto(th, "publish")
    /\ UNCHANGED <<state, queue, ff, lock, crit, walk>>

\* Mutant: the state is not set once the expire time is.
NotPublished(s) == s

Published(s) ==
    IF s = "PENDING_SCHEDULE_SET_EXPIRE" THEN "PENDING_SCHEDULE" ELSE "PENDING_RESCHEDULE"

Publish(th) ==
    /\ call[th].pc = "publish"
    /\ state' = [state EXCEPT ![call[th].t] = Published(call[th].old)]
    /\ Goto(th, "schedule")
    /\ UNCHANGED <<expire, queue, ff, lock, crit, walk>>

TMTimerStop(th, t) ==
    /\ Begin(th, t)
    /\ call' = [call EXCEPT ![th] = [Idle EXCEPT !.pc = "read", !.op = "stop", !.t = t]]

\* Spins like SetCas.
StopRead(th) ==
    LET t == call[th].t
    IN  /\ call[th].pc = "read"
        /\ \/ /\ state[t] \in {"EXPIRED_DELIVER", "STOPPED", "PENDING_STOP",
                               "PENDING_STOP_SCHEDULE"}
              /\ Return(th)
           \/ /\ state[t] \in {"PENDING_SCHEDULE", "PENDING_RESCHEDULE", "ACTIVE"}
              /\ call' = [call EXCEPT ![th].pc = "stop", ![th].old = state[t]]
              /\ UNCHANGED crit
        /\ UNCHANGED <<state, expire, queue, ff, lock, walk>>

StopTarget(s) == IF s = "PENDING_SCHEDULE" THEN "PENDING_STOP_SCHEDULE" ELSE "PENDING_STOP"

\* The case of PENDING_SCHEDULE falls through into that of PENDING_RESCHEDULE
\* when it loses the race, with the state it read before.
StopCas(th) ==
    LET t == call[th].t  old == call[th].old
    IN  /\ call[th].pc = "stop"
        /\ \/ /\ Cas(t, old, StopTarget(old))
              /\ Goto(th, IF old = "ACTIVE" THEN "link" ELSE "schedule")
           \/ /\ state[t] # old
              /\ Goto(th, IF old = "PENDING_SCHEDULE" THEN "stop2" ELSE "read")
              /\ UNCHANGED state
        /\ UNCHANGED <<expire, queue, ff, lock, crit, walk>>

StopFallThru(th) ==
    LET t == call[th].t  old == call[th].old
    IN  /\ call[th].pc = "stop2"
        /\ \/ Cas(t, old, "PENDING_STOP") /\ Goto(th, "schedule")
           \/ state[t] # old /\ Goto(th, "read") /\ UNCHANGED state
        /\ UNCHANGED <<expire, queue, ff, lock, crit, walk>>

\* tmSchedule: do it at once, or have the timer EMT do it.
Notifies(t) == state[t] \in Setting \cup {"PENDING_SCHEDULE", "PENDING_RESCHEDULE"}

Schedule(th) ==
    /\ call[th].pc = "schedule"
    /\ \/ /\ th \in EMTs /\ MayLock(th)
          /\ lock' = th
          /\ TakeSchedule
          /\ Goto(th, "walk")
          /\ UNCHANGED <<ff, crit>>
       \/ /\ ~(th \in EMTs /\ MayLock(th))
          /\ ff' = (ff \/ Notifies(call[th].t))
          /\ Return(th)
          /\ UNCHANGED <<sched, lock, walk>>
    /\ UNCHANGED <<state, expire, active, qexpire>>

Scheduled(th) ==
    /\ call[th].pc = "walk" /\ WalkDone
    /\ walk' = NoWalk
    /\ lock' = LockAfter(th)
    /\ Return(th)
    /\ UNCHANGED <<state, expire, queue, ff>>

\* The caller makes sure that nobody else uses the timer any more.
TMR3TimerDestroy(th, t) ==
    /\ Begin(th, t)
    /\ \A u \in Threads : call[u].t # t
    /\ call' = [call EXCEPT ![th] = [Idle EXCEPT !.pc = "destroy", !.op = "destroy", !.t = t]]

\* Mutant: a timer being rescheduled is not unlinked.
fActiveOnly(s) == s \in {"ACTIVE", "PENDING_STOP", "PENDING_STOP_SCHEDULE"}

fActive(s)  == s \in {"ACTIVE", "PENDING_STOP", "PENDING_STOP_SCHEDULE", "PENDING_RESCHEDULE"}
fPending(s) == s \in Pending \ Setting

Destroy(th) ==
    LET t == call[th].t  s == state[t]
    IN  /\ call[th].pc = "destroy"
        /\ MayLock(th)
        /\ lock' = th
        /\ state' = [state EXCEPT ![t] = "DESTROY"]
        /\ IF fActive(s) THEN UnlinkActive(t) ELSE UNCHANGED <<active, qexpire>>
        /\ IF fPending(s) THEN TakeSchedule ELSE UNCHANGED <<sched, walk>>
        /\ Goto(th, "free")
        /\ UNCHANGED <<expire, ff, crit>>

Free(th) ==
    /\ call[th].pc = "free" /\ WalkDone
    /\ state' = [state EXCEPT ![call[th].t] = "FREE"]
    /\ walk' = NoWalk
    /\ lock' = LockAfter(th)
    /\ Return(th)
    /\ UNCHANGED <<expire, queue, ff>>

Client(th) ==
    \/ \E t \in Timers, e \in Times : TMTimerSet(th, t, e)
    \/ \E t \in Stops : TMTimerStop(th, t)
    \/ th \in EMTs /\ \E t \in Mortal : TMR3TimerDestroy(th, t)

CallStep(th) ==
    /\ \/ TryStart(th) \/ StartExpire(th) \/ StartLink(th)
       \/ SetCas(th) \/ Link(th) \/ SetExpire(th) \/ Publish(th)
       \/ StopRead(th) \/ StopCas(th) \/ StopFallThru(th)
       \/ Schedule(th) \/ Scheduled(th) \/ Destroy(th) \/ Free(th)
    /\ UNCHANGED <<running, now, run, calls>>

(***************************************************************************)
(* TMR3TimerQueuesDo: the timer EMT settles the schedule list, then runs   *)
(* the timers that have expired, all under the TM lock.  EM calls it when  *)
(* VMCPU_FF_TIMER is set, the halt loops call it whenever they wake up.    *)
(***************************************************************************)
RunOn(label) == run' = [run EXCEPT !.pc = label]

RunQueues ==
    /\ run.pc = "idle" /\ call[TimerCpu].pc = "idle"
    /\ running' = TRUE
    /\ RunOn("lock")
    /\ UNCHANGED <<state, queue, ff, lock, crit, walk>>

RunLock ==
    /\ run.pc = "lock" /\ lock = NULL
    /\ lock' = TimerCpu
    /\ ff' = FALSE
    /\ RunOn("schedule")
    /\ UNCHANGED <<state, queue, running, crit, walk>>

RunSchedule ==
    /\ run.pc = "schedule"
    /\ IF sched # <<>> THEN TakeSchedule ELSE UNCHANGED <<sched, walk>>
    /\ RunOn("head")
    /\ UNCHANGED <<state, active, qexpire, ff, running, lock, crit>>

\* The clock is read once.
RunHead ==
    /\ run.pc = "head" /\ WalkDone
    /\ walk' = NoWalk
    /\ run' = [NoRun EXCEPT !.pc = "loop", !.now = now,
                            !.next = IF active = <<>> THEN NULL ELSE Head(active)]
    /\ UNCHANGED <<state, queue, ff, running, lock, crit>>

Expired(t) == t # NULL /\ expire[t] <= run.now

\* The timer after this one is looked up before anything is done about it.
RunNext ==
    /\ run.pc = "loop" /\ Expired(run.next)
    /\ run' = [run EXCEPT !.pc = "crit", !.t = run.next, !.next = NextOf(run.next)]
    /\ UNCHANGED <<state, queue, ff, running, lock, crit, walk>>

\* Mutant: the force flag is cleared at the end.
RunDoneClears ==
    /\ run.pc = "loop" /\ ~Expired(run.next)
    /\ run' = NoRun
    /\ running' = FALSE
    /\ lock' = NULL
    /\ ff' = FALSE
    /\ UNCHANGED <<state, queue, crit, walk>>

RunDone ==
    /\ run.pc = "loop" /\ ~Expired(run.next)
    /\ run' = NoRun
    /\ running' = FALSE
    /\ lock' = NULL
    /\ UNCHANGED <<state, queue, ff, crit, walk>>

RunCrit ==
    /\ run.pc = "crit"
    /\ run.t \in Crit => crit = NULL
    /\ crit' = IF run.t \in Crit THEN TimerCpu ELSE crit
    /\ RunOn("fire")
    /\ UNCHANGED <<state, queue, ff, running, lock, walk>>

RunLeave == /\ crit' = IF run.t \in Crit THEN NULL ELSE crit
            /\ RunOn("loop")

\* Mutant: the state is set, not exchanged for ACTIVE.
RunFireAnyway ==
    /\ run.pc = "fire"
    /\ state' = [state EXCEPT ![run.t] = "EXPIRED_GET_UNLINK"]
    /\ RunOn("unlink")
    /\ UNCHANGED <<crit, queue, ff, running, lock, walk>>

RunFire ==
    /\ run.pc = "fire"
    /\ \/ /\ Cas(run.t, "ACTIVE", "EXPIRED_GET_UNLINK")
          /\ RunOn("unlink")
          /\ UNCHANGED crit
       \/ /\ state[run.t] # "ACTIVE"
          /\ RunLeave
          /\ UNCHANGED state
    /\ UNCHANGED <<queue, ff, running, lock, walk>>

RunUnlink ==
    /\ run.pc = "unlink"
    /\ UnlinkActive(run.t)
    /\ state' = [state EXCEPT ![run.t] = "EXPIRED_DELIVER"]
    /\ RunOn("callback")
    /\ UNCHANGED <<sched, ff, running, lock, crit, walk>>

\* Mutant: the state is set, not exchanged for EXPIRED_DELIVER.
DeliveredStopped(s) == "STOPPED"

\* The callback returns; unless it, or another thread, armed the timer anew
\* or it was destroyed, the timer stops.
Delivered(s) == IF s = "EXPIRED_DELIVER" THEN "STOPPED" ELSE s

RunReturn ==
    /\ run.pc = "callback" /\ call[TimerCpu].pc = "idle"
    /\ state' = [state EXCEPT ![run.t] = Delivered(@)]
    /\ RunLeave
    /\ UNCHANGED <<queue, ff, running, lock, walk>>

RunStep ==
    /\ RunLock \/ RunSchedule \/ RunHead \/ RunNext \/ RunDone \/ RunCrit
       \/ RunFire \/ RunUnlink \/ RunReturn
    /\ UNCHANGED <<expire, now, call, calls>>

(***************************************************************************)
(* The clock, and the host timer that polls the queue a hundred times a    *)
(* second (tmR3TimerCallback).                                             *)
(***************************************************************************)
Tick ==
    /\ now < MaxTime /\ now' = now + 1
    /\ UNCHANGED <<state, expire, queue, ff, running, lock, crit, call, walk, run, calls>>

Poll ==
    /\ ~ff /\ ~running
    /\ sched # <<>> \/ qexpire <= now
    /\ ff' = TRUE
    /\ UNCHANGED <<state, expire, queue, running, lock, crit, now, call, walk, run, calls>>

StartRun == RunQueues /\ UNCHANGED <<expire, now, call, calls>>

Next ==
    \/ Tick \/ Poll \/ Walk \/ StartRun \/ RunStep
    \/ \E th \in Threads : Client(th) \/ CallStep(th)

Spec == Init /\ [][Next]_vars

FairSpec ==
    /\ Spec
    /\ WF_vars(Tick) /\ WF_vars(Poll) /\ WF_vars(Walk)
    /\ WF_vars(ff /\ StartRun) /\ WF_vars(RunStep)
    /\ \A th \in Threads : WF_vars(CallStep(th))

-----------------------------------------------------------------------------
(***************************************************************************)
(* Correctness.                                                            *)
(***************************************************************************)
ApiCalls == [pc : CallPcs, op : {"none", "set", "stop", "destroy"},
             t : Timers \cup {NULL}, e : Times, old : States]
Walks == [pc : WalkPcs, todo : Seq(Timers), t : Timers \cup {NULL},
          old : States, tries : 0 .. cRetries]
Runs  == [pc : RunPcs, t : Timers \cup {NULL}, next : Timers \cup {NULL}, now : Times]

\* Every variable has its type.
TypeOK ==
    /\ state \in [Timers -> States]
    /\ expire \in [Timers -> Times]
    /\ sched \in Seq(Timers) /\ active \in Seq(Timers)
    /\ qexpire \in Times \cup {Never}
    /\ ff \in BOOLEAN /\ running \in BOOLEAN
    /\ lock \in Threads \cup {NULL} /\ crit \in Threads \cup {NULL}
    /\ now \in Times
    /\ call \in [Threads -> ApiCalls]
    /\ walk \in Walks
    /\ run \in Runs
    /\ calls \in 0 .. MaxCalls

\* Where the schedule list's link of a timer, offScheduleNext, may be in use:
\* on the list, on the part taken off it, by the scheduler that settles the
\* timer, or by threads that are about to push it.
Pushed(t)   == \E i \in DOMAIN sched : sched[i] = t
Taken(t)    == \E i \in DOMAIN walk.todo : walk.todo[i] = t
Settling(t) == walk.t = t /\ walk.pc \in {"read", "unlink", "settle", "postpone"}
Links(th, t) == call[th].pc = "link" /\ call[th].t = t
Linking(t)  == \E th \in Threads : Links(th, t)

Distinct(s) == \A i, j \in DOMAIN s : s[i] = s[j] => i = j

InOnePlace(t) ==
    /\ Pushed(t) => ~Taken(t)
    /\ Settling(t) => ~Pushed(t) /\ ~Taken(t)
    /\ Linking(t) => ~Pushed(t) /\ ~Taken(t) /\ ~Settling(t)
    /\ \A th, u \in Threads : Links(th, t) /\ Links(u, t) => th = u

InNoPlace(t) == ~Pushed(t) /\ ~Taken(t) /\ ~Settling(t) /\ ~Linking(t)

\* A timer is linked into the schedule list only once, and only in a PENDING
\* state or while it is destroyed: its one offScheduleNext is never
\* overwritten while it is on the list (the assertion of tmTimerLinkSchedule),
\* and tmTimerQueueScheduleOne finds no state it asserts against.
LinkedOnce ==
    /\ Distinct(sched) /\ Distinct(walk.todo)
    /\ \A t \in Timers :
         InOnePlace(t) /\ (state[t] \in Pending \cup {"DESTROY"} \/ InNoPlace(t))

\* No timer in a PENDING state has fallen off the schedule list, where nothing
\* would ever settle it: the states' definitions say "Currently in the
\* ScheduleTimers list".
PendingScheduled == \A t \in Timers : state[t] \in Pending => ~InNoPlace(t)

\* Threads that have made a timer active and not linked it yet.
Inserting(t) ==
    \/ walk.pc = "insert" /\ walk.t = t
    \/ \E th \in Threads : call[th].pc \in {"start", "insert"} /\ call[th].t = t

Occurs(t, s) == Cardinality({i \in DOMAIN s : s[i] = t})

\* The active list holds each timer whose state says so, once, and no other;
\* but for the moments in which the owner of the TM lock is about to link or
\* unlink the timer.
ActiveExact ==
    \A t \in Timers :
        Occurs(t, active) =
            (IF \/ state[t] \in Listed /\ ~Inserting(t)
                \/ run.pc = "unlink" /\ run.t = t
             THEN 1 ELSE 0)

\* When the TM lock is free, the queue's cached expire time, all that the
\* polls look at, is that of the first active timer, unless it is being set
\* anew (and will be scheduled).
ExpireCached ==
    lock = NULL =>
        IF active = <<>> THEN qexpire = Never
        ELSE state[Head(active)] = "ACTIVE" => qexpire = expire[Head(active)]

\* Somebody is about to call or leave tmSchedule for t, or walks over it.
Telling(t) == \E th \in Threads : call[th].t = t
                /\ call[th].pc \in {"link", "expire", "publish", "schedule"}
Unsettled(t) == Taken(t) \/ Settling(t)

\* A timer that waits to be scheduled is not forgotten: the thread that set it
\* is still about to tell, or VMCPU_FF_TIMER is set, or the owner of the TM
\* lock will still take the schedule list.
NotForgotten ==
    \A t \in Timers :
        state[t] \in {"PENDING_SCHEDULE", "PENDING_RESCHEDULE"} =>
            Telling(t) \/ Unsettled(t) \/ ff \/ run.pc = "schedule"

Quiet == lock = NULL /\ sched = <<>> /\ \A th \in Threads : call[th].pc = "idle"

\* The code's description of TMTIMERQUEUE: "When no scheduling is pending, this
\* list is will be ordered by expire time (ascending)."
OrderedWhenQuiet ==
    Quiet => \A i, j \in DOMAIN active : i < j => expire[active[i]] <= expire[active[j]]

\* tmTimerQueuesSanityChecks: a timer that is ACTIVE is on the active list.
ActiveListed ==
    lock = NULL => \A t \in Timers : state[t] = "ACTIVE" => Linked(t)

\* A timer is armed from the moment its new state and expire time are both in
\* place until it goes off or another call begins to change it.
Starting(t) == \E th \in Threads : call[th].pc = "start" /\ call[th].t = t
Armed(t) == /\ state[t] \in {"ACTIVE", "PENDING_SCHEDULE", "PENDING_RESCHEDULE"}
            /\ ~Starting(t)
AlarmOf(t) == IF Armed(t) THEN expire[t]
              ELSE IF state[t] \in {"EXPIRED_GET_UNLINK", "EXPIRED_DELIVER"} THEN -1
              ELSE -2

Alarms == [t \in Timers |-> AlarmOf(t)]

\* The timers implement the abstract alarm: one goes off only while armed, not
\* before the time it was armed for, and once.
A == INSTANCE Alarm WITH Off <- -2, Ringing <- -1, alarm <- Alarms
ImplementsAlarm == A!Spec

\* Nothing but its own expiry and calls about it disarm a timer: the queue run
\* that delivered it last does not undo what the callback, or another thread,
\* has armed it for since.
DisarmedByOwner ==
    [][\A t \in Timers :
         Armed(t) /\ ~Armed(t)' =>
            state'[t] = "EXPIRED_GET_UNLINK" \/ \E th \in Threads : call[th].t = t]_vars

\* A timer that is armed, whoever armed it, goes off or is disarmed.
GoesOff == \A t \in Timers : Armed(t) ~> ~Armed(t)

\* Every call returns.
CallsReturn == \A th \in Threads : call[th].pc # "idle" ~> call[th].pc = "idle"
=============================================================================
