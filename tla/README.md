# Verification of VirtualBox 4.1.0's VMM synchronization

TLA+ specifications of the lock-free and lock-based core of VirtualBox 4.1.0's
virtual machine monitor, checked with TLC and, where it pays, proved with
TLAPS. Paths are relative to `src/VirtualBox_4.1.0/src/VBox` unless they begin
with `src/`.

The repository is a complete hypervisor, some five million lines. What carries
it, and what tests hardly reach, is the machinery that lets emulation threads
(EMTs, one per virtual CPU), I/O threads, timer threads and ring-0 or raw-mode
code work on one VM: critical sections that can be entered where nobody may
block, timers set by compare-and-exchange, lock-free queues, requests posted to
EMTs, rendezvous of all EMTs. This project is about that machinery. Instruction
emulation, paging, device models and the API server are listed below and left
alone.

## 1. Inventory

For each component: its state, its operations, with whom it interacts, what is
hard about it, and what makes it correct. `PROJECT.json` lists the same
components with their status; "partly" where operations are left out, which each
module's section names.

### PDM critical sections (`VMM/VMMAll/PDMAllCritSect.cpp`, `VMM/VMMR3/PDMCritSect.cpp`) - partly modelled

* State: per section `cLockers`, `cNestings`, the owner, the flag
  `PENDING_UNLOCK`, an auto-reset event, `EventToSignal`; per virtual CPU a
  queue of at most eight sections to leave later.
* Operations: enter, try-enter, leave (in ring-3; in ring-0 with interrupts on;
  in raw mode or ring-0 with interrupts off), `PDMCritSectFF`, yield, schedule
  an exit event, is-owner, has-waiters.
* Interacts with: every device and the TM lock; EM, which runs `PDMCritSectFF`
  on `VMCPU_FF_PDM_CRITSECT`; `VMMRZCallRing3`.
* Hard: a leaver gives the section up in four stores; a context that cannot
  signal undoes its leave when a waiter raced in and queues it; a queued leave
  may be nested into again, or replayed in the middle of an enter.
* Correct: mutual exclusion, no lost wakeup, no overtaking of waiters, each
  leave carried out exactly once, the owner query exact.

### TM timers (`VMM/VMMAll/TMAll.cpp`, `VMM/VMMR3/TM.cpp`) - partly modelled

* State: per clock a list of active timers ordered by expire time, its cached
  first expire time, a lock-free list of timers to schedule; per timer a state
  and an expire time; the TM lock; `VMCPU_FF_TIMER`; `fRunningQueues`.
* Operations: set (and its optimised start), stop, destroy, schedule, run
  expired timers with callbacks, the host timer that polls.
* Interacts with: devices' critical sections, EM and the halt loops.
* Hard: every change of state is an exchange that may lose to another thread;
  the scheduler unlinks, exchanges and links in separate steps; callbacks set,
  stop and destroy timers in the middle of a run.
* Correct: a timer is on the lists its state says, no timer set is forgotten, it
  goes off once, not early and not unless armed.

### TM clocks (`VMM/VMMAll/TMAllVirtual.cpp`, `TMAllCpu.cpp`) - not modelled

The raw virtual clock (a value exchanged by all readers that must not go back),
virtual sync with its offset, catch-up rate and lock-free reads, the TSC.
Correct: time is monotonic for each virtual CPU, the virtual sync clock does not
pass an expired timer. The arithmetic on host counters is left out.

### VM requests and EMT halt (`VMM/VMMR3/VMReq.cpp`, `VMM/VMMR3/VMEmt.cpp`, `VMM/VMMR0/GVMMR0.cpp`) - partly modelled

* State: lists of requests per VM and per virtual CPU, nine free lists,
  `VM_FF_REQUEST` and `VMCPU_FF_REQUEST`; a request's state, status, event and
  `fEventSemClear`; per virtual CPU `fWait` and the halt event.
* Operations: allocate, queue, notify, wait, poll, free; process one list, put
  back what is too many; halt, wake up.
* Interacts with: every thread that wants something done on an EMT, EM's loops.
* Hard: packets are recycled while their event is still to be signalled; a wait
  of no time; what is put back against what is pushed; a flag set while an EMT
  goes to sleep.
* Correct: each request is executed once, by an EMT it is for, in order, and its
  waiter gets its own status; an EMT with work does not sleep on.

### EMT rendezvous (`VMM/VMMR3/VMM.cpp`) - partly modelled

* State: a spinlock word, a force flag, three counters, events for entering at
  once, one by one or in order, events for done, the merged status.
* Operations: call it (five types, stop on error), take part in it.
* Interacts with: EM's loops, which answer the force flag.
* Hard: back-to-back rendezvous share all semaphores; a contender for the lock
  has to take part in another's.
* Correct: the EMTs gather, run the callback as asked for, nobody leaves early
  or meets the next one's slate, all learn the outcome of theirs, all return.

### PDM queues (`VMM/VMMR3/PDMQueue.cpp`, `VMM/VMMAll/PDMAllQueue.cpp`) - partly modelled

* State: a ring of free items, three pending lists (ring-3, ring-0, raw mode),
  the bits ACTIVE and PENDING and `VM_FF_PDM_QUEUES`.
* Operations: allocate, insert, flush all, flush one by its timer.
* Interacts with: devices and drivers in all contexts, EM's loops, TM.
* Hard: lists are taken one after the other while others push; a consumer that
  has had enough gives items back; the flag, the two bits and two EMTs.
* Correct: an item inserted is consumed once, in its producer's order, and not
  left behind.

### PDM threads (`VMM/VMMR3/PDMThread.cpp`) - not modelled

States exchanged between the thread and those that suspend, resume and destroy
it; a block event and a sleep event.

### VM life cycle (`VMM/VMMR3/VM.cpp`) - not modelled

`VMSTATE` and its allowed transitions by power off, reset, suspend, save (live),
teleportation and fatal errors.

### IPRT locks (`Runtime/generic/semxroads-generic.cpp`, `semrw-generic.cpp`, `Runtime/common/misc/once.cpp`) - crossroads modelled

Crossroads: one 64-bit word with two counts, two waiting counts and a direction,
two events that are reset late. Correct: the directions exclude each other, no
event is reset while somebody still has to wake up by it, everybody gets across.
The generic read-write semaphore, which only hosts without a pthread one use, and
once are not modelled.

### Interaction

Devices call PDM (queues, critical sections, threads, timers) from any context.
What cannot be done there sets a force flag of a VM or virtual CPU. EM's loops
(`VMM/VMMR3/EM.cpp`) look at the flags before guest code runs and when it comes
back; a halted EMT is woken by the notification. Requests and rendezvous bring
other threads' work to EMTs. The components above hence share the pattern "change
the data, set a flag; clear the flag, take the data", and most hazards are about
it.

### Not modelled, and why

| Part | Reason |
| --- | --- |
| EM loop | sequential per EMT; its one relevant step is `ToRing3` of PDMCritSect |
| PGM, IOM, HWACCM, REM, PATM, CSAM, IEM | paging, dispatch under one lock, processor and instruction semantics |
| SSM, CFGM, STAM, FTM, DBGF | stream formats, trees, statistics, network I/O; one thread at a time |
| asynchronous completion, block cache, GMM | candidates, see the plan |
| support driver | mostly the host kernel's API |
| HGCM and its services | HGCM's threads are a candidate; the services run on one thread each |
| disk images | formats; asynchronous I/O contexts are a candidate |
| devices | each is its data sheet |
| Main, front ends, guest additions, debugger, network services | other systems around the VMM |
| `src/libs`, kBuild | third-party code |

## 2. Modules, runs and what is left

| Component | Module | Abstract specification | Proofs |
| --- | --- | --- | --- |
| PDM critical sections | `PDMCritSect` | `RecursiveLock` | all safety properties, the refinement |
| TM timers | `TMTimer` | `Alarm` | all safety properties, the refinement |
| PDM queues | `PDMQueue` | `Mailbox` | all safety properties, the refinement |
| EMT rendezvous | `EMTRendezvous` | `Gathering` | all safety properties, the refinement |
| VM requests, EMT halt | `VMReq` | `RemoteCalls` | all safety properties, the refinement |
| crossroads | `XRoads` | | exclusion, assertions, wakeups |

There are twelve runs, eight that pass and four that show a finding.

Left for later, in this order: HGCM's threads and `PDMThread`, whose states are
exchanged between a thread and those who suspend and destroy it; the raw and
virtual sync clocks; the VM's states; `RTSemRW` and `RTOnce`. Section 9 says what the
proofs leave open.

## 3. PDMCritSect

| Module | |
| --- | --- |
| `PDMCritSect` | the sections, the clients, `PDMCritSectFF`; all properties |
| `RecursiveLock` | what the users are promised; implemented by `PDMCritSect` |
| `MCPDMCritSect` | instances for TLC |
| `PDMCritSect_proof` | types and mutual exclusion, proved |
| `PDMCritSectLock_proof` | nestings, waiters and the refinement, proved |

Every atomic access of the code is a step; `pc[t]` names the access thread `t` is
about to make. The variables are the fields of `PDMCRITSECTINT`, the virtual
CPU's queue of leaves, and each thread's locals. The one merge is the owner test
after a failed exchange in `pdmCritSectEnter`: only `t` itself makes the owner
equal to `t` or different from it, so the test cannot change in between.

`ctx[t]` is where a thread runs: `R3`; `R0`, ring-0 with interrupts on, where the
code signals and may block or give up depending on preemption (both are modelled,
`SpinOut` and `Busy`); `RZ`, raw mode or ring-0 with interrupts off, where it does
neither. A busy enter outside ring-3 returns `rcBusy` (`Busy`) or calls ring-3
(`RingCall`), where `PDMCritSectFF` runs before the enter and the call returns to
the old context.

Clients are assumed to balance enters and leaves, to enter blocking in one order
of sections (`<`; a try-enter is free), to nest up to `MaxNest`, and to hold
nothing when the EMT starts or stops running guest code. `depth` records what a
client has entered: it is a history variable, and the refinement to
`RecursiveLock` is the identity on it.

Left out: a leave by a thread that is not the owner (an assertion; `OwnerHolds`
shows that nobody gets there), sections that do nothing, the lock validator,
destruction and `PDMR3CritSectLeaveAll`, a second exit event while one is
scheduled. An interrupted wait loops without a change of state. The force flag
is set exactly while the queue is not empty, so the queue stands for it.

### Runs

| Run | Instance | Shows |
| --- | --- | --- |
| `critsect_one` | 1 section, 2 EMTs and an I/O thread, nesting 2 | `TypeOK`; `EnterFirstAlone`, the assertions of `pdmCritSectEnterFirst`; `LockerCount`, `cLockers` is nestings plus waiters up to the steps in between, and `PDMCritSectHasWaiters` right; `NoLostWakeup`; `OneInside`; `OwnerHolds`, `NestingCount`: queued leaves and replays by the owner, with `cNestings` right; `ExitEventOwned`; `NoBarging`; `ImplementsLock` |
| `critsect_two` | 2 sections, an EMT and an I/O thread, nesting 1, fairness | `QueuedOnce` (the queued leaves, none left in ring-3); `QueueDrains`, `HandedOver` |

Three threads are the least at which one owns, one waits and one barges in; two
sections the least at which a leave is queued while another section is entered
and the client's order matters. Nesting 2 in `critsect_one` is the least at which
a leave is nested; with nesting 1 in `critsect_two` the client can still nest
into a queued leave, and each of its leaves is its last of the section: with
more, fairness of single leaves would not make a client ever leave entirely,
and `HandedOver` asks just that of holders.
The two EMTs of `critsect_one` are interchangeable, and none of its properties is
liveness, so symmetry is sound there.

Fairness: the host schedules a thread that can run, weak fairness of `Step`.
Holders leave and EMTs return to ring-3, strong fairness of `Leave`, of the leave
that leaves nothing held, and of `ToRing3`, since a client may do other things in
between: that is what the clients promise, guest execution being ended by
interrupts and timers at the latest. Nothing is assumed about entering.

### Proofs

`PDMCritSect_proof` proves, for all threads, sections and nestings:

* `TypeCorrect`: `Spec => []TypeOK`;
* `MutexCorrect`: `Spec => []MutexInv`;
* `OneInsideCorrect` and `EnterFirstCorrect`: `OneInside` and `EnterFirstAlone`
  follow.

`OneInside` says that no two threads own, are being let into or are giving up one
section, and that a signalled event excludes them all. It is not inductive:
whether a waiter that wakes is alone depends on the counters. `SectInv` adds, per
section: `PcOwner` (which program counters imply ownership, which exclude it),
`FreeIsFree` (`cLockers` is at least -1, and at -1 nobody is inside and the event
is not signalled), `CountersOK` (how far `cLockers` and `cNestings` of an owner may
be apart at each step), `PendingOwned` (`PENDING_UNLOCK` only with an owner, and
not any more when the owner is about to be cleared). The proof has one step per
action; that an action on one section leaves the others alone is a lemma. The
assumptions are the module's own: EMTs are threads, `NIL` is none, sections are
numbers. TLC agrees with `MutexInv` on the instance of `critsect_one`; being
proved, it is not among that run's properties.

`PDMCritSectLock_proof` proves the rest of the safety properties, for all finite sets of
threads (`FiniteAssumption`; waiters are counted), all sections and nestings:

* `NestCorrect`, `Spec => []NestAll`, and from it `OwnerHoldsCorrect`,
  `QueuedOnceCorrect`, `NestingCountCorrect`, `ExitEventCorrect` and the refinement
  `LockImplemented`, `Spec => ImplementsLock`;
* `CountCorrect`, `Spec => []CountAll`, and from it `LockerCountCorrect`,
  `NoLostWakeupCorrect` and `NoBargingCorrect`, the action property.

None of these is inductive by itself. That the owner is a holder (`OwnerHolds`) needs
what its leave has done so far, so `NestAll` adds to `MutexInv`:

* `Control`, per thread: what a program counter says of the context, of the kind of call
  under way and of the client's `depth`, and where a queued leave may be carried out;
* `NestInv`, per thread and section: `cNestings` of an owner is what the client has
  entered, plus one for a leave that is queued, plus one for a leave under way that has
  not counted it down yet. This is the account that a queued leave, entered into again or
  replayed in the middle of an enter, could get wrong by one;
* `ExitInv` and `ExitOwned`: who may find an exit event, and until which step.

With it a step of the code is an enter or a leave of `RecursiveLock`, or changes nothing
of it: an enter is the step that makes `depth` grow, and `NestInv` and `MutexInv` say that
nobody else is a holder then. `CountInv` adds that `cLockers` is the share of the one
inside, by its program counter (`Share`), plus the number of waiters: so who leaves and
finds the counter above -1 signals for somebody, and who finds a section free finds it
without waiters. Steps that concern one thread and one section
leave the accounts of all others alone (`Moves`, `NestFrame`, `CountFrame`). `IsOwnerExact`
is false, see the findings. `QueueDrains` and `HandedOver` are liveness and stay with TLC.

## 4. TMTimer

| Module | |
| --- | --- |
| `TMTimer` | one timer queue, the API, scheduler, run and poll; all properties |
| `Alarm` | what the owner of a timer is promised; implemented by `TMTimer` |
| `MCTMTimer` | instances for TLC |
| `TMTimer_proof` | the types, `LinkedOnce`, `DisarmedByOwner` and the refinement, proved |
| `TMTimerList_proof` | the active list, and that no timer is lost or forgotten, proved |

One queue of TMCLOCK_VIRTUAL or TMCLOCK_REAL, whose code differs in the clock
only. TMCLOCK_VIRTUAL_SYNC, which has a lock and no states PENDING, is not
modelled.

The linked lists are sequences. That is exact as long as `LinkedOnce` and
`ActiveExact` hold: a timer on a list twice, or unlinked without being linked,
is where pointers do what sequences do not. For the second, `UnlinkActive` does
what the pointers do: without predecessor and successor the list becomes empty.

Each API call of a thread is a record `call[th]` with its program counter; the
owner of the TM lock has one walk over the schedule list, `walk`; the timer EMT
has its run, `run`. An exchange with its retry is one step where a failure has no
effect but to read again (`SetCas`); the steps are apart where a failure matters:
the scheduler's, which count (`tries`), and `TMTimerStop`'s, which fall through.
The second half of `tmTimerTryWithLink`, the push on the list, is a step of its
own, and so are the write of the expire time and the publication of the state.
The TM lock is recursive: a call made by a callback leaves it with the run
(`LockAfter`). The devices' critical sections are one section `crit`, which
timers in `Crit` share.

Clients hold `crit` during calls on timers in `Crit`, as `TMTIMER_ASSERT_CRITSECT`
demands; nobody uses a timer while it is being destroyed or after. Left out:
creation and recycling (timers exist, stopped), frequency hints, statistics, saved
state. Timers in `Crit` are not destroyed in any instance: `TMR3TimerDestroy` waits
for the TM lock with the timer's section held, as it asserts while the VM runs, and
a queue run that owns the TM lock waits for that section; in an instance with two
EMTs that destroys such a timer TLC finds the deadlock at once. `TMR3TimerDestroyDevice`,
which PDM calls when the VM is torn down, takes the TM lock first.
`TMTimerSetRelative` is the same state machine with another expire time. The loop
that returns VERR_INTERNAL_ERROR after a thousand spins may spin for ever here. The
halt loops run the queues whenever they wake up, so a run may
start at any time (`RunQueues` has no guard on the flag).

### Runs

| Run | Instance | Shows |
| --- | --- | --- |
| `timer_lists` | EMT and I/O thread; a device's timer, set and stopped, and one without section, set and destroyed; 3 calls; fairness | `TypeOK`, `LinkedOnce`, `ActiveExact`; `NotForgotten`, `ExpireCached`; `GoesOff`, `CallsReturn`; `ImplementsAlarm`, `DisarmedByOwner` |
| `timer_dropped` | the same, 4 calls | finding, below: `PendingScheduled` does not hold |
| `timer_destroy_stopped` | a timer both stopped and destroyed | finding, below |

Bounds: `MaxTime` 1 gives timers that expire at once and later, and two that tie.
Three calls are set, set again or stop, and one against them from the other
thread. A fourth lets the scheduler lose all three of its attempts, which is the
run `timer_dropped`; `NotForgotten` and `GoesOff` of the passing run are about
behaviours in which it does not give up, as a timer it has dropped is forgotten. That
run keeps away from the other findings by its constants: a timer is stopped or
destroyed, not both, and only the device's timer is stopped. With two EMTs and an
I/O thread `CallsReturn` would need strong fairness of taking the TM lock, which
the host does not promise.

Fairness: weak fairness of the clock, of the host timer (it fires a hundred times
a second), of the walk, of the queue run once begun, of its beginning when
VMCPU_FF_TIMER is set (EM looks at it before it runs the guest), and of each call's
steps. A new call need not be made and a run without the flag need not start.

### Proofs

`TMTimer_proof` proves `TypeCorrect`, `Spec => []TypeOK`, for all timers, threads,
times and numbers of calls. TypeOK is not inductive by itself: that a step about
`call[th].t` is about a timer and not NULL depends on the program counter, so
`TypeInv` adds that a call, a walk and a run that are under way have a timer.

It then proves `LinkedOnceCorrect`, `Spec => []LinkedOnce`: the one
link a timer has for the schedule list, `offScheduleNext`, is never used twice,
and only by timers in the states that the scheduler handles. The code
relies on the states for it: whoever exchanges a state that is not PENDING for one
that is does the push. That argument is `PlaceLinking`, and it needs what
`LinkInv` adds to `LinkedOnce`:

* `LockInv`, `WalkInv`: the TM lock has one owner, the list is taken only by that
  owner and only when nothing is left of the one taken before;
* `CallInv`: what a call has read before its exchange, by program counter;
* `SetInv`: a timer in a SET_EXPIRE state has exactly one thread that sets it, so
  the plain store of `Publish` does not undo another thread's change;
* `RunInv`: only the run itself ends EXPIRED_GET_UNLINK;
* `AloneInv`, `DestroyInv`: a timer being destroyed has no other user, and once
  destroyed it is at most on the part of the list that is being walked over.

Each step then gives up a place, moves a timer to a place, or takes the whole
list, and there is one lemma for each (`PlacesShrink`, `PlacePushed`,
`PlaceLinking`, `PlacesTaken`, `PlacePopped`). The assumptions are the module's
own: the timer EMT is a thread, NULL is neither a thread nor a timer, timers that
are stopped, destroyed or have a section are timers. That clients leave a timer
alone which is being destroyed is part of the model (`Begin`, `TMR3TimerDestroy`)
and hence of what is proved.

The last part of `TMTimer_proof` is about alarms. A call is about one timer
(`CallAbout`), which it does not make go off; the scheduler changes the states of
timers but no alarm (`WalkAbout`); the run fires timers (`RunAbout`).
`DisarmedByOwnerCorrect` follows. For `AlarmImplemented`, `Spec => ImplementsAlarm`,
the hard step is `RunFire`: the run compares the expire time with the clock it read
at its beginning, then waits for the timer's critical section, during which other
threads may set the timer, and only then exchanges ACTIVE for EXPIRED_GET_UNLINK.
`FireInv` says that a timer which is ACTIVE still has expired still: to become
ACTIVE again it would take the TM lock, which the run owns.

`TMTimerList_proof` proves the rest under two conditions, which the code does not
establish and without which the properties are false.

*For disciplined clients*: `Disciplined` says that timers which are stopped have a
critical section and are never destroyed. `ActiveExactCorrect`,
`ExpireCachedCorrect` and `ActiveListedCorrect` are `Spec /\ Disciplined => []P`. The
first half of the condition excludes the finding at `TMAll.cpp:1880`, the second that
at `TM.cpp:1554`; the instance of `timer_lists` satisfies both, with a timer of each
kind, and that of `timer_destroy_stopped` breaks the second. A device's timers
keep to it until the VM is torn down. The argument: a timer is *said to be
on the list* by its state or by the run that is about to unlink it (`OnList`), and
each step changes either both the list and what is said, under the TM lock, or
neither.

* `ListInv`: a timer is linked exactly when it is said to be, and only once. A step
  of the walk that makes a timer's state one off the list unlinks it in the same
  step; one that makes it ACTIVE links it in the next, and `Inserting` excepts it
  meanwhile.
* `CritInv`, `StopInv`: `TMTimerStop` exchanges a state that it read earlier. While it
  owns the device's section no other call and no run changes that state, only the
  scheduler, so a failed exchange of PENDING_SCHEDULE means ACTIVE, for which the code
  it falls through to fails and reads again.
* `KindInv`: a timer that is destroyed has never been stopped, so `fActive` says
  truly whether it is listed.
* `StartInv`, `CacheInv`: a timer is linked by the expire time it has, and the cached
  expire time is that of the first timer, also while the TM lock is owned.

*As long as the scheduler does not give up*: `NeverDrops`, an action property, says
that `tmTimerQueueScheduleOne` does not lose a third race for a timer, which is the
finding at `TMAll.cpp:478` and what the run `timer_dropped` shows. `PendingScheduledCorrect` and `NotForgottenCorrect` are
`Spec /\ NeverDrops => []P`: for any number of threads and calls, giving up is the only
way a timer gets lost. In the instance of `timer_lists` no behaviour gives up, as
three calls are too few. `TellInv` is what `NotForgotten` needs: a timer that the
scheduler finds being set is put back one step later, and if it has been set by then
its setter has raised the flag or has yet to. No critical section is needed here.

`GoesOff` and `CallsReturn` are liveness and model-checked only.

## 5. PDMQueue

| Module | |
| --- | --- |
| `PDMQueue` | the queues, their inserters and flushers; all properties |
| `Mailbox` | what the users of a queue are promised; implemented by `PDMQueue` |
| `MCPDMQueue` | instances for TLC |
| `PDMQueue_proof` | proofs |

`slot`, `iFreeHead`, `iFreeTail` are the ring of free items, `pending[q][c]` the
three lists, newest first; `ff`, `active`, `bit` the force flag and the two bits
that all queues of a VM share. `call[t]` is what a thread does next: allocate (read
the index and the item, then exchange), push, set the flag, set the bit; or flush:
clear the flag, set ACTIVE, clear PENDING, walk, take the three lists one by one,
feed the consumer, put back, clear ACTIVE, test bit and flag. The exchange that
pushes is one step, since a failure has no effect but to read again. A consumer
may refuse at any item where its queue is in `Fussy`.

`ImplementsMailbox` maps a queue to one line per context: its items not yet
consumed, wherever they are, and which of a line comes before which (`Order`: the
pairs of the concatenated lists that were inserted from the same context). The
mailbox appends at the end of a line and delivers what nothing of its line comes
before. A queue that is both used outside ring-3 and refused keeps no order: what is put
back goes on the ring-3 list, which is fed last. The consumer's documentation does
not promise one there.

Left out: the wake-up of halted EMTs by `VMR3NotifyGlobalFFU`, the call of
`PDMR3QueueFlushAll` before a saved state is loaded (`PDM.cpp:797`, like EM's), the
delay of `PDMQueueInsertEx`, destruction.

| Run | Instance | Shows |
| --- | --- | --- |
| `queue` | a forced queue with a consumer that refuses, a timed one that ring-0 uses, 2 items each; 2 EMTs flush, one of them and an I/O thread insert; 2 inserts | `ImplementsMailbox`, `PendingBitKnows`, `Assertions` |
| `queue_caught` | one forced queue, 1 insert of each kind | finding, below |

Two inserts of two threads meet on one list, or on the ring's index, with two EMTs
flushing. The number of inserts also bounds how far the indices of the ring go
round: that iFreeTail comes round while a thread stands between reading the item
and exchanging the index (it takes as many allocations by others as the ring has
slots) is excluded by the bound, so the run says nothing of that hazard. With one insert more it happens: the exchange then
succeeds with an item that is in use, and both `AllocatedIsMine` and
`ImplementsMailbox` fail (section 10).

There is no liveness: `queue_caught` shows why it would not hold.

### Proofs

`PDMQueue_proof` proves, for all sets of threads and EMTs, any number of queues of
either kind, of items and of inserts, and any set of consumers that refuse:

* `FlushInvCorrect`, `Spec => []FlushInv`. ACTIVE is a lock that is only tried: `Active(t)`
  are the steps of `PDMR3QueueFlushAll` between setting and clearing it, and `Alone`
  says that one thread at most is at them. With the timers' queues flushed by one EMT
  only, no two threads flush the same queue (`SameFlusher`). `RingFilled` and `ReadInTime`
  say what a ring holds until iFreeHead first comes round: everything before
  iFreeHead is an item, and who allocates has read an index before it; after that no
  slot is empty again. Without it one cannot tell that an allocation never returns an
  empty slot. `AssertionsCorrect` follows.
* `PendingBitKnowsCorrect`. The property is not inductive: that the EMT that flushes
  "has the queue before it" has to be said list by list, as the three are taken one
  after the other and an item can be pushed on a list just taken (`Comes`, `Known`), and
  of what is being put back, which joins what was pushed meanwhile (`KnownBack`).
  Clearing the bit needs `Alone`: the walk that begins then comes to every queue, and
  nobody else stands in the middle of putting items back. `Stays` is what a step must
  leave alone; one lemma per action shows that it does.
* `MailboxImplemented`, `Spec /\ NeverStale => ImplementsMailbox`, and
  `AllocatedIsMineCorrect`. `NeverStale` says that whoever moves iFreeTail finds the ring
  not empty and the item he read in its slot; without it both are false (section 10). The
  invariant is `MailInv`: no item is in two slots of the ring (`RingOnce`), on a
  list twice or both in the ring and on a list (`ListedOnce`), and the item of a thread
  about to insert it is in neither nor another thread's (`Own`, `OwnItems`). That makes the
  ring large enough: `RoomLeft` counts, with `FS_PigeonHole`, that an item put back finds a
  slot that is not in use. For the order each list holds items of its own context
  (`ListedFrom`), and the flush those of the lists it has taken so far (`TakenFrom`), so that
  taking a list changes the order only between contexts (`Reordered`, `Distinct`). Most steps
  then leave the mailbox as it is (`Quiet`, `Relisted`); AllocTake, Push and Feed are its
  three actions (`AllocTakeMail`, `PushMail`, `FeedMail`). No run checks `AllocatedIsMine`:
  a thread that inserts an item it shares breaks `ImplementsMailbox`, which `queue` checks.
* `MailboxAlone`, `Spec /\ []AllocsAlone => ImplementsMailbox /\ []AllocatedIsMine`: where no
  two threads are in PDMQueueAlloc for the same queue at once the hypothesis is true
  (`ReadingInvCorrect`): a flush puts items back only at iFreeHead, which `RoomLeft` keeps away
  from the slot that is being taken. Some devices have only one item on its way at a
  time (`Devices/Storage/DevLsiLogicSCSI.cpp:987`); others allocate from several threads.

The assumptions are the module's own, and no bound on inserts enters: all hold however
often the ring's index comes round, the last three while their hypotheses do.

## 6. EMTRendezvous

| Module | |
| --- | --- |
| `EMTRendezvous` | `VMMR3EmtRendezvous`, the force flag's handler, the common part |
| `Gathering` | a barrier with a handler in the middle; implemented by `EMTRendezvous` |
| `MCEMTRendezvous` | the instance for TLC |
| `EMTRendezvous_proof` | the proofs |

The variables are the fields of `VM::vmm` with `Rendezvous` in their names; `pc[e]` is
the next access of EMT `e` to them and `my[e]` its locals, which of the two
rendezvous it may be in at a time included: its own call (`want`, `calls`) and the
one it takes part in while it spins for the lock (`flags`). Resetting five
semaphores is one step, storing the slate another: nobody else runs the common
part between them, which the run confirms, since everything else is interleaved.

A failure is for the caller only: the others find `i32RendezvousStatus` and return
it if it is an EM scheduling status, or else success (`NonCallerStatus`). So
`OutcomeAgreed` promises the caller the outcome, the first failure included, and the
others the same but that a failure is success for them; each reads the status when it
leaves, which the next caller's clearing of the slate must not have reached.

Left out: callers that are not EMTs (they forward by `VMR3ReqCallWait`), the merge of
the result with that of a rendezvous taken part in while spinning (`rcStrict`), the
shortcut for one virtual CPU. Of two informational statuses the lowest wins; the
instance has one such status, so that rule is modelled and not exercised.

| Run | Instance | Shows |
| --- | --- | --- |
| `rendezvous` | 3 EMTs, 2 calls, two failures, success and one EM status, all types with and without stop on error, fairness | `ImplementsGathering`, `OutcomeAgreed`, `Assertions`, `AllReturn` |

Three EMTs are the least with a first, a middle and a last one in order, and with
two that contend while the third only takes part. Two calls are the least at which
one rendezvous could meet the leftovers of another.

Fairness: as long as some EMT can go on, one does. The host schedules EMTs, each
polls the force flag, a handler returns; that the same EMT goes on is not needed.

### Proofs

`EMTRendezvous_proof` proves, for every number of EMTs from two on, every set of
statuses and any number of calls, `RoundInvCorrect`, `Spec => []RoundInv`, and from it
`AssertionsCorrect`, `OutcomeAgreedCorrect` and `GatheringImplemented`. `RoundInv` says
that a rendezvous is in one of five phases and what then holds:

* `Free`: nobody has the lock, nobody takes part, the force flag is clear;
* `Prepare`: the owner of the lock clears the slate, all others are outside;
* `Gather`: the force flag is set, `cEntered` is the number of those that have come, no
  semaphore is signalled, and who is last is alone: all others wait;
* `Run`: the handler is run. With ONCE one EMT goes on and all others wait
  (`RunOnce`); otherwise (`RunEach`) `cDone` is the number of those that are through,
  and `TurnOf` says of each EMT when it may go on. In an ordered rendezvous at most
  one EMT has its semaphore signalled or is on its turn, those before it are through
  and wait, those after it have not begun (`Turned`), so that `cDone` tells its index;
* `Leave`: `done` is set, `cReturned` is the number of those that are back, and once the
  caller has been signalled all others are.

Besides, `Knows` says of each EMT what its locals have to do with the slate. None of
the properties is inductive: that no EMT meets the slate of another rendezvous
follows only from the phases following each other. `PhaseOf` tells the phase from
where an EMT is, `InvStep` what is left to show of a step, and one lemma per action
shows it. The counters are cardinalities; that the last to count is the last
(`CountOf`, `CountOne`, `GoneAre`) is what moves the rendezvous on. `OutcomeStep` proves
the loop of the exchange for any sequence of statuses, several informational ones
included, which the instance does not have; `OutcomeUnique` that `Outcome` is the
value it keeps.

For `GatheringImplemented` each step is a step of `Gathering` or none: `ClearSlate` is
`Call`, `Enter` is `Come`, `CallHandler` is `Begin` unless the handler is passed over,
`CountDone` is `End` or `PassOver`, the returns are `Go`. The assumptions are the
module's own: two EMTs at least (with one the code takes its shortcut), the statuses
are integers with `VINF_SUCCESS` among them. `AllReturn` is model-checked only.

## 7. VMReq

| Module | |
| --- | --- |
| `VMReq` | requests, their packets and lists, EMTs that process and halt |
| `RemoteCalls` | a function is run once, in order, and its packet not reused before; implemented by `VMReq` |
| `MCVMReq` | instances for TLC |
| `VMReq_proof` | the proofs |

Per packet: state, status, arguments, the two fields of its event; per queue
(`ANY` and one for each virtual CPU) the list, newest first, and the force flag. A
caller allocates, pushes, sets the flag, notifies one or all virtual CPUs, and
waits, polls and then waits, or goes away. An EMT that runs sees a flag, clears it,
takes the list, puts back all but the oldest, sets the flag again, runs it,
completes, signals. An EMT without work halts: `fWait`, test, block, reset the event;
the caller's side of that is `NotifyCpuFF` and `SchedWakeUp`. An EMT may ask itself,
which runs the function at once (`OwnCall`). If it waits, the packet's event is left
signalled with `fEventSemClear` unset, and the next user of the packet has to clear
it. If it does not wait, `vmR3ReqProcessOneU` frees the packet (`FreeNoWait`); if the
function then has failed, `VMR3ReqCallVU` frees it again: `Failing` are the EMTs whose
functions may fail so. While nobody has been given the packet `VMR3ReqFree` refuses it,
with an assertion (`FreeRefused`); when somebody has, his packet may be freed under him
(`FreeTaken`). `Spec` has both. `CarefulSpec` leaves the second out: what becomes of a
packet that has two owners is beyond a model whose lists are sequences, and no property of
packets survives it (section 10). The runs and the theorems are about `CarefulSpec`, which
is `Spec` where `Failing` is empty (`CarefulWithoutFailures`).

The nine free lists are one set: which list a packet is on is a matter of speed,
and any free packet may be handed out next. Left out: the limit of 128 packets and
the heap behind it, the cut in `vmr3ReqJoinFree`, pokes and the recompiler's
notifications, the cap of one second on a halt (nothing relies on it, and with it
a lost wakeup would be a delay), `VMCPUID_ALL_REVERSE`, EMTs that ask other EMTs and
process requests while they wait, requests made by a request. A wait with a time-out
that ends between the completion and the signal (`VMReq.cpp:982`) is not modelled
either: its caller might free the packet before the signal, but all callers in the
repository wait without a time-out or poll with one of 0 and then wait for the event.

| Run | Instance | Shows |
| --- | --- | --- |
| `request` | 2 EMTs, one of which asks itself, with calls that fail; a caller that waits or polls and one that does not; requests for any, one and all; 2 packets, 2 calls | `NoRequestStranded`, `NoLostWakeup`, `Assertions`, `AnswerIsMine` |
| `request_live` | 1 EMT, 2 callers, 3 packets, 3 calls, fairness | `ImplementsCalls`, `CallsReturn` |
| `request_polled` | 1 EMT, a polling caller | finding, below |

Two packets and two calls make both lists and the recycling of a packet by another
kind of call happen, one whose event was left signalled by an EMT's own call or by a
poller included, which is where `AnswerIsMine` could go wrong; order needs three requests for one virtual CPU, two of them to
be put back, against a push.

Fairness: a caller goes on with its call, and an EMT with processing, halting and
blocking; nobody has to make a call or to halt.

### Proofs

`VMReq_proof` proves, for all callers, every finite set of virtual CPUs and any number
of packets and calls, `FlagInvCorrect`, `CarefulSpec => []FlagInv`, and from it
`NoRequestStrandedCorrect` and `NoLostWakeupCorrect`. `FlagInv` is the two with
`ControlInv`: the types of lists, flags and of what callers and EMTs know, and

* a caller with a call under way has a packet and a queue it is for, and one that
  notifies has somebody left to notify (`CallOk`);
* an EMT takes only from a queue it serves, and has `fWait` set whenever it tests,
  blocks or resets the event (`EMTOk`).

Neither property is inductive without them: a caller passes over an EMT whose
`fWait` is clear, which is right only since that EMT has its test of the flags
still before it. `CallerControl` and `EMTControl` are the steps of `ControlInv`,
`CallerFrame` and `EMTFrame` say what a step leaves alone, and each property has one
lemma for callers and one for EMTs. The assumptions are the
module's: there are virtual CPUs, finitely many, and `ANY` and `ALL` are none.

`PacketInvCorrect`, `CarefulSpec => [](ControlInv /\ PacketInv)`, says where a packet is: free, with
the caller that fills it in or has been told that it is answered, on one list, once, or
with one EMT, in its hand or among those it will put back. `PacketInv` is

* `StateTells`, per packet: what its state says of the free list, of its event and of its
  status. An event left signalled in a free packet is one with `fEventSemClear` unset;
* `CallerPacket`, `EMTPacket`: what a caller and an EMT may rely on at each step;
* `ListedQueued`, `ListsApart`, `RestsApart`, `HandsApart`, `CallersApart`: a packet is in
  one place. The lemmas `JoinOnce`, `PushOnce` and `TakeOnce` say it of the sequences;
* `CallerAlone`: nobody serves a packet any more whose caller has been told, which is why it
  can be recycled while the EMT that signalled it goes on.

The heart is `NotServed`. `AssertionsCorrect` and `AnswerIsMineCorrect` follow, and so does
`CallsImplemented`, `CarefulSpec => ImplementsCalls`. `CarefulWithoutFailures` says when the
condition is none: who calls, without waiting, functions that do not fail has all this of
`Spec` (`NotAgain`: an EMT frees a packet again only after a failure). The refinement maps the packets asked of one virtual
CPU to a line: the one in its EMT's hand, what that will put back, then the list, each
oldest first (`CpuLine`). Taking, joining and putting back leave the line as it is
(`ReverseTake`, `LineOps`), a push appends to it, and an EMT begins with its head. For the
common queue there is a set instead (`AnyPool`), since it keeps no order. TLC agreed with
`PacketInv` on the instances of both runs. `CallsReturn` is liveness and stays with TLC.

## 8. XRoads

| Module | |
| --- | --- |
| `XRoads` | enter and leave; all properties |
| `MCXRoads` | the instance for TLC |
| `XRoads_proof` | the proofs |

`count`, `waiting` and `dir` are the fields of the 64-bit word. Each step that
exchanges it is one that succeeds: a failed exchange has no effect but to begin
anew, with what is then there. The steps between the exchanges are apart: the one
who reverses the traffic sets `fNeedReset`, then signals; who waited tests the
direction, leaves the queue and, being last, clears `fNeedReset` and resets the
event. Left out: destruction, and the width of the counters: the code asserts
that they stay far below the 15 bits they have.

| Run | Instance | Shows |
| --- | --- | --- |
| `xroads` | 4 threads, 6 entries, fairness | `Exclusion`, `Assertions`, `NoLostWakeup`, `EveryoneCrosses` |

Four threads are two on each side, so that one of two waiters wakes up first and
the next round begins before the second has; six entries are enough for three
reversals. Fairness: who has arrived goes on, and leaves. `EveryoneCrosses` holds
because only so many enter: a stream of threads in one direction keeps those of
the other waiting for ever, by design.

### Proofs

`XRoads_proof` proves, for every finite set of threads and any number of entries,
`CrossInvCorrect`, `Spec => [](TypeOK /\ CrossInv)`, and from it `ExclusionCorrect`,
`AssertionsCorrect` and `NoLostWakeupCorrect`. None of the three is inductive; that
the direction is not turned under somebody depends on the counts, that an event is
not reset too early on who else waits. `CrossInv` is

* `CountsExact`: the two counts are the cardinalities of the crowds they count. The
  lemmas `CardinalityStep` and `CountsStep` turn a change of one thread into a change
  of one; `CountsTell` turns a count of zero or one into who is there;
* `Flow`: who crosses goes the way of the traffic;
* `EventInv`, for each direction: the event is set only for somebody who has still to
  wake up or to reset it (`EventUsed`); one thread at a time is about to signal it, for
  somebody who waits (`SignalAwaited`); one is about to reset it, after the last has
  woken up (`ResetAlone`); who waits while the traffic flows its way is told
  (`WaitersTold`); who switched the direction was alone (`SwitchedAlone`).

`ArriveFlows` and `CrossFlows` are the steps of the first two, `ArriveEvents` and
`CrossEvents` those of the third, with one case per action. The heart is `LastLeaves`:
when a thread turns the traffic, everybody left waits for the other direction and
none of them has woken up. The assumptions are the module's own: the threads are
finitely many, the bound on the entries is a number, and TLC evaluates both.
`EveryoneCrosses` is model-checked only.

## 9. What is proved and what is only checked

Proved by TLAPS, for all values of the constants: the theorems of
`PDMCritSect_proof`, `PDMCritSectLock_proof`, `TMTimer_proof`, `TMTimerList_proof`,
`PDMQueue_proof`, `EMTRendezvous_proof`, `VMReq_proof`, `XRoads_proof`, as described in
their sections and listed in `PROJECT.json`. What is left, liveness, is model-checked on
the instances above.

Some properties cannot be proved. Liveness under fairness is out of the prover's
reach. `ImplementsMailbox` of PDMQueue is not true where an index comes round while a
thread allocates (`PDMAllQueue.cpp:60`), so its theorems have the hypotheses that
section 5 explains. `ActiveExact`, `PendingScheduled`, `NotForgotten` and
`ExpireCached` of TMTimer are not true of every instance: the findings at
`TMAll.cpp:478`, `TMAll.cpp:1880` and `TM.cpp:1554` break them where there are more
threads or calls, so their theorems have the hypotheses that section 4 explains. The
theorems about VMReq are about `CarefulSpec`, see section 7: the finding at
`VMReq.cpp:457` breaks `Assertions` and `AnswerIsMine`, and the packets' invariant with
them, in the other behaviours of `Spec`.

A word on what the models share. Every atomic access to shared state is a step of
its own, unless a section says otherwise, and memory is sequentially consistent: the
code uses locked instructions for these accesses, on x86. Compilers' reordering of
plain stores is not modelled.

## 10. Findings

Four are runs that TLC ends with the violation; `PROJECT.json` has the quotes.

* `timer_destroy_stopped` (`TM.cpp:1554`): destroying a timer in
  PENDING_STOP_SCHEDULE empties the active list.
* `timer_dropped` (`TMAll.cpp:478`): after three lost races the scheduler returns with a
  timer that is PENDING and on no list, which the states' definitions exclude. No later
  set or stop puts it back.
* `queue_caught` (`PDMQueue.cpp:690`): an insert can be left behind with no force flag
  set. The inserter sets the flag, then the bit; another EMT clears the flag and
  leaves as ACTIVE is set; the EMT that flushes finds neither bit nor flag; then the
  bit is set. The item waits until the next insert into any queue.
* `request_polled` (`VMReq.cpp:975`): `VMR3ReqWait` waits before it looks at the state,
  so a wait of no time that consumes the event makes a later wait without a time-out
  hang. The Console does both (`ConsoleImpl.cpp:3522`).

Five more were met while modelling and proving. They are told here without a run:

* `PDMAllCritSect.cpp:679`: outside ring-3 the owner query answers from
  `PENDING_UNLOCK` and `cNestings`; after a ring-3 call has replayed the queued leave
  of a section that was entered again, it denies an owner (`IsOwnerExact` in
  `PDMCritSect` fails with an EMT and two I/O threads).
* `TMAll.cpp:358`: the active list is not always ordered when no scheduling is
  pending, as its description says (`OrderedWhenQuiet` in `TMTimer` fails with `MaxTime`
  2).
* `TMAll.cpp:1880`: a missing `break` in `TMTimerStop` empties the active list when a
  stop races a set of a timer without critical section.
* `VMReq.cpp:457`: an EMT that has a function run on itself without waiting, and whose
  function fails, frees the packet twice, the first time in `vmR3ReqProcessOneU`
  (`:1256`). The second time the assertion at `:731` fails, or another thread that was
  given the packet in between has it taken away (with `Spec` for `CarefulSpec` the instance
  of `request` violates both `Assertions` and `AnswerIsMine`, by the step `FreeTaken`).
  `vmmR3SendSipi`, which `VMMR3SendSipi` calls so (`VMM.cpp:1379`), fails unless its virtual
  CPU waits for a SIPI; an EMT that runs and sends one to itself makes such a call.
* `PDMAllQueue.cpp:60`: an item can be allocated twice. A thread reads iFreeTail and the
  item there and is held up; others allocate, insert and consume until iFreeTail has come
  round; the exchange succeeds with the item read long ago (`AllocatedIsMine` in
  `PDMQueue` fails with an EMT and an I/O thread that insert into one forced queue of 2
  items and `MaxInserts` 3).

## 11. Running the checks

    tlc -workers 2 -config MCPDMCritSect.cfg MCPDMCritSect
    tlapm PDMCritSect_proof.tla

and likewise for the runs and proof modules `PROJECT.json` lists. Definitions
marked as mutants in the modules are changes of the code's model that a property
must reject; `PROJECT.json` says which definition each one replaces and which
property it breaks. No run uses them otherwise.
