------------------------- MODULE TMTimerList_proof --------------------------
(***************************************************************************)
(* Proofs about the lists of TMTimer: the active list is exact for clients *)
(* that keep to a discipline, and no timer is lost between the lists as    *)
(* long as the scheduler's retries suffice. Both conditions are needed:    *)
(* the code does not establish them, and breaks the properties without     *)
(* them.                                                                   *)
(*                                                                         *)
(* ActiveExact is not inductive. That a timer whose state says so is       *)
(* linked (ListInv) depends on the steps that change a state without       *)
(* touching the list leading between states of the same side. For          *)
(* TMTimerStop, which exchanges a state it read some time ago, that takes  *)
(* the device's critical section (CritInv, StopInv). The cached expire     *)
(* time (CacheInv) depends besides on a timer being linked by the expire   *)
(* time it has (StartInv).                                                 *)
(***************************************************************************)
EXTENDS TMTimer_proof

\* What the clients have to keep to: a timer that is stopped has a critical
\* section, and is never destroyed.  TMTimerStop may else lose a race to another
\* call about the timer and fall through (StopFallThru), and TMR3TimerDestroy
\* unlinks a timer that is stopped and off the list already.
Disciplined == Stops \subseteq Crit /\ Stops \cap Mortal = {}

\* A call about a timer of the device owns the device's critical section, and so
\* does the run while it fires one.
CritInv ==
    /\ \A th \in Threads : call[th].pc # "idle" /\ call[th].t \in Crit => crit = th
    /\ RunOwnsCrit => crit = TimerCpu

\* Only timers of which the owner calls TMTimerStop are being stopped, and only
\* those of which it calls TMR3TimerDestroy are being destroyed.
KindInv ==
    /\ \A th \in Threads : /\ call[th].op = "stop" => call[th].t \in Stops
                           /\ call[th].op = "destroy" => call[th].t \in Mortal
    /\ \A t \in Timers : state[t] \in {"PENDING_STOP", "PENDING_STOP_SCHEDULE"} => t \in Stops

\* What a client begins, by kind.
LEMMA ClientKinds ==
    ASSUME TypeInv, NEW th \in Threads, Client(th)
    PROVE  \E t \in Timers, c \in ApiCalls :
             /\ Begun(th, t, c)
             /\ c.op = "stop" => t \in Stops
             /\ c.op = "destroy" => t \in Mortal
<1>1. PICK u \in Timers, d \in ApiCalls : Begun(th, u, d)
  BY ClientBegins
<1>2. call \in [Threads -> ApiCalls]
  BY DEF TypeInv, CallsTyped
<1>3. call'[th] = d /\ d.t = u
  BY <1>1, <1>2 DEF Begun
<1>4. ASSUME NEW t \in Timers, NEW e \in Times, TMTimerSet(th, t, e) PROVE d.op = "set"
  BY <1>2, <1>3, <1>4 DEF TMTimerSet
<1>5. ASSUME NEW t \in Stops, TMTimerStop(th, t) PROVE d.op = "stop" /\ u \in Stops
  <2>1. call'[th] = [Idle EXCEPT !.pc = "read", !.op = "stop", !.t = t]
    BY <1>2, <1>5 DEF TMTimerStop
  <2>2. call'[th].op = "stop" /\ call'[th].t = t
    BY <2>1 DEF Idle
  <2> QED  BY <1>3, <2>2
<1>6. ASSUME NEW t \in Mortal, TMR3TimerDestroy(th, t) PROVE d.op = "destroy" /\ u \in Mortal
  <2>1. call'[th] = [Idle EXCEPT !.pc = "destroy", !.op = "destroy", !.t = t]
    BY <1>2, <1>6 DEF TMR3TimerDestroy
  <2>2. call'[th].op = "destroy" /\ call'[th].t = t
    BY <2>1 DEF Idle
  <2> QED  BY <1>3, <2>2
<1>7. (d.op = "stop" => u \in Stops) /\ (d.op = "destroy" => u \in Mortal)
  BY <1>4, <1>5, <1>6 DEF Client
<1> QED  BY <1>1, <1>7

\* A call keeps the section until it returns.
LEMMA CritCall ==
    ASSUME TypeInv, LockInv, CritInv, NEW th \in Threads, CallStep(th)
    PROVE  CritInv'
<1>1. /\ call \in [Threads -> ApiCalls] /\ UNCHANGED run /\ call[th].pc # "idle"
      /\ TimerCpu \in Threads /\ NULL \notin Threads
  BY ThreadsAssumption
     DEF TypeInv, CallsTyped, CallStep, TryStart, StartExpire, StartLink, SetCas, Link, SetExpire,
     Publish, StopRead, StopCas, StopFallThru, Schedule, Scheduled, Destroy, Free
<1>2. CASE Return(th)
  <2>1. /\ \A u \in Threads \ {th} : call'[u] = call[u]
        /\ call'[th] = Idle /\ Idle.pc = "idle" /\ crit' = CritAfter(th, call[th].t)
    BY <1>1, <1>2 DEF Return, Idle
  <2>2. \A u \in Threads : call'[u].pc # "idle" /\ call'[u].t \in Crit => crit' = u
    BY <1>1, <2>1 DEF CritInv, CritAfter
  <2>3. RunOwnsCrit' => crit' = TimerCpu
    BY <1>1, <2>1 DEF CritInv, CritAfter, RunOwnsCrit
  <2> QED  BY <2>2, <2>3 DEF CritInv
<1>3. CASE UNCHANGED crit /\ \A u \in Threads : call[u].pc = "idle" => call'[u] = call[u]
  <2>1. /\ \A u \in Threads \ {th} : call'[u] = call[u]
        /\ call'[th].t = call[th].t \/ call'[th] = Idle
    BY <1>1 DEF CallStep, TryStart, StartExpire, StartLink, SetCas, Link, SetExpire,
       Publish, StopRead, StopCas, StopFallThru, Schedule, Scheduled, Destroy, Free, Goto, Return,
       ApiCalls
  <2>2. Idle.pc = "idle"
    BY DEF Idle
  <2> QED  BY <1>1, <1>3, <2>1, <2>2 DEF CritInv, RunOwnsCrit
<1>4. Return(th) \/ UNCHANGED crit
  BY DEF CallStep, TryStart, StartExpire, StartLink, SetCas, Link, SetExpire,
     Publish, StopRead, StopCas, StopFallThru, Schedule, Scheduled, Destroy, Free
<1>5. \A u \in Threads : call[u].pc = "idle" => call'[u] = call[u]
  BY <1>1 DEF CallStep, TryStart, StartExpire, StartLink, SetCas, Link, SetExpire,
     Publish, StopRead, StopCas, StopFallThru, Schedule, Scheduled, Destroy, Free, Goto, Return
<1> QED  BY <1>2, <1>3, <1>4, <1>5

\* The run enters the section when nobody owns it, and leaves it.
LEMMA CritRun ==
    ASSUME TypeInv, LockInv, CritInv, StartRun \/ RunStep
    PROVE  CritInv'
<1>1. /\ run \in Runs /\ UNCHANGED call /\ TimerCpu \in Threads /\ NULL \notin Threads
  BY ThreadsAssumption DEF TypeInv, RunTyped, StartRun, RunStep
<1>2. NoRun.pc = "idle"
  BY DEF NoRun
<1>3. CASE RunCrit
  <2>1. call[TimerCpu].pc = "idle"
    BY <1>1, <1>3 DEF RunCrit, LockInv
  <2> QED  BY <1>1, <1>3, <2>1 DEF RunCrit, RunOn, Runs, CritInv, RunOwnsCrit
<1>4. ASSUME RunLeave, run.pc \in {"fire", "callback"}, call[TimerCpu].pc = "idle" PROVE CritInv'
  <2>1. run'.pc = "loop"
    BY <1>1, <1>4 DEF RunLeave, RunOn, Runs
  <2>2. run.t \in Crit => crit = TimerCpu
    BY <1>4 DEF CritInv, RunOwnsCrit
  <2> QED  BY <1>1, <1>4, <2>1, <2>2 DEF RunLeave, CritInv, RunOwnsCrit
<1>5. CASE RunFire
  <2>1. call[TimerCpu].pc = "idle"
    BY <1>1, <1>5 DEF RunFire, LockInv
  <2> QED  BY <1>1, <1>4, <1>5, <2>1 DEF RunFire, RunOn, Runs, CritInv, RunOwnsCrit
<1>6. CASE RunReturn
  BY <1>4, <1>6 DEF RunReturn
<1>7. CASE RunUnlink
  BY <1>1, <1>7 DEF RunUnlink, RunOn, Runs, CritInv, RunOwnsCrit
<1>8. CASE StartRun \/ RunLock \/ RunSchedule \/ RunHead \/ RunNext \/ RunDone
  <2>1. run'.pc \notin {"fire", "unlink", "callback"} /\ UNCHANGED crit
    BY <1>1, <1>2, <1>8 DEF StartRun, RunQueues, RunLock, RunSchedule, RunHead, RunNext, RunDone,
       RunOn, Runs, NoRun
  <2> QED  BY <1>1, <2>1 DEF CritInv, RunOwnsCrit
<1> QED  BY <1>3, <1>5, <1>6, <1>7, <1>8 DEF RunStep

\* Every step keeps the section with those who are about a timer of the device.
LEMMA CritNext == TypeInv /\ LockInv /\ CritInv /\ [Next]_vars => CritInv'
<1> SUFFICES ASSUME TypeInv, LockInv, CritInv, [Next]_vars PROVE CritInv'
  OBVIOUS
<1>1. CASE Tick \/ Poll \/ Walk \/ UNCHANGED vars
  <2>1. UNCHANGED <<call, crit, run>>
    BY <1>1 DEF Tick, Poll, Walk, vars
  <2> QED  BY <2>1 DEF CritInv, RunOwnsCrit
<1>2. ASSUME NEW th \in Threads, Client(th) PROVE CritInv'
  <2>1. PICK t \in Timers, c \in ApiCalls : Begun(th, t, c)
    BY <1>2, ClientBegins
  <2>2. call \in [Threads -> ApiCalls] /\ TimerCpu \in Threads /\ NULL \notin Threads
    BY ThreadsAssumption DEF TypeInv, CallsTyped
  <2>3. /\ \A u \in Threads \ {th} : call'[u] = call[u]
        /\ call'[th].t = t /\ UNCHANGED run /\ call[th].pc = "idle"
        /\ t \in Crit => crit \in {NULL, th}
        /\ crit' = IF t \in Crit THEN th ELSE crit
    BY <2>1, <2>2 DEF Begun, Begin
  <2> QED  BY <2>2, <2>3 DEF CritInv, RunOwnsCrit
<1> QED  BY <1>1, <1>2, CritCall, CritRun DEF Next

-----------------------------------------------------------------------------

\* Nobody is about a timer in a way its owner does not use it.
LEMMA KindNext == TypeInv /\ CallInv /\ RunInv /\ WalkInv /\ KindInv /\ [Next]_vars => KindInv'
<1> SUFFICES ASSUME TypeInv, CallInv, RunInv, WalkInv, KindInv, [Next]_vars PROVE KindInv'
  OBVIOUS
<1> DEFINE Halted == {"PENDING_STOP", "PENDING_STOP_SCHEDULE"}
<1>1. CASE Tick \/ Poll \/ UNCHANGED vars
  <2>1. UNCHANGED <<call, state>>
    BY <1>1 DEF Tick, Poll, vars
  <2> QED  BY <2>1 DEF KindInv
<1>2. CASE Walk
  <2>1. state \in [Timers -> States] /\ UNCHANGED call
    BY <1>2 DEF TypeInv, StateTyped, Walk
  <2>2. \A u \in Timers : state'[u] \in Halted => state[u] \in Halted
    BY <1>2, <2>1 DEF Walk, WalkPop, WalkReread, WalkUnlink, WalkSettle, WalkInsert, WalkPostpone,
       Cas, OffList, WalkInv, ReadInv
  <2> QED  BY <2>1, <2>2 DEF KindInv
<1>3. ASSUME NEW th \in Threads, Client(th) PROVE KindInv'
  <2>1. PICK t \in Timers, c \in ApiCalls :
             Begun(th, t, c) /\ (c.op = "stop" => t \in Stops) /\ (c.op = "destroy" => t \in Mortal)
    BY <1>3, ClientKinds
  <2>2. call \in [Threads -> ApiCalls] /\ UNCHANGED state
    BY <2>1 DEF TypeInv, CallsTyped, Begun, Begin
  <2> QED  BY <2>1, <2>2 DEF Begun, KindInv
<1>4. ASSUME NEW th \in Threads, CallStep(th) PROVE KindInv'
  <2>1. \A u \in Threads : Follows(call'[u], call[u])
    BY <1>4, CallCall
  <2>2. \A u \in Threads : /\ call'[u].op = "stop" => call'[u].t \in Stops
                           /\ call'[u].op = "destroy" => call'[u].t \in Mortal
    BY <2>1 DEF Follows, KindInv, Idle
  <2>3. PICK t \in Timers : t = call[th].t /\ About(t)
    BY <1>4, CallAbout
  <2>4. state \in [Timers -> States]
    BY DEF TypeInv, StateTyped
  <2>5. call[th].pc \in {"stop", "stop2"} => t \in Stops
    BY <2>3 DEF CallInv, CallOk, KindInv
  <2>6. state'[t] \in Halted => state[t] \in Halted \/ t \in Stops
    BY <1>4, <2>3, <2>4, <2>5 DEF CallStep, TryStart, StartExpire, StartLink, SetCas, Link,
       SetExpire, Publish, StopRead, StopCas, StopFallThru, Schedule, Scheduled, Destroy, Free, Cas,
       SetTarget, Published
  <2> QED  BY <2>2, <2>3, <2>6 DEF About, KindInv
<1>5. CASE StartRun \/ RunStep
  <2>1. \A u \in Timers : state'[u] \in Halted => state[u] \in Halted
    BY <1>5, RunAbout
  <2> QED  BY <1>5, <2>1, RunAbout DEF KindInv
<1> QED  BY <1>1, <1>2, <1>3, <1>4, <1>5 DEF Next

\* What TMTimerStop has read, PENDING_SCHEDULE, may have become ACTIVE meanwhile,
\* which takes only the scheduler; and once the exchange has failed, it has.
StopInv ==
    \A th \in Threads :
        /\ call[th].pc = "stop" /\ call[th].old = "PENDING_SCHEDULE"
             => state[call[th].t] \in {"PENDING_SCHEDULE", "ACTIVE"}
        /\ call[th].pc = "stop2" => state[call[th].t] = "ACTIVE"

\* A thread that stops a timer stays right as long as the timer's state does.
LEMMA StopKept ==
    ASSUME TypeInv, CallInv, CritInv, KindInv, Disciplined, StopInv,
           NEW th \in Threads, call'[th] = call[th],
           call[th].pc \in {"stop", "stop2"} => state'[call[th].t] = state[call[th].t]
    PROVE  /\ call'[th].pc = "stop" /\ call'[th].old = "PENDING_SCHEDULE"
                => state'[call'[th].t] \in {"PENDING_SCHEDULE", "ACTIVE"}
           /\ call'[th].pc = "stop2" => state'[call'[th].t] = "ACTIVE"
BY DEF StopInv

\* A thread that stops a timer owns the section of its device.
LEMMA StopperOwns ==
    ASSUME TypeInv, CallInv, CritInv, KindInv, Disciplined,
           NEW th \in Threads, call[th].pc \in {"stop", "stop2"}
    PROVE  call[th].t \in Crit /\ crit = th /\ call[th].t \in Timers
<1>1. call[th].op = "stop" /\ call[th].t \in Timers
  BY DEF CallInv, CallOk, TypeInv, CallsTyped
<1> QED  BY <1>1 DEF KindInv, Disciplined, CritInv

\* No other call is about a timer that is being stopped: it owns the section.
LEMMA StopCall ==
    ASSUME TypeInv, CallInv, CritInv, KindInv, Disciplined, StopInv, NEW th \in Threads, CallStep(th)
    PROVE  StopInv'
<1>1. call \in [Threads -> ApiCalls] /\ state \in [Timers -> States]
  BY DEF TypeInv, CallsTyped, StateTyped
<1>2. PICK t \in Timers : t = call[th].t /\ About(t)
  BY CallAbout
<1>3. /\ \A u \in Threads \ {th} : call'[u] = call[u]
      /\ call[th].pc # "idle"
  BY <1>1 DEF CallStep, TryStart, StartExpire, StartLink, SetCas, Link, SetExpire,
     Publish, StopRead, StopCas, StopFallThru, Schedule, Scheduled, Destroy, Free, Goto, Return
<1>4. ASSUME NEW u \in Threads \ {th}
      PROVE  /\ call'[u].pc = "stop" /\ call'[u].old = "PENDING_SCHEDULE"
                   => state'[call'[u].t] \in {"PENDING_SCHEDULE", "ACTIVE"}
             /\ call'[u].pc = "stop2" => state'[call'[u].t] = "ACTIVE"
  <2>1. call[u].pc \in {"stop", "stop2"} => call[u].t \in Timers \ {t}
    BY <1>2, <1>3, <1>4, StopperOwns DEF CritInv
  <2>2. call[u].pc \in {"stop", "stop2"} => state'[call[u].t] = state[call[u].t]
    BY <1>2, <2>1 DEF About
  <2> QED  BY <1>3, <2>2, StopKept
<1>5. /\ call'[th].pc = "stop" /\ call'[th].old = "PENDING_SCHEDULE"
            => state'[call'[th].t] \in {"PENDING_SCHEDULE", "ACTIVE"}
      /\ call'[th].pc = "stop2" => state'[call'[th].t] = "ACTIVE"
  <2>1. CASE StopRead(th)
    BY <1>1, <2>1 DEF StopRead, Return, Idle, ApiCalls
  <2>2. CASE StopCas(th)
    <3>1. CASE call'[th].pc = "stop2"
      <4>1. /\ call[th].old = "PENDING_SCHEDULE" /\ state[call[th].t] # "PENDING_SCHEDULE"
            /\ call[th].pc = "stop" /\ UNCHANGED state /\ call'[th].t = call[th].t
        BY <1>1, <2>2, <3>1 DEF StopCas, Goto, ApiCalls
      <4> QED  BY <3>1, <4>1 DEF StopInv
    <3>2. CASE call'[th].pc # "stop2"
      <4>1. call'[th].pc # "stop"
        BY <1>1, <2>2 DEF StopCas, Goto, ApiCalls
      <4> QED  BY <3>2, <4>1
    <3> QED  BY <3>1, <3>2
  <2>3. CASE ~StopRead(th) /\ ~StopCas(th)
    <3>1. call'[th].pc \notin {"stop", "stop2"}
      BY <1>1, <2>3 DEF CallStep, TryStart, StartExpire, StartLink, SetCas, Link, SetExpire,
         Publish, StopFallThru, Schedule, Scheduled, Destroy, Free, Goto, Return, Idle, ApiCalls
    <3> QED  BY <3>1
  <2> QED  BY <2>1, <2>2, <2>3
<1> QED  BY <1>4, <1>5 DEF StopInv

\* Nor does the run change its state: it would have to own the section too.
LEMMA StopNext ==
    TypeInv /\ LinkInv /\ CritInv /\ KindInv /\ Disciplined /\ StopInv /\ [Next]_vars => StopInv'
<1> SUFFICES ASSUME TypeInv, LinkInv, CritInv, KindInv, Disciplined, StopInv, [Next]_vars
             PROVE  StopInv'
  OBVIOUS
<1> USE DEF LinkInv
<1>1. CASE Tick \/ Poll \/ UNCHANGED vars
  <2>1. UNCHANGED <<call, state>>
    BY <1>1 DEF Tick, Poll, vars
  <2> QED  BY <2>1 DEF StopInv
<1>2. CASE Walk
  <2>1. state \in [Timers -> States] /\ UNCHANGED call
    BY <1>2 DEF TypeInv, StateTyped, Walk
  <2>2. \A u \in Timers : /\ state[u] = "ACTIVE" => state'[u] = "ACTIVE"
                          /\ state[u] = "PENDING_SCHEDULE"
                               => state'[u] \in {"PENDING_SCHEDULE", "ACTIVE"}
    BY <1>2, <2>1 DEF Walk, WalkPop, WalkReread, WalkUnlink, WalkSettle, WalkInsert, WalkPostpone,
       Cas, OffList, WalkInv, ReadInv
  <2> QED  BY <2>1, <2>2, StopperOwns DEF StopInv
<1>3. ASSUME NEW th \in Threads, Client(th) PROVE StopInv'
  <2>1. PICK t \in Timers, c \in ApiCalls : Begun(th, t, c)
    BY <1>3, ClientBegins
  <2>2. call \in [Threads -> ApiCalls] /\ UNCHANGED state
    BY <2>1 DEF TypeInv, CallsTyped, Begun, Begin
  <2> QED  BY <2>1, <2>2 DEF Begun, StopInv
<1>4. CASE StartRun \/ RunStep
  <2>1. \A th \in Threads : call[th].pc \in {"stop", "stop2"} =>
          state'[call[th].t] = state[call[th].t] \/ state[call[th].t] \in Ring
    <3>1. SUFFICES ASSUME NEW th \in Threads, call[th].pc \in {"stop", "stop2"},
                          run.pc = "fire", run.t = call[th].t
                   PROVE  FALSE
      BY <1>4, RunAbout, StopperOwns
    <3>2. crit = th /\ crit = TimerCpu
      BY <3>1, StopperOwns DEF CritInv, RunOwnsCrit
    <3> QED  BY <3>1, <3>2 DEF LockInv
  <2>2. UNCHANGED call
    BY <1>4, RunAbout
  <2>3. ASSUME NEW th \in Threads
        PROVE  /\ call'[th].pc = "stop" /\ call'[th].old = "PENDING_SCHEDULE"
                    => state'[call'[th].t] \in {"PENDING_SCHEDULE", "ACTIVE"}
               /\ call'[th].pc = "stop2" => state'[call'[th].t] = "ACTIVE"
    BY <2>1, <2>2, <2>3 DEF StopInv, Ring
  <2> QED  BY <2>3 DEF StopInv
<1> QED  BY <1>1, <1>2, <1>3, <1>4, StopCall DEF Next

-----------------------------------------------------------------------------
\* While a thread makes a timer active under the TM lock, nobody settles or
\* runs timers and nobody else makes one active.
LEMMA StarterAlone ==
    ASSUME TypeInv, LockInv, WalkInv, NEW th \in Threads, call[th].pc \in {"start", "insert"}
    PROVE  /\ lock = th /\ walk.pc = "none" /\ run.pc \in {"idle", "lock", "callback"}
           /\ \A u \in Threads \ {th} : ~MayLock(u) /\ call[u].pc \notin {"start", "insert"}
<1>1. lock = th /\ TimerCpu \in Threads /\ NULL \notin Threads
  BY ThreadsAssumption DEF LockInv, LockPcs
<1>2. run.pc \in {"idle", "lock", "callback"}
  BY <1>1 DEF LockInv, RunOwnsLock
<1>3. \A u \in Threads \ {th} : ~MayLock(u) /\ call[u].pc \notin LockPcs
  BY <1>1 DEF LockInv, MayLock
<1>4. walk.pc = "none"
  BY <1>2, <1>3 DEF WalkInv, Walker, LockPcs
<1> QED  BY <1>1, <1>2, <1>3, <1>4 DEF LockPcs

\* A timer that tmTimerSetOptimizedStart is about to link, if it is ACTIVE still,
\* has the expire time it is linked by.
StartInv ==
    \A th \in Threads : call[th].pc = "insert" /\ state[call[th].t] = "ACTIVE"
                          => expire[call[th].t] = call[th].e

\* An ACTIVE timer is given an expire time only by the thread that starts it.
LEMMA StartCall ==
    ASSUME TypeInv, LinkInv, StartInv, NEW th \in Threads, CallStep(th)
    PROVE  StartInv'
<1> USE DEF LinkInv
<1>1. /\ call \in [Threads -> ApiCalls] /\ state \in [Timers -> States]
      /\ expire \in [Timers -> Times]
  BY DEF TypeInv, CallsTyped, StateTyped
<1>2. PICK t \in Timers : t = call[th].t /\ About(t)
  BY CallAbout
<1>3. \A u \in Threads \ {th} : call'[u] = call[u]
  BY <1>1 DEF CallStep, TryStart, StartExpire, StartLink, SetCas, Link, SetExpire,
     Publish, StopRead, StopCas, StopFallThru, Schedule, Scheduled, Destroy, Free, Goto, Return
<1>4. ASSUME NEW u \in Threads \ {th}, call'[u].pc = "insert", state'[call'[u].t] = "ACTIVE"
      PROVE  expire'[call'[u].t] = call'[u].e
  <2>1. call'[u] = call[u] /\ call[u].pc = "insert" /\ call[u].t \in Timers
    BY <1>3, <1>4 DEF TypeInv, CallsTyped
  <2>2. ~MayLock(th) /\ call[th].pc \notin {"start", "insert"} /\ walk.pc = "none"
    BY <2>1, StarterAlone
  <2>3. CASE call[u].t # t
    BY <1>2, <1>4, <2>1, <2>3 DEF About, StartInv
  <2>4. CASE call[u].t = t
    <3>1. state[t] = "ACTIVE"
      BY <1>1, <1>2, <1>4, <2>1, <2>2, <2>4
         DEF CallStep, TryStart, StartExpire, StartLink, SetCas, Link, SetExpire,
         Publish, StopRead, StopCas, StopFallThru, Schedule, Scheduled, Destroy, Free, Cas,
         SetTarget, Published, StopTarget
    <3>2. ~SetExpire(th)
      BY <1>2, <3>1 DEF SetExpire, SetInv, Sets, Setting
    <3>3. UNCHANGED expire
      BY <2>2, <3>2 DEF CallStep, TryStart, StartExpire, StartLink, SetCas, Link,
         Publish, StopRead, StopCas, StopFallThru, Schedule, Scheduled, Destroy, Free
    <3> QED  BY <2>1, <2>4, <3>1, <3>3 DEF StartInv
  <2> QED  BY <2>3, <2>4
<1>5. call'[th].pc = "insert" => expire'[call'[th].t] = call'[th].e
  <2>1. CASE StartExpire(th)
    <3>1. call'[th].t = t /\ call'[th].e = call[th].e /\ expire'[t] = call[th].e
      BY <1>1, <1>2, <2>1 DEF StartExpire, Goto, ApiCalls
    <3> QED  BY <3>1
  <2>2. CASE ~StartExpire(th)
    <3>1. call'[th].pc # "insert"
      BY <1>1, <2>2 DEF CallStep, TryStart, StartLink, SetCas, Link, SetExpire, Publish, StopRead,
         StopCas, StopFallThru, Schedule, Scheduled, Destroy, Free, Goto, Return, Idle, ApiCalls
    <3> QED  BY <3>1
  <2> QED  BY <2>1, <2>2
<1> QED  BY <1>4, <1>5 DEF StartInv

\* The expire time a timer is linked by is its own.
LEMMA StartNext == TypeInv /\ LinkInv /\ StartInv /\ [Next]_vars => StartInv'
<1> SUFFICES ASSUME TypeInv, LinkInv, StartInv, [Next]_vars PROVE StartInv'
  OBVIOUS
<1> USE DEF LinkInv
<1>1. CASE Tick \/ Poll \/ UNCHANGED vars
  <2>1. UNCHANGED <<call, state, expire>>
    BY <1>1 DEF Tick, Poll, vars
  <2> QED  BY <2>1 DEF StartInv
<1>2. CASE Walk
  <2>1. walk.pc # "none" /\ UNCHANGED call
    BY <1>2 DEF Walk, WalkPop, WalkReread, WalkUnlink, WalkSettle, WalkInsert, WalkPostpone
  <2> QED  BY <2>1, StarterAlone DEF StartInv
<1>3. ASSUME NEW th \in Threads, Client(th) PROVE StartInv'
  <2>1. PICK t \in Timers, c \in ApiCalls : Begun(th, t, c)
    BY <1>3, ClientBegins
  <2>2. call \in [Threads -> ApiCalls] /\ UNCHANGED <<state, expire>>
    BY <2>1 DEF TypeInv, CallsTyped, Begun, Begin
  <2> QED  BY <2>1, <2>2 DEF Begun, StartInv
<1>4. CASE StartRun \/ RunStep
  <2>1. /\ UNCHANGED <<call, expire>>
        /\ \A u \in Timers : state'[u] = "ACTIVE" => state[u] = "ACTIVE"
    BY <1>4, RunAbout
  <2>2. \A th \in Threads : call[th].pc = "insert" => call[th].t \in Timers
    BY DEF TypeInv, CallsTyped
  <2> QED  BY <2>1, <2>2 DEF StartInv
<1> QED  BY <1>1, <1>2, <1>3, <1>4, StartCall DEF Next

-----------------------------------------------------------------------------
(***************************************************************************)
(* Sequences as lists that elements are put into and taken out of.         *)
(***************************************************************************)
\* The elements of a concatenation.
LEMMA ConcatSeq ==
    ASSUME NEW a \in Seq(Timers), NEW b \in Seq(Timers)
    PROVE  /\ a \o b \in Seq(Timers) /\ Len(a \o b) = Len(a) + Len(b)
           /\ \A i \in 1 .. Len(a) + Len(b) :
                (a \o b)[i] = IF i <= Len(a) THEN a[i] ELSE b[i - Len(a)]
<1>1. a \o b \in Seq(Timers) /\ Len(a \o b) = Len(a) + Len(b)
  OBVIOUS
<1>2. \A i \in 1 .. Len(a) + Len(b) :
        (a \o b)[i] = IF i <= Len(a) THEN a[i] ELSE b[i - Len(a)]
  OBVIOUS
<1> QED  BY <1>1, <1>2

\* A sequence with t put in after its first n elements.
Inserted(s, n, t) == SubSeq(s, 1, n) \o <<t>> \o SubSeq(s, n + 1, Len(s))

\* A sequence without its element at p.
Removed(s, p) == SubSeq(s, 1, p - 1) \o SubSeq(s, p + 1, Len(s))

\* Where the elements are once one is put in.
LEMMA InsertSeq ==
    ASSUME NEW t \in Timers, NEW s \in Seq(Timers), NEW n \in Nat, n <= Len(s),
           NEW r, r = Inserted(s, n, t)
    PROVE  /\ r \in Seq(Timers) /\ Len(r) = Len(s) + 1
           /\ \A i \in 1 .. n : r[i] = s[i]
           /\ r[n + 1] = t
           /\ \A i \in n + 2 .. Len(r) : r[i] = s[i - 1]
<1> DEFINE a == SubSeq(s, 1, n)
           b == SubSeq(s, n + 1, Len(s))
<1>0. Len(s) \in Nat
  OBVIOUS
<1>1. /\ a \in Seq(Timers) /\ Len(a) = n /\ \A i \in 1 .. n : a[i] = s[i]
  BY <1>0
<1>2. /\ b \in Seq(Timers) /\ Len(b) = Len(s) - n
      /\ \A i \in 1 .. Len(s) - n : b[i] = s[n + i]
  BY <1>0
<1>3. r = (a \o <<t>>) \o b
  BY DEF Inserted
<1> HIDE DEF a, b
<1> DEFINE c == a \o <<t>>
<1>4. /\ c \in Seq(Timers) /\ Len(c) = n + 1 /\ c[n + 1] = t
      /\ \A i \in 1 .. n : c[i] = s[i]
  BY <1>1
<1>5. r = c \o b
  BY <1>3
<1> HIDE DEF c
<1>6. /\ r \in Seq(Timers) /\ Len(r) = Len(s) + 1
      /\ \A i \in 1 .. n + 1 : r[i] = c[i]
      /\ \A i \in n + 2 .. Len(r) : r[i] = b[i - (n + 1)]
  <2>0. c \in Seq(Timers) /\ b \in Seq(Timers) /\ Len(c) = n + 1 /\ Len(b) = Len(s) - n
    BY <1>2, <1>4
  <2>a. c \o b \in Seq(Timers) /\ Len(c \o b) = Len(c) + Len(b)
    BY <2>0, ConcatSeq
  <2>1. r \in Seq(Timers) /\ Len(r) = Len(c) + Len(b)
    BY <1>5, <2>a, Zenon
  <2>2. \A i \in 1 .. Len(c) + Len(b) : r[i] = IF i <= Len(c) THEN c[i] ELSE b[i - Len(c)]
    BY <1>5, <2>0, ConcatSeq
  <2>3. Len(r) = Len(s) + 1
    BY <1>0, <2>0, <2>1
  <2>4. \A i \in 1 .. n + 1 : r[i] = c[i]
    BY <1>0, <2>0, <2>2
  <2>5. \A i \in n + 2 .. Len(r) : r[i] = b[i - (n + 1)]
    BY <1>0, <2>0, <2>2, <2>3
  <2> QED  BY <2>1, <2>3, <2>4, <2>5
<1>7. ASSUME NEW i \in n + 2 .. Len(r) PROVE r[i] = s[i - 1]
  <2>1. i - (n + 1) \in 1 .. Len(s) - n /\ n + (i - (n + 1)) = i - 1
    BY <1>0, <1>6
  <2> QED  BY <1>2, <1>6, <2>1
<1> QED  BY <1>0, <1>4, <1>6, <1>7

\* What is in a sequence after an insertion, and that it is in it once.
LEMMA InsertMembers ==
    ASSUME NEW t \in Timers, NEW s \in Seq(Timers), NEW n \in Nat, n <= Len(s),
           NEW r, r = Inserted(s, n, t)
    PROVE  /\ r # <<>> /\ Head(r) = IF n = 0 THEN t ELSE Head(s)
           /\ \A u : Member(u, r) <=> u = t \/ Member(u, s)
           /\ Distinct(s) /\ ~Member(t, s) => Distinct(r)
<1>1. /\ r \in Seq(Timers) /\ Len(r) = Len(s) + 1
      /\ \A i \in 1 .. n : r[i] = s[i]
      /\ r[n + 1] = t
      /\ \A i \in n + 2 .. Len(r) : r[i] = s[i - 1]
  BY InsertSeq
<1>2. Len(s) \in Nat /\ DOMAIN s = 1 .. Len(s) /\ DOMAIN r = 1 .. Len(s) + 1 /\ n \in Nat /\ n <= Len(s)
  BY <1>1
<1>3. r # <<>> /\ Head(r) = IF n = 0 THEN t ELSE Head(s)
  <2>1. r # <<>> /\ Head(r) = r[1]
    BY <1>1, <1>2
  <2>2. n # 0 => Head(s) = s[1]
    BY <1>2
  <2> QED  BY <1>1, <1>2, <2>1, <2>2
<1> DEFINE From(i) == IF i <= n THEN i ELSE i - 1
           To(j) == IF j <= n THEN j ELSE j + 1
<1>4. \A i \in DOMAIN r : i # n + 1 => From(i) \in DOMAIN s /\ r[i] = s[From(i)]
  BY <1>1, <1>2
<1>5. \A j \in DOMAIN s : To(j) \in DOMAIN r /\ To(j) # n + 1 /\ r[To(j)] = s[j]
  <2>1. \A j \in DOMAIN s : To(j) \in DOMAIN r /\ To(j) # n + 1 /\ From(To(j)) = j
    BY <1>2
  <2> HIDE DEF From, To
  <2> QED  BY <1>4, <2>1
<1>6. \A i, j \in DOMAIN r : i # n + 1 /\ j # n + 1 /\ From(i) = From(j) => i = j
  BY <1>2
<1>7. n + 1 \in DOMAIN r
  BY <1>2
<1> HIDE DEF From, To
<1>8. ASSUME NEW u PROVE Member(u, r) <=> u = t \/ Member(u, s)
  <2>1. ASSUME Member(u, r) PROVE u = t \/ Member(u, s)
    BY <1>1, <1>4, <2>1 DEF Member
  <2>2. ASSUME Member(u, s) PROVE Member(u, r)
    BY <1>5, <2>2 DEF Member
  <2>3. Member(t, r)
    BY <1>1, <1>7 DEF Member
  <2> QED  BY <2>1, <2>2, <2>3
<1>9. ASSUME Distinct(s), ~Member(t, s), NEW i \in DOMAIN r, NEW j \in DOMAIN r, r[i] = r[j]
      PROVE  i = j
  <2>1. CASE i = n + 1 \/ j = n + 1
    BY <1>1, <1>4, <1>9, <2>1 DEF Member
  <2>2. CASE i # n + 1 /\ j # n + 1
    <3>1. From(i) = From(j)
      BY <1>4, <1>9, <2>2 DEF Distinct
    <3> QED  BY <1>6, <2>2, <3>1
  <2> QED  BY <2>1, <2>2
<1>10. Distinct(s) /\ ~Member(t, s) => Distinct(r)
  BY <1>9 DEF Distinct
<1> QED  BY <1>3, <1>8, <1>10

\* Where the elements are once one is taken out.
LEMMA RemoveSeq ==
    ASSUME NEW s \in Seq(Timers), NEW p \in Nat, 1 <= p, p <= Len(s), NEW r, r = Removed(s, p)
    PROVE  /\ r \in Seq(Timers) /\ Len(r) = Len(s) - 1
           /\ \A i \in 1 .. p - 1 : r[i] = s[i]
           /\ \A i \in p .. Len(r) : r[i] = s[i + 1]
<1> DEFINE a == SubSeq(s, 1, p - 1)
           b == SubSeq(s, p + 1, Len(s))
<1>0. Len(s) \in Nat
  OBVIOUS
<1>1. /\ a \in Seq(Timers) /\ Len(a) = p - 1 /\ \A i \in 1 .. p - 1 : a[i] = s[i]
  BY <1>0
<1>2. /\ b \in Seq(Timers) /\ Len(b) = Len(s) - p
      /\ \A i \in 1 .. Len(s) - p : b[i] = s[p + i]
  BY <1>0
<1>3. r = a \o b
  BY DEF Removed
<1> HIDE DEF a, b
<1>4. /\ r \in Seq(Timers) /\ Len(r) = Len(s) - 1
      /\ \A i \in 1 .. p - 1 : r[i] = a[i]
      /\ \A i \in p .. Len(r) : r[i] = b[i - (p - 1)]
  <2>0. a \in Seq(Timers) /\ b \in Seq(Timers) /\ Len(a) = p - 1 /\ Len(b) = Len(s) - p
    BY <1>1, <1>2
  <2>1. r \in Seq(Timers) /\ Len(r) = Len(a) + Len(b)
    BY <1>3, <2>0, ConcatSeq
  <2>2. \A i \in 1 .. Len(a) + Len(b) : r[i] = IF i <= Len(a) THEN a[i] ELSE b[i - Len(a)]
    BY <1>3, <2>0, ConcatSeq
  <2>3. Len(r) = Len(s) - 1
    BY <1>0, <2>0, <2>1
  <2>4. \A i \in 1 .. p - 1 : r[i] = a[i]
    BY <1>0, <2>0, <2>2
  <2>5. \A i \in p .. Len(r) : r[i] = b[i - (p - 1)]
    BY <1>0, <2>0, <2>2, <2>3
  <2> QED  BY <2>1, <2>3, <2>4, <2>5
<1>5. ASSUME NEW i \in p .. Len(r) PROVE r[i] = s[i + 1]
  <2>1. i - (p - 1) \in 1 .. Len(s) - p /\ p + (i - (p - 1)) = i + 1
    BY <1>0, <1>4
  <2> QED  BY <1>2, <1>4, <2>1
<1> QED  BY <1>1, <1>4, <1>5

\* What is left of a sequence that held each element once.
LEMMA RemoveMembers ==
    ASSUME NEW s \in Seq(Timers), NEW p \in Nat, 1 <= p, p <= Len(s),
           NEW r, Distinct(s), r = Removed(s, p)
    PROVE  /\ p # 1 => r # <<>> /\ Head(r) = Head(s)
           /\ \A u : Member(u, r) <=> u # s[p] /\ Member(u, s)
           /\ Distinct(r)
<1>1. /\ r \in Seq(Timers) /\ Len(r) = Len(s) - 1
      /\ \A i \in 1 .. p - 1 : r[i] = s[i]
      /\ \A i \in p .. Len(r) : r[i] = s[i + 1]
  BY RemoveSeq
<1>2. Len(s) \in Nat /\ DOMAIN s = 1 .. Len(s) /\ DOMAIN r = 1 .. Len(s) - 1 /\ p \in DOMAIN s
  BY <1>1
<1>3. ASSUME p # 1 PROVE r # <<>> /\ Head(r) = Head(s)
  <2>1. 1 \in 1 .. p - 1 /\ Len(r) # 0
    BY <1>1, <1>2, <1>3
  <2>2. r # <<>> /\ Head(r) = r[1] /\ Head(s) = s[1]
    BY <1>1, <2>1
  <2> QED  BY <1>1, <2>1, <2>2
<1> DEFINE From(i) == IF i < p THEN i ELSE i + 1
           To(j) == IF j < p THEN j ELSE j - 1
<1>4. \A i \in DOMAIN r : From(i) \in DOMAIN s /\ From(i) # p /\ r[i] = s[From(i)]
  BY <1>1, <1>2
<1>5. \A j \in DOMAIN s : j # p => To(j) \in DOMAIN r /\ r[To(j)] = s[j]
  <2>1. \A j \in DOMAIN s : j # p => To(j) \in DOMAIN r /\ From(To(j)) = j
    BY <1>2
  <2> HIDE DEF From, To
  <2> QED  BY <1>4, <2>1
<1>6. \A i, j \in DOMAIN r : From(i) = From(j) => i = j
  BY <1>2
<1> HIDE DEF From, To
<1>7. ASSUME NEW u PROVE Member(u, r) <=> u # s[p] /\ Member(u, s)
  <2>1. ASSUME Member(u, r) PROVE u # s[p] /\ Member(u, s)
    <3>1. PICK i \in DOMAIN r : r[i] = u
      BY <2>1 DEF Member
    <3> QED  BY <1>2, <1>4, <3>1 DEF Member, Distinct
  <2>2. ASSUME u # s[p], Member(u, s) PROVE Member(u, r)
    <3>1. PICK j \in DOMAIN s : s[j] = u
      BY <2>2 DEF Member
    <3> QED  BY <1>5, <2>2, <3>1 DEF Member
  <2> QED  BY <2>1, <2>2
<1>8. ASSUME NEW i \in DOMAIN r, NEW j \in DOMAIN r, r[i] = r[j] PROVE i = j
  <2>1. From(i) = From(j)
    BY <1>4, <1>8 DEF Distinct
  <2> QED  BY <1>6, <2>1
<1> QED  BY <1>3, <1>7, <1>8 DEF Distinct

-----------------------------------------------------------------------------
(***************************************************************************)
(* The active list.                                                        *)
(***************************************************************************)
\* What says that t is on the active list.
OnList(t) == \/ state[t] \in Listed /\ ~Inserting(t)
             \/ run.pc = "unlink" /\ run.t = t

\* The active list holds each timer that is said to be on it, once, and no other,
\* and a timer that is about to be linked still has a state of the list.
ListInv ==
    /\ Distinct(active)
    /\ \A t \in Timers : Linked(t) <=> OnList(t)
    /\ \A t \in Timers : Inserting(t) => state[t] \in Listed

\* The cached expire time is that of the first timer, whoever owns the TM lock.
CacheInv ==
    IF active = <<>> THEN qexpire = Never
    ELSE state[Head(active)] = "ACTIVE" => qexpire = expire[Head(active)]

\* A timer is linked if it is an element of the list.
LEMMA LinkedMember == ASSUME TypeInv, NEW t \in Timers PROVE Linked(t) <=> Member(t, active)
BY DEF TypeInv, ListsTyped, Linked, Member

\* The first timer of the list is linked.
LEMMA HeadLinked ==
    ASSUME TypeInv, active # <<>>
    PROVE  Head(active) \in Timers /\ Linked(Head(active))
<1>1. active \in Seq(Timers)
  BY DEF TypeInv, ListsTyped
<1>2. Head(active) \in Timers /\ Member(Head(active), active)
  BY <1>1, PopSeq
<1> QED  BY <1>2, LinkedMember

\* A step that leaves the list alone, and what is said of it, keeps it exact; a
\* timer of the list must not become ACTIVE with another expire time.
LEMMA ListKept ==
    ASSUME TypeInv, ListInv, CacheInv, UNCHANGED <<active, qexpire>>,
           \A t \in Timers : OnList(t)' <=> OnList(t),
           \A t \in Timers : Inserting(t)' => state'[t] \in Listed,
           \A t \in Timers : OnList(t) /\ state'[t] = "ACTIVE"
                               => state[t] = "ACTIVE" /\ expire'[t] = expire[t]
    PROVE  ListInv' /\ CacheInv'
<1>1. \A t \in Timers : Linked(t)' <=> Linked(t)
  BY DEF Linked
<1>2. ListInv'
  BY <1>1 DEF ListInv, Distinct
<1>3. ASSUME active = <<>> PROVE CacheInv'
  BY <1>3 DEF CacheInv
<1>4. ASSUME active # <<>> PROVE CacheInv'
  <2>1. PICK h \in Timers : h = Head(active) /\ OnList(h)
    BY <1>4, HeadLinked DEF ListInv
  <2> QED  BY <1>4, <2>1 DEF CacheInv
<1> QED  BY <1>2, <1>3, <1>4

\* Linking a timer that is said to be on the list from then on keeps it exact.
LEMMA ListLinked ==
    ASSUME TypeInv, TypeInv', ListInv, CacheInv, NEW t \in Timers, NEW e \in Times,
           LinkActive(t, e), UNCHANGED <<state, expire>>, ~OnList(t), OnList(t)',
           \A u \in Timers \ {t} : OnList(u)' <=> OnList(u),
           \A u \in Timers : Inserting(u)' => state'[u] \in Listed,
           state[t] = "ACTIVE" => expire[t] = e
    PROVE  ListInv' /\ CacheInv'
<1> DEFINE n == Cardinality(Ahead(e))
<1>1. active \in Seq(Timers) /\ Len(active) \in Nat /\ active' \in Seq(Timers)
  BY DEF TypeInv, ListsTyped
<1>2. n \in Nat /\ n <= Len(active)
  BY <1>1, AheadBounded
<1>3. active' = Inserted(active, n, t) /\ qexpire' = IF n = 0 THEN e ELSE qexpire
  BY DEF LinkActive, Inserted
<1> HIDE DEF n
<1>4. /\ active' # <<>> /\ Head(active') = IF n = 0 THEN t ELSE Head(active)
      /\ \A u : Member(u, active') <=> u = t \/ Member(u, active)
      /\ Distinct(active) /\ ~Member(t, active) => Distinct(active')
  BY <1>1, <1>2, <1>3, InsertMembers
<1>5. \A u \in Timers : Linked(u)' <=> Member(u, active')
  BY <1>1 DEF Linked, Member
<1>6. ListInv'
  <2>1. ~Member(t, active)
    BY LinkedMember DEF ListInv
  <2>2. Distinct(active')
    BY <1>4, <2>1 DEF ListInv
  <2>3. \A u \in Timers : Linked(u)' <=> OnList(u)'
    BY <1>4, <1>5, LinkedMember DEF ListInv
  <2> QED  BY <2>2, <2>3 DEF ListInv, Distinct
<1>7. ASSUME n = 0 PROVE CacheInv'
  BY <1>3, <1>4, <1>7 DEF CacheInv
<1>8. ASSUME n # 0 PROVE CacheInv'
  <2>1. active # <<>>
    BY <1>1, <1>2, <1>8
  <2> QED  BY <1>3, <1>4, <1>8, <2>1 DEF CacheInv
<1> QED  BY <1>6, <1>7, <1>8

\* So does unlinking one that is no longer said to be on it.
LEMMA ListUnlinked ==
    ASSUME TypeInv, TypeInv', ListInv, CacheInv, NEW t \in Timers,
           UnlinkActive(t), UNCHANGED expire, OnList(t), ~OnList(t)',
           \A u \in Timers \ {t} : OnList(u)' <=> OnList(u),
           \A u \in Timers \ {t} : state'[u] = state[u],
           \A u \in Timers : Inserting(u)' => state'[u] \in Listed
    PROVE  ListInv' /\ CacheInv'
<1> DEFINE p == Place(t)
<1>1. active \in Seq(Timers) /\ Len(active) \in Nat /\ active' \in Seq(Timers)
  BY DEF TypeInv, ListsTyped
<1>2. Linked(t)
  BY DEF ListInv
<1>3. p \in 1 .. Len(active) /\ active[p] = t
  BY <1>2 DEF Linked, Place
<1>4. active' = Removed(active, p) /\ active' = Without(t)
  BY <1>2 DEF UnlinkActive, Without, Removed
<1>5. qexpire' = IF p # 1 THEN qexpire ELSE IF active' = <<>> THEN Never ELSE expire[Head(active')]
  BY <1>2, <1>4 DEF UnlinkActive, IsHead
<1> HIDE DEF p
<1>6. p \in Nat /\ 1 <= p /\ p <= Len(active) /\ Distinct(active)
  BY <1>1, <1>3 DEF ListInv
<1>7. /\ p # 1 => active' # <<>> /\ Head(active') = Head(active)
      /\ \A u : Member(u, active') <=> u # t /\ Member(u, active)
      /\ Distinct(active')
  <2>1. /\ p # 1 => active' # <<>> /\ Head(active') = Head(active)
        /\ \A u : Member(u, active') <=> u # active[p] /\ Member(u, active)
        /\ Distinct(active')
    BY <1>1, <1>4, <1>6, RemoveMembers
  <2> QED  BY <1>3, <2>1
<1>8. \A u \in Timers : Linked(u)' <=> Member(u, active')
  BY <1>1 DEF Linked, Member
<1>9. ListInv'
  <2>1. \A u \in Timers : Linked(u)' <=> OnList(u)'
    BY <1>7, <1>8, LinkedMember DEF ListInv
  <2> QED  BY <1>7, <2>1 DEF ListInv, Distinct
<1>10. active' # <<>> => Head(active') \in Timers \ {t}
  <2>1. active' # <<>> => Head(active') \in Timers /\ Member(Head(active'), active')
    BY <1>1, PopSeq
  <2> QED  BY <1>7, <2>1
<1>11. ASSUME p = 1 PROVE CacheInv'
  BY <1>5, <1>11 DEF CacheInv
<1>12. ASSUME p # 1 PROVE CacheInv'
  <2>1. active # <<>>
    BY <1>1, <1>3
  <2> QED  BY <1>5, <1>7, <1>10, <1>12, <2>1 DEF CacheInv
<1> QED  BY <1>9, <1>11, <1>12

\* The walk over the schedule list unlinks a timer in the step that moves it to a
\* state off the list, and links one after the step that makes it ACTIVE.
LEMMA ListWalk ==
    ASSUME TypeInv, TypeInv', LinkInv, ListInv, CacheInv, Walk
    PROVE  ListInv' /\ CacheInv'
<1> USE DEF LinkInv
<1>1. /\ state \in [Timers -> States] /\ walk \in Walks /\ UNCHANGED <<call, run, expire>>
      /\ walk.pc \notin {"none", "pop"} => walk.t \in Timers
  BY DEF TypeInv, StateTyped, WalkTyped, Walk
<1>2. walk.pc # "none"
  BY DEF Walk, WalkPop, WalkReread, WalkUnlink, WalkSettle, WalkInsert, WalkPostpone
<1>3. run.pc # "unlink" /\ \A th \in Threads : call[th].pc \notin {"start", "insert"}
  BY <1>2, RunAlone, StarterAlone
<1>4. /\ \A u \in Timers : Inserting(u) <=> walk.pc = "insert" /\ walk.t = u
      /\ \A u \in Timers : Inserting(u)' <=> walk'.pc = "insert" /\ walk'.t = u
  BY <1>1, <1>3 DEF Inserting
<1>5. /\ \A u \in Timers : OnList(u) <=> state[u] \in Listed /\ ~(walk.pc = "insert" /\ walk.t = u)
      /\ \A u \in Timers : OnList(u)' <=> state'[u] \in Listed /\ ~(walk'.pc = "insert" /\ walk'.t = u)
  BY <1>1, <1>3, <1>4 DEF OnList
<1>6. ASSUME UNCHANGED <<state, active, qexpire>>, walk.pc # "insert", walk'.pc # "insert"
      PROVE  ListInv' /\ CacheInv'
  BY <1>1, <1>4, <1>5, <1>6, ListKept
<1>7. Retry => walk'.pc \in {"read", "pop"}
  BY <1>1 DEF Retry, Walks
<1>8. CASE WalkPop \/ WalkReread \/ WalkPostpone
  <2>1. UNCHANGED <<state, active, qexpire>> /\ walk.pc # "insert"
    BY <1>8 DEF WalkPop, WalkReread, WalkPostpone, queue
  <2>2. walk'.pc # "insert"
    <3>1. \A s : Handler(s) # "insert"
      BY HandlerStates
    <3>2. CASE WalkPop
      BY <3>1, <3>2 DEF WalkPop
    <3>3. CASE WalkReread
      BY <1>1, <3>1, <3>3 DEF WalkReread, Walks
    <3>4. CASE WalkPostpone
      BY <1>1, <3>4 DEF WalkPostpone, WalkOn, Walks
    <3> QED  BY <1>8, <3>2, <3>3, <3>4
  <2> QED  BY <1>6, <2>1, <2>2
<1>9. CASE WalkUnlink
  <2>1. CASE state[walk.t] # walk.old
    <3>1. UNCHANGED <<state, active, qexpire>> /\ Retry
      BY <1>9, <2>1 DEF WalkUnlink, Cas
    <3> QED  BY <1>6, <1>7, <1>9, <3>1 DEF WalkUnlink
  <2>2. CASE state[walk.t] = walk.old
    <3>1. PICK t \in Timers : t = walk.t
      BY <1>1, <1>9 DEF WalkUnlink
    <3>2. /\ state[t] \in {"PENDING_RESCHEDULE", "PENDING_STOP"} /\ walk.pc = "unlink"
          /\ state' = [state EXCEPT ![t] = OffList(walk.old)] /\ UnlinkActive(t)
          /\ walk'.pc = "settle"
      BY <1>1, <1>9, <2>2, <3>1 DEF WalkUnlink, Cas, WalkInv, ReadInv, Walks
    <3>3. state'[t] \notin Listed
      BY <1>1, <3>2 DEF OffList, Listed
    <3>4. OnList(t) /\ ~OnList(t)'
      BY <1>5, <3>2, <3>3 DEF Listed
    <3>5. \A u \in Timers \ {t} : state'[u] = state[u] /\ (OnList(u)' <=> OnList(u))
      BY <1>1, <1>5, <3>2
    <3>6. \A u \in Timers : Inserting(u)' => state'[u] \in Listed
      BY <1>4, <3>2
    <3> QED  BY <1>1, <3>2, <3>4, <3>5, <3>6, ListUnlinked
  <2> QED  BY <2>1, <2>2
<1>10. CASE WalkSettle
  <2>1. PICK t \in Timers : t = walk.t
    BY <1>1, <1>10 DEF WalkSettle
  <2>2. UNCHANGED <<active, qexpire>> /\ walk.pc = "settle"
    BY <1>10 DEF WalkSettle, queue
  <2>3. CASE state[t] # walk.old
    BY <1>6, <1>7, <1>10, <2>1, <2>2, <2>3 DEF WalkSettle, Cas
  <2>4. CASE state[t] = walk.old
    <3>1. \/ /\ state[t] = "PENDING_SCHEDULE" /\ state' = [state EXCEPT ![t] = "ACTIVE"]
             /\ walk'.pc = "insert" /\ walk'.t = t
          \/ /\ state[t] = "PENDING_STOP_SCHEDULE" /\ state' = [state EXCEPT ![t] = "STOPPED"]
             /\ walk'.pc = "pop"
      BY <1>1, <1>10, <2>1, <2>4 DEF WalkSettle, Cas, WalkOn, Walks
    <3>2. ~OnList(t) /\ ~OnList(t)'
      BY <1>1, <1>5, <3>1 DEF Listed
    <3>3. \A u \in Timers \ {t} : state'[u] = state[u] /\ (OnList(u)' <=> OnList(u))
      BY <1>1, <1>5, <2>2, <3>1
    <3>4. \A u \in Timers : Inserting(u)' => state'[u] \in Listed
      BY <1>1, <1>4, <3>1 DEF Listed
    <3> QED  BY <1>1, <2>2, <3>2, <3>3, <3>4, ListKept
  <2> QED  BY <2>3, <2>4
<1>11. CASE WalkInsert
  <2>1. PICK t \in Timers : t = walk.t
    BY <1>1, <1>11 DEF WalkInsert
  <2>2. /\ LinkActive(t, expire[t]) /\ UNCHANGED <<state, expire>> /\ walk.pc = "insert"
        /\ walk'.pc = "pop" /\ expire[t] \in Times
    BY <1>1, <1>11, <2>1 DEF WalkInsert, WalkOn, Walks, TypeInv, StateTyped
  <2>3. state[t] \in Listed
    BY <1>4, <2>1, <2>2 DEF ListInv
  <2>4. ~OnList(t) /\ OnList(t)' /\ \A u \in Timers \ {t} : OnList(u)' <=> OnList(u)
    BY <1>5, <2>1, <2>2, <2>3
  <2>5. \A u \in Timers : Inserting(u)' => state'[u] \in Listed
    BY <1>4, <2>2
  <2> QED  BY <2>2, <2>4, <2>5, ListLinked
<1> QED  BY <1>8, <1>9, <1>10, <1>11 DEF Walk

-----------------------------------------------------------------------------

\* The run of the queue unlinks the timer it fires, and no other.
LEMMA ListRun ==
    ASSUME TypeInv, TypeInv', LinkInv, ListInv, CacheInv, StartRun \/ RunStep
    PROVE  ListInv' /\ CacheInv'
<1> USE DEF LinkInv
<1>1. /\ state \in [Timers -> States] /\ run \in Runs /\ UNCHANGED <<call, expire>>
      /\ run.pc \in {"crit", "fire", "unlink", "callback"} => run.t \in Timers
  BY DEF TypeInv, StateTyped, RunTyped, StartRun, RunStep
<1>2. /\ walk' = walk \/ (walk.pc # "insert" /\ walk'.pc # "insert")
  <2>1. CASE RunSchedule
    BY <2>1, NoneWalks DEF RunSchedule, TakeSchedule, NoWalk
  <2>2. CASE RunHead
    BY <2>2 DEF RunHead, WalkDone, NoWalk
  <2> QED  BY <2>1, <2>2 DEF StartRun, RunStep, RunQueues, RunLock, RunNext, RunDone, RunCrit,
              RunFire, RunUnlink, RunReturn
<1>3. \A u \in Timers : Inserting(u)' <=> Inserting(u)
  BY <1>1, <1>2 DEF Inserting
<1>4. ASSUME UNCHANGED <<state, active, qexpire>>, run.pc # "unlink", run'.pc # "unlink"
      PROVE  ListInv' /\ CacheInv'
  <2>1. \A u \in Timers : OnList(u)' <=> OnList(u)
    BY <1>3, <1>4 DEF OnList
  <2>2. \A u \in Timers : Inserting(u)' => state'[u] \in Listed
    BY <1>3, <1>4 DEF ListInv
  <2> QED  BY <1>1, <1>4, <2>1, <2>2, ListKept
<1>5. CASE StartRun \/ RunLock \/ RunSchedule \/ RunHead \/ RunNext \/ RunDone \/ RunCrit
  <2>1. run.pc # "unlink"
    BY <1>5 DEF StartRun, RunQueues, RunLock, RunSchedule, RunHead, RunNext, RunDone, RunCrit
  <2>2. run'.pc # "unlink"
    <3>1. CASE StartRun \/ RunLock \/ RunSchedule \/ RunCrit
      BY <1>1, <3>1 DEF StartRun, RunQueues, RunLock, RunSchedule, RunCrit, RunOn, Runs
    <3>2. CASE RunHead \/ RunDone
      <4>1. run' = NoRun \/ run'.pc = "loop"
        BY <3>2 DEF RunHead, RunDone, NoRun
      <4> QED  BY <4>1 DEF NoRun
    <3>3. CASE RunNext
      BY <1>1, <3>3 DEF RunNext, Runs
    <3> QED  BY <1>5, <3>1, <3>2, <3>3
  <2>3. UNCHANGED <<state, active, qexpire>>
    <3>1. CASE RunSchedule
      BY <3>1 DEF RunSchedule
    <3>2. CASE StartRun \/ RunLock \/ RunHead \/ RunNext \/ RunDone \/ RunCrit
      <4>1. UNCHANGED state /\ UNCHANGED queue
        BY <3>2 DEF StartRun, RunQueues, RunLock, RunHead, RunNext, RunDone, RunCrit
      <4> QED  BY <4>1 DEF queue
    <3> QED  BY <1>5, <3>1, <3>2
  <2> QED  BY <1>4, <2>1, <2>2, <2>3
<1>6. CASE RunFire
  <2>1. PICK t \in Timers : t = run.t
    BY <1>1, <1>6 DEF RunFire
  <2>2. UNCHANGED <<active, qexpire>> /\ run.pc = "fire"
    BY <1>6 DEF RunFire, queue
  <2>3. CASE state[t] # "ACTIVE"
    <3>1. UNCHANGED state /\ run'.pc = "loop"
      BY <1>1, <1>6, <2>1, <2>3 DEF RunFire, Cas, RunLeave, RunOn, Runs
    <3> QED  BY <1>4, <2>2, <3>1
  <2>4. CASE state[t] = "ACTIVE"
    <3>1. /\ state' = [state EXCEPT ![t] = "EXPIRED_GET_UNLINK"]
          /\ run'.pc = "unlink" /\ run'.t = t
      BY <1>1, <1>6, <2>1, <2>4 DEF RunFire, Cas, RunOn, Runs
    <3>2. ~Inserting(t)
      <4>1. walk.pc = "none" /\ \A th \in Threads : call[th].pc \notin LockPcs
        BY <2>2, RunAlone
      <4> QED  BY <4>1 DEF Inserting, LockPcs
    <3>3. OnList(t) /\ OnList(t)'
      BY <2>1, <2>4, <3>1, <3>2 DEF OnList, Listed
    <3>4. \A u \in Timers \ {t} : state'[u] = state[u] /\ (OnList(u)' <=> OnList(u))
      BY <1>1, <1>3, <2>2, <3>1 DEF OnList
    <3>5. \A u \in Timers : Inserting(u)' => state'[u] \in Listed
      BY <1>3, <3>2, <3>4 DEF ListInv
    <3>6. state'[t] # "ACTIVE"
      BY <1>1, <3>1
    <3> QED  BY <1>1, <2>2, <3>3, <3>4, <3>5, <3>6, ListKept
  <2> QED  BY <2>3, <2>4
<1>7. CASE RunUnlink
  <2>1. PICK t \in Timers : t = run.t
    BY <1>1, <1>7 DEF RunUnlink
  <2>2. /\ UnlinkActive(t) /\ run.pc = "unlink" /\ run'.pc = "callback"
        /\ state' = [state EXCEPT ![t] = "EXPIRED_DELIVER"]
    BY <1>1, <1>7, <2>1 DEF RunUnlink, RunOn, Runs
  <2>3. OnList(t) /\ ~OnList(t)'
    BY <1>1, <2>1, <2>2 DEF OnList, Listed
  <2>4. \A u \in Timers \ {t} : state'[u] = state[u] /\ (OnList(u)' <=> OnList(u))
    BY <1>1, <1>3, <2>1, <2>2 DEF OnList
  <2>5. ~Inserting(t)
    <3>1. state[t] = "EXPIRED_GET_UNLINK"
      BY <2>1, <2>2 DEF RunInv
    <3> QED  BY <3>1 DEF ListInv, Listed
  <2>6. \A u \in Timers : Inserting(u)' => state'[u] \in Listed
    BY <1>3, <2>4, <2>5 DEF ListInv
  <2> QED  BY <1>1, <2>2, <2>3, <2>4, <2>6, ListUnlinked
<1>8. CASE RunReturn
  <2>1. PICK t \in Timers : t = run.t
    BY <1>1, <1>8 DEF RunReturn
  <2>2. /\ UNCHANGED <<active, qexpire>> /\ run.pc = "callback" /\ run'.pc = "loop"
        /\ state' = [state EXCEPT ![t] = Delivered(@)]
    BY <1>1, <1>8, <2>1 DEF RunReturn, RunLeave, RunOn, Runs, queue
  <2>3. /\ \A u \in Timers : state'[u] \in Listed <=> state[u] \in Listed
        /\ \A u \in Timers : state'[u] = "ACTIVE" => state[u] = "ACTIVE"
    BY <1>1, <2>2 DEF Delivered, Listed
  <2>4. \A u \in Timers : OnList(u)' <=> OnList(u)
    BY <1>3, <2>2, <2>3 DEF OnList
  <2>5. \A u \in Timers : Inserting(u)' => state'[u] \in Listed
    BY <1>3, <2>3 DEF ListInv
  <2> QED  BY <1>1, <2>2, <2>3, <2>4, <2>5, ListKept
<1> QED  BY <1>5, <1>6, <1>7, <1>8 DEF RunStep

\* A call's step leaves the timers that it is not about where they are on the
\* active list, and changes nobody else's call.
LEMMA CallOthers ==
    ASSUME TypeInv, LinkInv, NEW th \in Threads, CallStep(th)
    PROVE  /\ call[th].t \in Timers /\ UNCHANGED run
           /\ \A v \in Threads \ {th} : call'[v] = call[v]
           /\ walk' = walk \/ (walk.pc # "insert" /\ walk'.pc # "insert")
           /\ \A u \in Timers \ {call[th].t} :
                /\ state'[u] = state[u] /\ expire'[u] = expire[u]
                /\ Inserting(u)' <=> Inserting(u)
                /\ OnList(u)' <=> OnList(u)
<1> USE DEF LinkInv
<1>1. call \in [Threads -> ApiCalls] /\ UNCHANGED run
  BY DEF TypeInv, CallsTyped, CallStep
<1>2. PICK t \in Timers : t = call[th].t /\ About(t)
  BY CallAbout
<1>3. \A v \in Threads \ {th} : call'[v] = call[v]
  BY <1>1 DEF CallStep, TryStart, StartExpire, StartLink, SetCas, Link, SetExpire,
     Publish, StopRead, StopCas, StopFallThru, Schedule, Scheduled, Destroy, Free, Goto, Return
<1>4. call'[th].t = t \/ call'[th] = Idle
  BY <1>1, <1>2 DEF CallStep, TryStart, StartExpire, StartLink, SetCas, Link, SetExpire,
     Publish, StopRead, StopCas, StopFallThru, Schedule, Scheduled, Destroy, Free, Goto, Return,
     ApiCalls
<1>5. walk' = walk \/ (walk.pc # "insert" /\ walk'.pc # "insert")
  <2>1. (TakeSchedule => walk'.pc = "pop") /\ NoWalk.pc = "none"
    BY DEF TakeSchedule, NoWalk
  <2>2. CASE Schedule(th) \/ Destroy(th)
    BY <2>1, <2>2, NoneWalks DEF Schedule, Destroy
  <2>3. CASE Scheduled(th) \/ Free(th)
    BY <2>1, <2>3 DEF Scheduled, Free, WalkDone
  <2> QED  BY <2>2, <2>3 DEF CallStep, TryStart, StartExpire, StartLink, SetCas, Link, SetExpire,
              Publish, StopRead, StopCas, StopFallThru
<1>6. ASSUME NEW u \in Timers \ {t}
      PROVE  /\ state'[u] = state[u] /\ expire'[u] = expire[u]
             /\ Inserting(u)' <=> Inserting(u)
             /\ OnList(u)' <=> OnList(u)
  <2>1. state'[u] = state[u] /\ expire'[u] = expire[u]
    BY <1>2 DEF About
  <2>2. ASSUME NEW v \in Threads
        PROVE  (call'[v].pc \in {"start", "insert"} /\ call'[v].t = u)
                 <=> (call[v].pc \in {"start", "insert"} /\ call[v].t = u)
    BY <1>2, <1>3, <1>4 DEF Idle
  <2>3. (walk'.pc = "insert" /\ walk'.t = u) <=> (walk.pc = "insert" /\ walk.t = u)
    BY <1>5
  <2>4. Inserting(u)' <=> Inserting(u)
    BY <2>2, <2>3 DEF Inserting
  <2> QED  BY <1>1, <2>1, <2>4 DEF OnList
<1> QED  BY <1>1, <1>2, <1>3, <1>5, <1>6

\* A call's step that does not touch the active list, nor what says that its
\* timer is on it, leaves the list as exact as it was.
LEMMA CallKeepsList ==
    ASSUME TypeInv, LinkInv, ListInv, CacheInv, NEW th \in Threads, CallStep(th),
           UNCHANGED <<active, qexpire>>,
           call[th].pc \notin {"start", "insert"}, call'[th].pc \notin {"start", "insert"},
           state'[call[th].t] \in Listed <=> state[call[th].t] \in Listed,
           state'[call[th].t] = "ACTIVE" => /\ state[call[th].t] = "ACTIVE"
                                            /\ expire'[call[th].t] = expire[call[th].t]
    PROVE  ListInv' /\ CacheInv'
<1>1. PICK t \in Timers : t = call[th].t
  BY CallOthers
<1>2. Inserting(t)' <=> Inserting(t)
  <2>1. ASSUME NEW v \in Threads
        PROVE  (call'[v].pc \in {"start", "insert"} /\ call'[v].t = t)
                 <=> (call[v].pc \in {"start", "insert"} /\ call[v].t = t)
    BY CallOthers
  <2>2. (walk'.pc = "insert" /\ walk'.t = t) <=> (walk.pc = "insert" /\ walk.t = t)
    BY CallOthers
  <2> QED  BY <2>1, <2>2 DEF Inserting
<1>3. OnList(t)' <=> OnList(t)
  BY <1>1, <1>2, CallOthers DEF OnList
<1>4. \A u \in Timers : OnList(u)' <=> OnList(u)
  BY <1>1, <1>3, CallOthers
<1>5. \A u \in Timers : Inserting(u)' => state'[u] \in Listed
  BY <1>1, <1>2, CallOthers DEF ListInv
<1>6. \A u \in Timers : OnList(u) /\ state'[u] = "ACTIVE"
                          => state[u] = "ACTIVE" /\ expire'[u] = expire[u]
  BY <1>1, CallOthers
<1> QED  BY <1>4, <1>5, <1>6, ListKept

\* A thread makes a timer that was on no list active, gives it its expire time,
\* and links it, all under the TM lock.
LEMMA ListStart ==
    ASSUME TypeInv, TypeInv', LinkInv, StartInv, ListInv, CacheInv,
           NEW th \in Threads, CallStep(th),
           TryStart(th) \/ StartExpire(th) \/ StartLink(th)
    PROVE  ListInv' /\ CacheInv'
<1> USE DEF LinkInv
<1>1. /\ state \in [Timers -> States] /\ call \in [Threads -> ApiCalls]
      /\ \A u \in Timers \ {call[th].t} : /\ state'[u] = state[u] /\ expire'[u] = expire[u]
                                          /\ Inserting(u)' <=> Inserting(u)
                                          /\ OnList(u)' <=> OnList(u)
      /\ UNCHANGED <<run, walk>>
  BY CallOthers DEF TypeInv, StateTyped, CallsTyped, TryStart, StartExpire, StartLink
<1>2. PICK t \in Timers : t = call[th].t
  BY CallOthers
<1>3. ASSUME call'[th].pc \in {"start", "insert"}, call'[th].t = t PROVE Inserting(t)'
  BY <1>3 DEF Inserting
<1>4. ASSUME call[th].pc \in {"start", "insert"} PROVE Inserting(t)
  BY <1>2, <1>4 DEF Inserting
<1>5. CASE TryStart(th) /\ call'[th].pc = "cas"
  <2>1. UNCHANGED <<state, expire, active, qexpire>> /\ call[th].pc = "try"
    BY <1>1, <1>5 DEF TryStart, Goto, ApiCalls, queue
  <2> QED  BY <1>2, <1>5, <2>1, CallKeepsList
<1>6. CASE TryStart(th) /\ call'[th].pc # "cas"
  <2>1. /\ state[t] = call[th].old /\ state' = [state EXCEPT ![t] = "ACTIVE"] /\ MayLock(th)
        /\ call[th].pc = "try" /\ call'[th].pc = "start" /\ call'[th].t = t
        /\ UNCHANGED <<expire, active, qexpire>>
    BY <1>1, <1>2, <1>6 DEF TryStart, Goto, ApiCalls, Cas, queue
  <2>2. state[t] \in {"EXPIRED_DELIVER", "STOPPED"}
    BY <2>1 DEF CallInv, CallOk
  <2>3. run.pc # "unlink"
    BY <2>1, RunAlone
  <2>4. Inserting(t)' /\ ~OnList(t) /\ ~OnList(t)'
    BY <1>1, <1>3, <2>1, <2>2, <2>3 DEF OnList, Listed
  <2>5. \A u \in Timers : Inserting(u)' => state'[u] \in Listed
    BY <1>1, <1>2, <2>1 DEF ListInv, Listed
  <2> QED  BY <1>1, <1>2, <2>1, <2>4, <2>5, ListKept
<1>7. CASE StartExpire(th)
  <2>1. /\ UNCHANGED <<state, active, qexpire>> /\ call[th].pc = "start"
        /\ call'[th].pc = "insert" /\ call'[th].t = t
    BY <1>1, <1>2, <1>7 DEF StartExpire, Goto, ApiCalls, queue
  <2>2. Inserting(t)' /\ Inserting(t) /\ run.pc # "unlink"
    BY <1>3, <1>4, <2>1, RunAlone DEF LockPcs
  <2>3. ~OnList(t) /\ ~OnList(t)'
    BY <1>1, <2>2 DEF OnList
  <2>4. \A u \in Timers : Inserting(u)' => state'[u] \in Listed
    BY <1>1, <1>2, <2>1, <2>2 DEF ListInv
  <2> QED  BY <1>1, <1>2, <2>1, <2>3, <2>4, ListKept
<1>8. CASE StartLink(th)
  <2>1. /\ UNCHANGED <<state, expire>> /\ call[th].pc = "insert" /\ LinkActive(t, call[th].e)
        /\ call'[th].pc = "idle" /\ call[th].e \in Times
    BY <1>1, <1>2, <1>8 DEF StartLink, Return, Idle, ApiCalls
  <2>2. Inserting(t) /\ run.pc # "unlink" /\ walk.pc = "none"
    BY <1>4, <2>1, RunAlone, StarterAlone DEF LockPcs
  <2>3. ~Inserting(t)'
    <3>1. \A v \in Threads : call'[v].pc \notin {"start", "insert"}
      BY <2>1, StarterAlone, CallOthers
    <3> QED  BY <1>1, <2>2, <3>1 DEF Inserting
  <2>4. state[t] \in Listed /\ ~OnList(t) /\ OnList(t)'
    BY <1>1, <2>1, <2>2, <2>3 DEF OnList, ListInv
  <2>5. \A u \in Timers : Inserting(u)' => state'[u] \in Listed
    BY <1>1, <1>2, <2>3 DEF ListInv
  <2>6. state[t] = "ACTIVE" => expire[t] = call[th].e
    BY <1>2, <2>1 DEF StartInv
  <2> QED  BY <1>1, <1>2, <2>1, <2>4, <2>5, <2>6, ListLinked
<1> QED  BY <1>5, <1>6, <1>7, <1>8

\* A timer is destroyed: it is unlinked if its state says that it is listed.
LEMMA ListDestroy ==
    ASSUME TypeInv, TypeInv', LinkInv, KindInv, Disciplined, ListInv, CacheInv,
           NEW th \in Threads, CallStep(th), Destroy(th)
    PROVE  ListInv' /\ CacheInv'
<1> USE DEF LinkInv
<1>1. /\ state \in [Timers -> States] /\ call \in [Threads -> ApiCalls]
      /\ \A u \in Timers \ {call[th].t} : /\ state'[u] = state[u] /\ expire'[u] = expire[u]
                                          /\ Inserting(u)' <=> Inserting(u)
                                          /\ OnList(u)' <=> OnList(u)
      /\ UNCHANGED <<run, expire>>
  BY CallOthers DEF TypeInv, StateTyped, CallsTyped, Destroy
<1>2. PICK t \in Timers : t = call[th].t
  BY CallOthers
<1>3. /\ call[th].pc = "destroy" /\ MayLock(th) /\ call[th].op = "destroy"
      /\ state' = [state EXCEPT ![t] = "DESTROY"] /\ call'[th].pc = "free"
      /\ IF fActive(state[t]) THEN UnlinkActive(t) ELSE UNCHANGED <<active, qexpire>>
  BY <1>1, <1>2 DEF Destroy, Goto, ApiCalls, CallInv, CallOk
<1>4. state[t] \notin Setting /\ state[t] \notin {"PENDING_STOP", "PENDING_STOP_SCHEDULE"}
  <2>1. t \in Mortal
    BY <1>2, <1>3 DEF KindInv
  <2> QED  BY <1>2, <1>3, <2>1, NotSetWhenAlone DEF Alone, KindInv, Disciplined
<1>5. run.pc # "unlink" /\ walk.pc = "none"
  BY <1>3, RunAlone, NoneWalks
<1>6. ~Inserting(t) /\ ~Inserting(t)'
  <2>1. \A v \in Threads : call[v].pc \in {"start", "insert"} => call[v].t # t
    BY <1>2, <1>3 DEF AloneInv
  <2>2. \A v \in Threads : call'[v].pc \in {"start", "insert"} => call'[v].t # t
    BY <1>3, <2>1, CallOthers
  <2> QED  BY <1>5, <2>1, <2>2, CallOthers DEF Inserting
<1>7. fActive(state[t]) <=> OnList(t)
  BY <1>4, <1>5, <1>6 DEF fActive, OnList, Listed, Setting
<1>8. ~OnList(t)'
  BY <1>1, <1>3, <1>5 DEF OnList, Listed
<1>9. \A u \in Timers : Inserting(u)' => state'[u] \in Listed
  BY <1>1, <1>2, <1>6 DEF ListInv
<1>10. CASE OnList(t)
  BY <1>1, <1>2, <1>3, <1>7, <1>8, <1>9, <1>10, ListUnlinked
<1>11. CASE ~OnList(t)
  <2>1. \A u \in Timers : OnList(u)' <=> OnList(u)
    BY <1>1, <1>2, <1>8, <1>11
  <2>2. \A u \in Timers : OnList(u) /\ state'[u] = "ACTIVE"
                            => state[u] = "ACTIVE" /\ expire'[u] = expire[u]
    BY <1>1, <1>2, <1>11
  <2> QED  BY <1>3, <1>7, <1>9, <1>11, <2>1, <2>2, ListKept
<1> QED  BY <1>10, <1>11

\* Every other step of a call: whatever state it gives the timer, it is one
\* that says the same of the active list.
LEMMA ListCall ==
    ASSUME TypeInv, TypeInv', LinkInv, KindInv, Disciplined, StopInv, StartInv, ListInv, CacheInv,
           NEW th \in Threads, CallStep(th)
    PROVE  ListInv' /\ CacheInv'
<1> USE DEF LinkInv
<1>1. state \in [Timers -> States] /\ expire \in [Timers -> Times] /\ call \in [Threads -> ApiCalls]
  BY DEF TypeInv, StateTyped, CallsTyped
<1>2. PICK t \in Timers : t = call[th].t
  BY CallOthers
<1>3. CASE SetCas(th)
  <2>1. /\ UNCHANGED <<active, qexpire>> /\ call[th].pc = "cas" /\ call'[th].pc \in {"link", "expire"}
        /\ state'[t] = SetTarget(state[t])
    BY <1>1, <1>2, <1>3 DEF SetCas, queue, ApiCalls
  <2>2. (SetTarget(state[t]) \in Listed <=> state[t] \in Listed) /\ SetTarget(state[t]) # "ACTIVE"
    BY DEF SetTarget, Listed
  <2> QED  BY <1>2, <2>1, <2>2, CallKeepsList
<1>4. CASE SetExpire(th)
  <2>1. /\ UNCHANGED <<state, active, qexpire>> /\ call[th].pc = "expire" /\ call'[th].pc = "publish"
    BY <1>1, <1>4 DEF SetExpire, Goto, queue, ApiCalls
  <2>2. state[t] # "ACTIVE"
    BY <1>2, <2>1 DEF SetInv, Sets, Setting
  <2> QED  BY <1>2, <2>1, <2>2, CallKeepsList
<1>5. CASE Publish(th)
  <2>1. /\ UNCHANGED <<active, qexpire>> /\ call[th].pc = "publish" /\ call'[th].pc = "schedule"
        /\ state'[t] = Published(call[th].old)
    BY <1>1, <1>2, <1>5 DEF Publish, Goto, queue, ApiCalls
  <2>2. state[t] = call[th].old /\ state[t] \in Setting
    BY <1>2, <2>1 DEF SetInv, Sets
  <2>3. (Published(state[t]) \in Listed <=> state[t] \in Listed) /\ Published(state[t]) # "ACTIVE"
    BY <2>2 DEF Published, Listed, Setting
  <2> QED  BY <1>2, <2>1, <2>2, <2>3, CallKeepsList
<1>6. CASE StopCas(th)
  <2>1. /\ UNCHANGED <<active, qexpire>> /\ call[th].pc = "stop"
        /\ call'[th].pc \in {"link", "schedule", "stop2", "read"}
        /\ call[th].old \in {"PENDING_SCHEDULE", "PENDING_RESCHEDULE", "ACTIVE"}
    BY <1>1, <1>6 DEF StopCas, Goto, queue, ApiCalls, CallInv, CallOk
  <2>2. UNCHANGED <<state, expire>> \/ (state[t] = call[th].old /\ state'[t] = StopTarget(state[t]))
    BY <1>1, <1>2, <1>6 DEF StopCas, Cas
  <2>3. \A s \in {"PENDING_SCHEDULE", "PENDING_RESCHEDULE", "ACTIVE"} :
          (StopTarget(s) \in Listed <=> s \in Listed) /\ StopTarget(s) # "ACTIVE"
    BY DEF StopTarget, Listed
  <2> QED  BY <1>2, <2>1, <2>2, <2>3, CallKeepsList
<1>7. CASE StopFallThru(th)
  <2>1. /\ UNCHANGED <<active, qexpire, expire>> /\ call[th].pc = "stop2"
        /\ call'[th].pc \in {"schedule", "read"} /\ call[th].old = "PENDING_SCHEDULE"
    BY <1>1, <1>7 DEF StopFallThru, Goto, queue, ApiCalls, CallInv, CallOk
  <2>2. UNCHANGED state
    BY <1>7, <2>1 DEF StopFallThru, Cas, StopInv
  <2> QED  BY <1>2, <2>1, <2>2, CallKeepsList
<1>8. CASE Free(th)
  <2>1. /\ UNCHANGED <<active, qexpire, expire>> /\ call[th].pc = "free" /\ call'[th].pc = "idle"
        /\ state'[t] = "FREE"
    BY <1>1, <1>2, <1>8 DEF Free, Return, Idle, queue
  <2>2. state[t] = "DESTROY"
    BY <1>2, <2>1 DEF DestroyInv, DestroyOk
  <2> QED  BY <1>2, <2>1, <2>2, CallKeepsList DEF Listed
<1>9. CASE Link(th) \/ StopRead(th) \/ Schedule(th) \/ Scheduled(th)
  <2>1. UNCHANGED <<state, expire, active, qexpire>> /\ call[th].pc \notin {"start", "insert"}
    BY <1>9 DEF Link, StopRead, Schedule, Scheduled, queue
  <2>2. call'[th].pc \notin {"start", "insert"}
    BY <1>1, <1>9 DEF Link, StopRead, Schedule, Scheduled, Goto, Return, Idle, ApiCalls
  <2> QED  BY <1>2, <2>1, <2>2, CallKeepsList
<1>10. CASE TryStart(th) \/ StartExpire(th) \/ StartLink(th)
  BY <1>10, ListStart
<1>11. CASE Destroy(th)
  BY <1>11, ListDestroy
<1> QED  BY <1>3, <1>4, <1>5, <1>6, <1>7, <1>8, <1>9, <1>10, <1>11 DEF CallStep

\* Every step keeps the active list exact and its expire time cached.
LEMMA ListNext ==
    ( /\ TypeInv /\ TypeInv' /\ LinkInv /\ KindInv /\ Disciplined /\ StopInv /\ StartInv
      /\ ListInv /\ CacheInv /\ [Next]_vars )
    => ListInv' /\ CacheInv'
<1> SUFFICES ASSUME TypeInv, TypeInv', LinkInv, KindInv, Disciplined, StopInv, StartInv,
                    ListInv, CacheInv, [Next]_vars
             PROVE  ListInv' /\ CacheInv'
  OBVIOUS
<1>1. ASSUME UNCHANGED <<state, expire, active, qexpire, walk, run>>,
             \A v \in Threads : \/ call'[v] = call[v]
                                \/ {call[v].pc, call'[v].pc} \cap {"start", "insert"} = {}
      PROVE  ListInv' /\ CacheInv'
  <2>1. \A u \in Timers : Inserting(u)' <=> Inserting(u)
    <3>1. ASSUME NEW u \in Timers, NEW v \in Threads
          PROVE  (call'[v].pc \in {"start", "insert"} /\ call'[v].t = u)
                   <=> (call[v].pc \in {"start", "insert"} /\ call[v].t = u)
      BY <1>1
    <3> QED  BY <1>1, <3>1 DEF Inserting
  <2>2. \A u \in Timers : OnList(u)' <=> OnList(u)
    BY <1>1, <2>1 DEF OnList
  <2>3. \A u \in Timers : Inserting(u)' => state'[u] \in Listed
    BY <1>1, <2>1 DEF ListInv
  <2> QED  BY <1>1, <2>2, <2>3, ListKept
<1>2. CASE Tick \/ Poll \/ UNCHANGED vars
  <2>1. UNCHANGED <<state, expire, active, qexpire, walk, run, call>>
    BY <1>2 DEF Tick, Poll, vars, queue
  <2> QED  BY <1>1, <2>1
<1>3. ASSUME NEW th \in Threads, Client(th) PROVE ListInv' /\ CacheInv'
  <2>1. PICK t \in Timers, c \in ApiCalls : Begun(th, t, c)
    BY <1>3, ClientBegins
  <2>2. call \in [Threads -> ApiCalls] /\ call[th].pc = "idle"
        /\ UNCHANGED <<state, expire, active, qexpire, walk, run>>
    BY <2>1 DEF TypeInv, CallsTyped, Begun, Begin, queue
  <2>3. \A v \in Threads : \/ call'[v] = call[v]
                           \/ {call[v].pc, call'[v].pc} \cap {"start", "insert"} = {}
    BY <2>1, <2>2 DEF Begun
  <2> QED  BY <1>1, <2>2, <2>3
<1> QED  BY <1>2, <1>3, ListWalk, ListRun, ListCall DEF Next

-----------------------------------------------------------------------------
\* All that the list's exactness rests on.
ExactInv ==
    /\ TypeInv /\ LinkInv
    /\ Disciplined /\ CritInv /\ KindInv /\ StopInv /\ StartInv
    /\ ListInv /\ CacheInv

\* Initially the active list is empty and no timer is said to be on it.
LEMMA InitExact == Disciplined /\ Init => ExactInv
<1> SUFFICES ASSUME Disciplined, Init PROVE ExactInv
  OBVIOUS
<1>1. TypeInv /\ LinkInv
  BY InitType, InitLink
<1>2. /\ \A th \in Threads : call[th] = Idle
      /\ walk = NoWalk /\ run = NoRun /\ active = <<>> /\ qexpire = Never
      /\ \A t \in Timers : state[t] = "STOPPED"
  BY DEF Init
<1>3. Idle.pc = "idle" /\ Idle.op = "none" /\ NoWalk.pc = "none" /\ NoRun.pc = "idle"
  BY DEF Idle, NoWalk, NoRun
<1>4. CritInv /\ KindInv /\ StopInv /\ StartInv
  BY <1>2, <1>3 DEF CritInv, RunOwnsCrit, KindInv, StopInv, StartInv
<1>5. ListInv /\ CacheInv
  <2>1. \A t \in Timers : ~Inserting(t) /\ ~OnList(t)
    BY <1>2, <1>3 DEF Inserting, OnList, Listed
  <2>2. \A t \in Timers : ~Linked(t)
    BY <1>2 DEF Linked
  <2> QED  BY <1>2, <2>1, <2>2 DEF ListInv, CacheInv, Distinct
<1> QED  BY <1>1, <1>4, <1>5 DEF ExactInv

\* Every step keeps all that the list's exactness rests on.
LEMMA NextExact == ExactInv /\ [Next]_vars => ExactInv'
<1> SUFFICES ASSUME ExactInv, [Next]_vars PROVE ExactInv'
  OBVIOUS
<1> USE DEF ExactInv
<1>1. TypeInv' /\ LinkInv'
  BY NextType, NextLink
<1>2. CritInv' /\ KindInv'
  BY CritNext, KindNext DEF LinkInv
<1>3. StopInv' /\ StartInv'
  BY StopNext, StartNext
<1>4. ListInv' /\ CacheInv'
  BY <1>1, ListNext
<1>5. Disciplined'
  BY DEF Disciplined
<1> QED  BY <1>1, <1>2, <1>3, <1>4, <1>5

\* The active list is exact in every reachable state.
LEMMA ExactAlways == Spec /\ Disciplined => []ExactInv
BY InitExact, NextExact, PTL DEF Spec

\* How often a timer occurs in a list that holds it at most once.
LEMMA OccursOnce ==
    ASSUME TypeInv, Distinct(active), NEW t \in Timers
    PROVE  Occurs(t, active) = IF Linked(t) THEN 1 ELSE 0
<1> DEFINE S == {i \in DOMAIN active : active[i] = t}
<1>1. DOMAIN active = 1 .. Len(active)
  BY DEF TypeInv, ListsTyped
<1>2. CASE Linked(t)
  <2>1. PICK i \in DOMAIN active : active[i] = t
    BY <1>1, <1>2 DEF Linked
  <2>2. S = {i}
    BY <2>1 DEF Distinct
  <2>3. Cardinality({i}) = 1
    BY FS_Singleton
  <2> QED  BY <1>2, <2>2, <2>3 DEF Occurs
<1>3. CASE ~Linked(t)
  <2>1. S = {}
    BY <1>1, <1>3 DEF Linked
  <2>2. Cardinality({}) = 0
    BY FS_EmptySet
  <2> QED  BY <1>3, <2>1, <2>2 DEF Occurs
<1> QED  BY <1>2, <1>3

\* The active list of the queue, which tmTimerQueueLinkActive and
\* tmTimerQueueUnlinkActive keep, holds each timer whose state says so, once, and no
\* other, whatever the threads that arm, stop and destroy timers, the scheduler and
\* the run of the queue do to each other: provided that timers that are stopped
\* have a critical section and are not destroyed.
THEOREM ActiveExactCorrect == Spec /\ Disciplined => []ActiveExact
<1>1. ExactInv => ActiveExact
  <2> SUFFICES ASSUME ExactInv, NEW t \in Timers
               PROVE  Occurs(t, active) = (IF OnList(t) THEN 1 ELSE 0)
    BY DEF ActiveExact, OnList
  <2> QED  BY OccursOnce DEF ExactInv, ListInv
<1> QED  BY <1>1, ExactAlways, PTL

\* Under the same discipline TMTIMERQUEUE.u64Expire, all that tmTimerPoll and the
\* host timer's callback look at, is that of the first active timer whenever the TM
\* lock is free, unless that timer is being set anew.
THEOREM ExpireCachedCorrect == Spec /\ Disciplined => []ExpireCached
<1>1. ExactInv => ExpireCached
  BY DEF ExactInv, CacheInv, ExpireCached
<1> QED  BY <1>1, ExactAlways, PTL

\* Under the same discipline what tmTimerQueuesSanityChecks asserts is so: whenever
\* the TM lock is free every ACTIVE timer is on the active list.
THEOREM ActiveListedCorrect == Spec /\ Disciplined => []ActiveListed
<1>1. ExactInv => ActiveListed
  <2> SUFFICES ASSUME ExactInv, lock = NULL, NEW t \in Timers, state[t] = "ACTIVE"
               PROVE  Linked(t)
    BY DEF ActiveListed
  <2>1. \A th \in Threads : call[th].pc \notin LockPcs
    BY ThreadsAssumption DEF ExactInv, LinkInv, LockInv
  <2>2. run.pc # "head"
    BY ThreadsAssumption DEF ExactInv, LinkInv, LockInv, RunOwnsLock
  <2>3. walk.pc = "none"
    BY <2>1, <2>2 DEF ExactInv, LinkInv, WalkInv, Walker, LockPcs
  <2>4. ~Inserting(t)
    BY <2>1, <2>3 DEF Inserting, LockPcs
  <2> QED  BY <2>4 DEF ExactInv, ListInv, OnList, Listed
<1> QED  BY <1>1, ExactAlways, PTL

-----------------------------------------------------------------------------
(***************************************************************************)
(* The schedule list loses nobody. A timer in a PENDING state is on the    *)
(* list, or with the walk over it, or with a thread about to push it; and  *)
(* when it waits to be scheduled, somebody is on the way to do so.         *)
(***************************************************************************)
\* The scheduler has lost three races for a timer and gives it up: the end of the
\* loop of tmTimerQueueScheduleOne.
Drops == walk.pc \in {"unlink", "settle"} /\ walk.tries = 0 /\ state[walk.t] # walk.old

\* The scheduler gives no timer up.
NeverDrops == [][Walk => ~Drops]_vars

\* What a push adds to a list.
LEMMA PushKeeps ==
    ASSUME NEW t \in Timers, NEW s \in Seq(Timers)
    PROVE  Member(t, <<t>> \o s) /\ \A u : Member(u, s) => Member(u, <<t>> \o s)
<1> DEFINE r == <<t>> \o s
<1>1. /\ r[1] = t /\ 1 \in DOMAIN r
      /\ \A i \in DOMAIN s : i + 1 \in DOMAIN r /\ r[i + 1] = s[i]
  OBVIOUS
<1> HIDE DEF r
<1>2. Member(t, r) /\ \A u : Member(u, s) => Member(u, r)
  BY <1>1 DEF Member
<1> QED  BY <1>2 DEF r

\* What a pop takes from a list.
LEMMA PopKeeps ==
    ASSUME NEW s \in Seq(Timers), s # <<>>, NEW u, Member(u, s)
    PROVE  u = Head(s) \/ Member(u, Tail(s))
<1> DEFINE r == Tail(s)
<1>1. /\ Head(s) = s[1]
      /\ \A i \in DOMAIN s : i # 1 => i - 1 \in DOMAIN r /\ r[i - 1] = s[i]
  OBVIOUS
<1> HIDE DEF r
<1>2. u = Head(s) \/ Member(u, r)
  BY <1>1 DEF Member
<1> QED  BY <1>2 DEF r

\* A step that takes no timer from its place keeps every PENDING timer in one.
LEMMA PendingKept ==
    ASSUME TypeInv, PendingScheduled,
           \A u \in Timers : state'[u] \in Pending => state[u] \in Pending \/ ~InNoPlace(u)',
           \A u \in Timers : ~InNoPlace(u) /\ state'[u] \in Pending => ~InNoPlace(u)'
    PROVE  PendingScheduled'
BY DEF PendingScheduled

\* The whole list is taken: a timer that was on it is on the part taken off.
LEMMA TakenInPlace ==
    ASSUME TypeInv, TakeSchedule, walk.pc = "none", walk.todo = <<>>,
           NEW u \in Timers, ~InNoPlace(u), ~Linking(u)
    PROVE  Taken(u)'
<1>1. Pushed(u)
  BY DEF InNoPlace, Taken, Settling
<1>2. walk'.todo = sched
  BY DEF TakeSchedule, NoWalk
<1> QED  BY <1>1, <1>2 DEF Pushed, Taken

\* The walk settles a timer, puts it back, or keeps it for another attempt, unless
\* it drops it.
LEMMA PendingWalk ==
    ASSUME TypeInv, LinkInv, PendingScheduled, Walk, ~Drops
    PROVE  PendingScheduled'
<1> USE DEF LinkInv
<1>1. /\ state \in [Timers -> States] /\ walk \in Walks /\ UNCHANGED call
      /\ sched \in Seq(Timers) /\ walk.todo \in Seq(Timers)
      /\ walk.pc \notin {"none", "pop"} => walk.t \in Timers
  BY DEF TypeInv, StateTyped, WalkTyped, ListsTyped, Walk, Walks
<1>2. \A u \in Timers : Linking(u)' <=> Linking(u)
  BY <1>1 DEF Linking, Links
<1>3. \A s \in Pending : Handler(s) \in {"unlink", "settle", "postpone"}
  BY DEF Handler, Pending, Setting
<1>4. SUFFICES ASSUME NEW u \in Timers, state'[u] \in Pending, state[u] \in Pending,
                      ~InNoPlace(u), ~Linking(u)
               PROVE  Pushed(u)' \/ Taken(u)' \/ Settling(u)'
  <2>1. \A u \in Timers : state'[u] \in Pending => state[u] \in Pending
    BY <1>1 DEF Walk, WalkPop, WalkReread, WalkUnlink, WalkSettle, WalkInsert, WalkPostpone,
       Cas, OffList, Pending, WalkInv, ReadInv
  <2> QED  BY <1>2, <1>4, <2>1, PendingKept DEF InNoPlace
<1>5. Pushed(u) \/ Taken(u) \/ Settling(u)
  BY <1>4 DEF InNoPlace
<1>6. CASE WalkPop
  <2>1. /\ walk'.t = Head(walk.todo) /\ walk'.todo = Tail(walk.todo) /\ sched' = sched
        /\ walk'.pc = Handler(state[Head(walk.todo)]) /\ walk.todo # <<>> /\ walk.pc = "pop"
    BY <1>6 DEF WalkPop, queue
  <2>2. CASE u = Head(walk.todo)
    BY <1>3, <1>4, <2>1, <2>2 DEF Settling
  <2>3. CASE u # Head(walk.todo) /\ Taken(u)
    <3>1. Member(u, Tail(walk.todo))
      BY <1>1, <2>1, <2>3, PopKeeps DEF Taken, Member
    <3> QED  BY <2>1, <3>1 DEF Taken, Member
  <2>4. CASE Pushed(u)
    BY <2>1, <2>4 DEF Pushed
  <2>5. ~Settling(u)
    BY <2>1 DEF Settling
  <2> QED  BY <1>5, <2>2, <2>3, <2>4, <2>5
<1>7. CASE WalkPostpone
  <2>1. /\ sched' = <<walk.t>> \o sched /\ walk'.todo = walk.todo /\ walk.t \in Timers
    BY <1>1, <1>7 DEF WalkPostpone, LinkSchedule, WalkOn, Walks
  <2>2. \A v : v = walk.t \/ Member(v, sched) => Member(v, sched')
    BY <1>1, <2>1, PushKeeps
  <2>3. Settling(u) \/ Pushed(u) => Pushed(u)'
    BY <2>2 DEF Settling, Pushed, Member
  <2>4. Taken(u) => Taken(u)'
    BY <2>1 DEF Taken
  <2> QED  BY <1>5, <2>3, <2>4
<1>8. CASE WalkReread \/ WalkUnlink \/ WalkSettle \/ WalkInsert
  <2>1. sched' = sched /\ walk'.todo = walk.todo /\ walk'.t = walk.t
    BY <1>1, <1>8 DEF WalkReread, WalkUnlink, WalkSettle, WalkInsert, WalkOn, Retry, Walks, queue
  <2>2. (Pushed(u) => Pushed(u)') /\ (Taken(u) => Taken(u)')
    BY <2>1 DEF Pushed, Taken
  <2>3. ASSUME Settling(u) PROVE walk'.pc \in {"read", "unlink", "settle", "postpone"}
    <3>1. walk.t = u
      BY <2>3 DEF Settling
    <3>2. CASE WalkReread
      BY <1>1, <1>3, <1>4, <3>1, <3>2 DEF WalkReread, Walks
    <3>3. Retry /\ ~(walk.tries = 0) => walk'.pc = "read"
      BY <1>1 DEF Retry, Walks, cRetries
    <3>4. CASE WalkUnlink
      BY <1>1, <3>3, <3>4 DEF WalkUnlink, Drops, Walks
    <3>5. CASE WalkSettle
      <4>1. state[walk.t] # walk.old
        BY <1>1, <1>4, <3>1, <3>5 DEF WalkSettle, Cas, Pending
      <4> QED  BY <3>3, <3>5, <4>1 DEF WalkSettle, Drops, Cas
    <3>6. CASE WalkInsert
      BY <2>3, <3>6 DEF WalkInsert, Settling
    <3> QED  BY <1>8, <3>2, <3>4, <3>5, <3>6
  <2> QED  BY <1>5, <2>1, <2>2, <2>3 DEF Settling
<1> QED  BY <1>6, <1>7, <1>8 DEF Walk

\* The walk is over: nothing is left of it.
LEMMA OverInPlace ==
    ASSUME WalkInv, WalkDone, NEW u \in Timers
    PROVE  ~Taken(u) /\ ~Settling(u)
BY DEF WalkDone, WalkInv, Taken, Settling

\* The run takes the whole list, and fires no timer in a PENDING state.
LEMMA PendingRun ==
    ASSUME TypeInv, LinkInv, PendingScheduled, StartRun \/ RunStep
    PROVE  PendingScheduled'
<1> USE DEF LinkInv
<1>1. \A u \in Timers : state'[u] \in Pending => state[u] \in Pending
  BY RunAbout DEF Ring, Pending
<1>2. \A u \in Timers : Linking(u)' <=> Linking(u)
  BY RunAbout DEF Linking, Links
<1>3. CASE TakeSchedule /\ run.pc = "schedule"
  BY <1>1, <1>2, <1>3, NoneWalks, TakenInPlace, PendingKept DEF InNoPlace
<1>4. CASE RunHead
  <2>1. \A u \in Timers : Pushed(u)' <=> Pushed(u)
    BY <1>4 DEF RunHead, queue, Pushed
  <2>2. \A u \in Timers : ~Taken(u) /\ ~Settling(u)
    BY <1>4, OverInPlace DEF RunHead
  <2> QED  BY <1>1, <1>2, <2>1, <2>2, PendingKept DEF InNoPlace
<1>5. CASE UNCHANGED <<sched, walk>>
  BY <1>1, <1>2, <1>5, PendingKept DEF InNoPlace, Pushed, Taken, Settling
<1> QED  BY <1>3, <1>4, <1>5 DEF StartRun, RunStep, RunQueues, RunLock, RunSchedule, RunNext, RunDone,
            RunCrit, RunFire, RunUnlink, RunReturn, queue

\* A call that makes a timer's state PENDING finds it in a PENDING state, or is
\* about to push it.
LEMMA PendingCall ==
    ASSUME TypeInv, LinkInv, PendingScheduled, NEW th \in Threads, CallStep(th)
    PROVE  PendingScheduled'
<1> USE DEF LinkInv
<1>1. /\ state \in [Timers -> States] /\ call \in [Threads -> ApiCalls] /\ sched \in Seq(Timers)
      /\ \A v \in Threads \ {th} : call'[v] = call[v]
  BY CallOthers DEF TypeInv, StateTyped, CallsTyped, ListsTyped
<1>2. PICK t \in Timers : t = call[th].t /\ About(t)
  BY CallAbout
\* Where the timer of the call becomes PENDING it is about to be linked.
<1>3. \A u \in Timers : state'[u] \in Pending => state[u] \in Pending \/ Linking(u)'
  <2>1. CASE SetCas(th) \/ StopCas(th)
    <3>1. state'[t] \in Pending => state[t] \in Pending \/ (call'[th].pc = "link" /\ call'[th].t = t)
      <4>1. CASE SetCas(th)
        BY <1>1, <1>2, <4>1 DEF SetCas, Unscheduled, ApiCalls
      <4>2. CASE StopCas(th)
        <5>1. call[th].old \in Pending \cup {"ACTIVE"}
          BY <2>1, <4>2 DEF StopCas, CallInv, CallOk, Pending
        <5> QED  BY <1>1, <1>2, <4>2, <5>1 DEF StopCas, Cas, Goto, ApiCalls
      <4> QED  BY <2>1, <4>1, <4>2
    <3>2. \A u \in Timers \ {t} : state'[u] = state[u]
      BY <1>2 DEF About
    <3> QED  BY <3>1, <3>2 DEF Linking, Links
  <2>2. CASE Publish(th)
    <3>1. state[t] \in Pending
      BY <1>2, <2>2 DEF Publish, SetInv, Sets, Setting, Pending
    <3> QED  BY <1>2, <3>1 DEF About
  <2>3. CASE StopFallThru(th)
    <3>1. state[t] = call[th].old => state[t] \in Pending
      BY <1>2, <2>3 DEF StopFallThru, CallInv, CallOk, Pending
    <3> QED  BY <1>1, <1>2, <2>3, <3>1 DEF StopFallThru, Cas
  <2>4. CASE ~SetCas(th) /\ ~StopCas(th) /\ ~Publish(th) /\ ~StopFallThru(th)
    BY <1>1, <1>2, <2>4 DEF CallStep, TryStart, StartExpire, StartLink, Link, SetExpire,
       StopRead, Schedule, Scheduled, Destroy, Free, Cas, Pending
  <2> QED  BY <2>1, <2>2, <2>3, <2>4
<1>4. SUFFICES ASSUME NEW u \in Timers, ~InNoPlace(u), state'[u] \in Pending PROVE ~InNoPlace(u)'
  BY <1>3, PendingKept DEF InNoPlace
<1>5. Linking(u) => Linking(u)' \/ (call[th].pc = "link" /\ u = t)
  BY <1>1, <1>2 DEF Linking, Links
<1>6. CASE Link(th)
  <2>1. sched' = <<t>> \o sched /\ UNCHANGED walk
    BY <1>2, <1>6 DEF Link, LinkSchedule
  <2>2. \A v : v = t \/ Member(v, sched) => Member(v, sched')
    BY <1>1, <2>1, PushKeeps
  <2>3. Pushed(u) \/ u = t => Pushed(u)'
    BY <2>2 DEF Pushed, Member
  <2> QED  BY <1>4, <1>5, <2>1, <2>3 DEF InNoPlace, Taken, Settling
<1>7. CASE TakeSchedule /\ MayLock(th) /\ (Schedule(th) \/ Destroy(th))
  <2>1. walk.pc = "none" /\ walk.todo = <<>>
    BY <1>7, NoneWalks DEF Schedule, Destroy, TakeSchedule, NoWalk
  <2>2. call[th].pc # "link"
    BY <1>7 DEF Schedule, Destroy
  <2> QED  BY <1>4, <1>5, <1>7, <2>1, <2>2, TakenInPlace DEF InNoPlace
<1>8. CASE Scheduled(th) \/ Free(th)
  <2>1. ~Taken(u) /\ ~Settling(u) /\ call[th].pc # "link" /\ sched' = sched
    BY <1>8, OverInPlace DEF Scheduled, Free, queue
  <2> QED  BY <1>4, <1>5, <2>1 DEF InNoPlace, Pushed
<1>9. CASE UNCHANGED <<sched, walk>> /\ call[th].pc # "link"
  BY <1>4, <1>5, <1>9 DEF InNoPlace, Pushed, Taken, Settling
<1> QED  BY <1>6, <1>7, <1>8, <1>9 DEF CallStep, TryStart, StartExpire, StartLink, SetCas, SetExpire,
            Publish, StopRead, StopCas, StopFallThru, Schedule, Destroy, queue

\* No step but a drop makes a timer in a PENDING state fall off the list.
LEMMA PendingNext ==
    TypeInv /\ LinkInv /\ PendingScheduled /\ [Next]_vars /\ (Walk => ~Drops) => PendingScheduled'
<1> SUFFICES ASSUME TypeInv, LinkInv, PendingScheduled, [Next]_vars, Walk => ~Drops
             PROVE  PendingScheduled'
  OBVIOUS
<1>1. ASSUME UNCHANGED <<state, sched, walk>>,
             \A v \in Threads : call'[v] = call[v] \/ call[v].pc = "idle"
      PROVE  PendingScheduled'
  <2>1. \A u \in Timers : Linking(u) => Linking(u)'
    BY <1>1 DEF Linking, Links
  <2> QED  BY <1>1, <2>1, PendingKept DEF InNoPlace, Pushed, Taken, Settling
<1>2. CASE Tick \/ Poll \/ UNCHANGED vars
  BY <1>1, <1>2 DEF Tick, Poll, vars, queue
<1>3. ASSUME NEW th \in Threads, Client(th) PROVE PendingScheduled'
  <2>1. PICK t \in Timers, c \in ApiCalls : Begun(th, t, c)
    BY <1>3, ClientBegins
  <2>2. call \in [Threads -> ApiCalls] /\ call[th].pc = "idle" /\ UNCHANGED <<state, sched, walk>>
    BY <2>1 DEF TypeInv, CallsTyped, Begun, Begin, queue
  <2> QED  BY <1>1, <2>1, <2>2 DEF Begun
<1> QED  BY <1>2, <1>3, PendingWalk, PendingRun, PendingCall DEF Next

-----------------------------------------------------------------------------
\* What keeps a timer that waits to be scheduled from being forgotten.
Waiting == {"PENDING_SCHEDULE", "PENDING_RESCHEDULE"}

\* A timer that is put back because it was being set, and has been set since:
\* its setter has raised the force flag, or has still to call tmSchedule.
TellInv == walk.pc = "postpone" /\ state[walk.t] \in Waiting => Telling(walk.t) \/ ff

\* A thread that is to call tmSchedule is so until it does.
LEMMA TellingKept ==
    ASSUME TypeInv, NEW th \in Threads, CallStep(th), NEW u \in Timers, Telling(u)
    PROVE  Telling(u)' \/ (Schedule(th) /\ call[th].t = u)
<1>1. /\ call \in [Threads -> ApiCalls]
      /\ \A v \in Threads \ {th} : call'[v] = call[v]
  BY DEF TypeInv, CallsTyped, CallStep, TryStart, StartExpire, StartLink, SetCas, Link, SetExpire,
     Publish, StopRead, StopCas, StopFallThru, Schedule, Scheduled, Destroy, Free, Goto, Return
<1>2. PICK v \in Threads : /\ call[v].t = u
                           /\ call[v].pc \in {"link", "expire", "publish", "schedule"}
  BY DEF Telling
<1>3. CASE v # th
  BY <1>1, <1>2, <1>3 DEF Telling
<1>4. CASE v = th
  <2>1. ~Schedule(th) => /\ call'[th].pc \in {"expire", "publish", "schedule"}
                         /\ call'[th].t = u
    BY <1>1, <1>2, <1>4 DEF CallStep, TryStart, StartExpire, StartLink, SetCas, Link, SetExpire,
       Publish, StopRead, StopCas, StopFallThru, Scheduled, Destroy, Free, Goto, ApiCalls
  <2> QED  BY <1>2, <1>4, <2>1 DEF Telling
<1> QED  BY <1>3, <1>4

\* A call makes a timer wait to be scheduled only where it is to call
\* tmSchedule next.
LEMMA WaitingBegins ==
    ASSUME TypeInv, LinkInv, NEW th \in Threads, CallStep(th), NEW u \in Timers,
           state'[u] \in Waiting
    PROVE  state[u] \in Waiting \/ Telling(u)'
<1> USE DEF LinkInv
<1>1. state \in [Timers -> States] /\ call \in [Threads -> ApiCalls]
  BY DEF TypeInv, StateTyped, CallsTyped
<1>2. PICK t \in Timers : t = call[th].t /\ About(t)
  BY CallAbout
<1>3. CASE Publish(th)
  <2>1. call'[th].pc = "schedule" /\ call'[th].t = t
    BY <1>1, <1>2, <1>3 DEF Publish, Goto, ApiCalls
  <2>2. Telling(t)'
    BY <2>1 DEF Telling
  <2> QED  BY <1>2, <2>2 DEF About
<1>4. CASE ~Publish(th)
  <2>1. state'[t] \in Waiting => state[t] \in Waiting
    BY <1>1, <1>2, <1>4 DEF CallStep, TryStart, StartExpire, StartLink, SetCas, Link, SetExpire,
       StopRead, StopCas, StopFallThru, Schedule, Scheduled, Destroy, Free, Cas, SetTarget,
       StopTarget, Waiting
  <2> QED  BY <1>2, <2>1 DEF About
<1> QED  BY <1>3, <1>4

\* tmSchedule on a thread that does not settle timers itself raises the flag.
LEMMA ScheduleTells ==
    ASSUME LinkInv, TypeInv, NEW th \in Threads, Schedule(th), state[call[th].t] \in Waiting
    PROVE  ff' \/ (MayLock(th) /\ TakeSchedule /\ walk.pc = "none" /\ walk.todo = <<>>)
<1>1. MayLock(th) => walk.pc = "none" /\ walk.todo = <<>>
  BY NoneWalks DEF LinkInv, Schedule
<1> QED  BY <1>1 DEF Schedule, Notifies, Waiting

\* Whoever has set a timer tells somebody that it has to be scheduled.
LEMMA TellNext == TypeInv /\ LinkInv /\ TellInv /\ [Next]_vars => TellInv'
<1> SUFFICES ASSUME TypeInv, LinkInv, TellInv, [Next]_vars, walk'.pc = "postpone",
                    state'[walk'.t] \in Waiting
             PROVE  Telling(walk.t)' \/ ff'
  BY DEF TellInv, Telling
<1> USE DEF LinkInv
<1>0. /\ state \in [Timers -> States] /\ walk \in Walks /\ call \in [Threads -> ApiCalls]
      /\ walk.pc \notin {"none", "pop"} => walk.t \in Timers
  BY DEF TypeInv, StateTyped, WalkTyped, CallsTyped
<1>1. ASSUME UNCHANGED walk, state[walk.t] \in Waiting, ff => ff',
             \A v \in Threads : call'[v] = call[v] \/ call[v].pc = "idle"
      PROVE  Telling(walk.t)' \/ ff'
  BY <1>1 DEF TellInv, Telling
<1>2. CASE Tick \/ Poll \/ UNCHANGED vars
  <2>1. UNCHANGED <<state, walk, call>> /\ (ff => ff')
    BY <1>2 DEF Tick, Poll, vars
  <2> QED  BY <1>1, <2>1
<1>3. CASE Walk
  <2>1. WalkPop \/ WalkReread
    BY <1>0, <1>3 DEF Walk, WalkUnlink, WalkSettle, WalkInsert, WalkPostpone, WalkOn, Retry, Walks
  <2>2. UNCHANGED state /\ walk'.pc = Handler(state[walk'.t])
    <3>1. CASE WalkPop
      BY <3>1 DEF WalkPop
    <3>2. CASE WalkReread
      BY <1>0, <3>2 DEF WalkReread, Walks
    <3> QED  BY <2>1, <3>1, <3>2
  <2>3. state[walk'.t] \in Setting
    BY <2>2, HandlerStates
  <2> QED  BY <2>2, <2>3 DEF Setting, Waiting
<1>4. ASSUME NEW th \in Threads, Client(th) PROVE Telling(walk.t)' \/ ff'
  <2>1. PICK t \in Timers, c \in ApiCalls : Begun(th, t, c)
    BY <1>4, ClientBegins
  <2>2. call[th].pc = "idle" /\ UNCHANGED <<state, walk, ff>>
    BY <2>1 DEF Begun, Begin
  <2>3. \A v \in Threads : call'[v] = call[v] \/ call[v].pc = "idle"
    BY <1>0, <2>1, <2>2 DEF Begun
  <2> QED  BY <1>1, <2>2, <2>3
<1>5. CASE StartRun \/ RunStep
  <2>1. ~RunSchedule /\ ~RunHead
    <3>1. (TakeSchedule => walk'.pc = "pop") /\ NoWalk.pc = "none"
      BY DEF TakeSchedule, NoWalk
    <3> QED  BY <3>1, NoneWalks DEF RunSchedule, RunHead
  <2>2. UNCHANGED walk
    BY <1>5, <2>1 DEF StartRun, RunStep, RunQueues, RunLock, RunSchedule, RunNext, RunDone, RunCrit,
       RunFire, RunUnlink, RunReturn
  <2>3. ~RunLock
    BY <2>2, ThreadsAssumption DEF RunLock, WalkInv, Walker, LockInv, LockPcs
  <2>4. UNCHANGED ff
    BY <1>5, <2>1, <2>3 DEF StartRun, RunStep, RunQueues, RunNext, RunDone, RunCrit,
       RunFire, RunUnlink, RunReturn
  <2>5. UNCHANGED call /\ state[walk.t] \in Waiting
    BY <1>0, <1>5, <2>2, RunAbout DEF Ring, Waiting
  <2> QED  BY <1>1, <2>2, <2>4, <2>5
<1>6. ASSUME NEW th \in Threads, CallStep(th) PROVE Telling(walk.t)' \/ ff'
  <2>1. UNCHANGED walk
    <3>1. (TakeSchedule => walk'.pc = "pop") /\ NoWalk.pc = "none"
      BY DEF TakeSchedule, NoWalk
    <3> QED  BY <1>6, <3>1 DEF CallStep, TryStart, StartExpire, StartLink, SetCas, Link, SetExpire,
                Publish, StopRead, StopCas, StopFallThru, Schedule, Scheduled, Destroy, Free
  <2>2. PICK u \in Timers : u = walk.t
    BY <1>0, <2>1
  <2>3. state[u] \in Waiting \/ Telling(u)'
    BY <1>6, <2>1, <2>2, WaitingBegins
  <2>4. ff => ff'
    BY <1>6 DEF CallStep, TryStart, StartExpire, StartLink, SetCas, Link, SetExpire,
       Publish, StopRead, StopCas, StopFallThru, Schedule, Scheduled, Destroy, Free
  <2>5. state[u] \in Waiting => Telling(u) \/ ff
    BY <2>1, <2>2 DEF TellInv
  <2>6. Schedule(th) /\ call[th].t = u /\ state[u] \in Waiting => ff'
    BY <1>6, <2>1, <2>2, ScheduleTells
  <2>7. Telling(u)' \/ ff'
    BY <1>6, <2>3, <2>4, <2>5, <2>6, TellingKept
  <2>8. Telling(walk.t)' <=> Telling(u)'
    BY <2>1, <2>2 DEF Telling
  <2> QED  BY <2>7, <2>8
<1> QED  BY <1>2, <1>3, <1>4, <1>5, <1>6 DEF Next

\* Settling a timer that waits ends with it settled, put back, or dropped.
LEMMA NotForgottenWalk ==
    ASSUME TypeInv, LinkInv, PendingScheduled', TellInv, NotForgotten, Walk
    PROVE  NotForgotten'
<1> USE DEF LinkInv
<1>1. /\ state \in [Timers -> States] /\ walk \in Walks /\ UNCHANGED <<call, ff, run>>
      /\ walk.todo \in Seq(Timers)
      /\ walk.pc \notin {"none", "pop"} => walk.t \in Timers
  BY DEF TypeInv, StateTyped, WalkTyped, Walk, Walks
<1>2. \A u \in Timers : state'[u] \in Waiting => state[u] \in Waiting
  BY <1>1 DEF Walk, WalkPop, WalkReread, WalkUnlink, WalkSettle, WalkInsert, WalkPostpone,
     Cas, OffList, Waiting, WalkInv, ReadInv
<1>3. /\ \A u \in Timers : Telling(u)' <=> Telling(u)
      /\ \A u \in Timers : Linking(u)' <=> Linking(u)
  BY <1>1 DEF Telling, Linking, Links
<1>4. SUFFICES ASSUME NEW u \in Timers, state'[u] \in Waiting, state[u] \in Waiting, Unsettled(u),
                      ~Telling(u), ~ff
               PROVE  Unsettled(u)'
  BY <1>1, <1>2, <1>3 DEF NotForgotten, Waiting
<1>5. Handler(state[u]) \in {"unlink", "settle"}
  BY <1>4, HandlerStates DEF Waiting
<1>6. CASE WalkPop
  <2>1. /\ walk'.t = Head(walk.todo) /\ walk'.todo = Tail(walk.todo)
        /\ walk'.pc = Handler(state[Head(walk.todo)]) /\ walk.todo # <<>> /\ walk.pc = "pop"
    BY <1>6 DEF WalkPop
  <2>2. Taken(u)
    BY <1>4, <2>1 DEF Unsettled, Settling
  <2>3. CASE u = Head(walk.todo)
    BY <1>5, <2>1, <2>3 DEF Unsettled, Settling
  <2>4. CASE u # Head(walk.todo)
    <3>1. Member(u, Tail(walk.todo))
      BY <1>1, <2>1, <2>2, <2>4, PopKeeps DEF Taken, Member
    <3> QED  BY <2>1, <3>1 DEF Unsettled, Taken, Member
  <2> QED  BY <2>3, <2>4
<1>7. CASE ~WalkPop
  <2>1. walk'.todo = walk.todo /\ walk'.t = walk.t
    BY <1>1, <1>7 DEF Walk, WalkReread, WalkUnlink, WalkSettle, WalkInsert, WalkPostpone, WalkOn,
       Retry, Walks
  <2>2. CASE Taken(u)
    BY <2>1, <2>2 DEF Unsettled, Taken
  <2>3. CASE Settling(u) /\ ~Taken(u)
    <3>1. walk.t = u /\ ~Pushed(u) /\ walk.pc \in {"read", "unlink", "settle", "postpone"}
      BY <2>3 DEF LinkedOnce, InOnePlace, Settling
    <3>2. walk.pc # "postpone"
      BY <1>4, <3>1 DEF TellInv
    <3>3. sched' = sched
      BY <1>7, <3>2 DEF Walk, WalkReread, WalkUnlink, WalkSettle, WalkInsert, WalkPostpone, queue
    <3>4. ~Taken(u)' /\ ~Pushed(u)' /\ ~Linking(u)'
      BY <1>3, <1>4, <2>1, <2>3, <3>1, <3>3 DEF Taken, Pushed, Linking, Links, Telling
    <3>5. ~InNoPlace(u)'
      BY <1>4 DEF PendingScheduled, Waiting, Pending
    <3> QED  BY <3>4, <3>5 DEF InNoPlace, Unsettled
  <2> QED  BY <1>4, <2>2, <2>3 DEF Unsettled
<1> QED  BY <1>6, <1>7

\* The run of the queue clears the flag before it takes the list.
LEMMA NotForgottenRun ==
    ASSUME TypeInv, LinkInv, PendingScheduled, NotForgotten, StartRun \/ RunStep
    PROVE  NotForgotten'
<1> USE DEF LinkInv
<1>1. UNCHANGED call /\ \A u \in Timers : state'[u] \in Waiting => state[u] \in Waiting
  BY RunAbout DEF Ring, Waiting
<1>2. \A u \in Timers : Telling(u)' <=> Telling(u)
  BY <1>1 DEF Telling
<1>3. CASE RunLock
  <2>1. run'.pc = "schedule"
    BY <1>3 DEF RunLock, RunOn, TypeInv, RunTyped, Runs
  <2> QED  BY <2>1 DEF NotForgotten
<1>4. SUFFICES ASSUME NEW u \in Timers, state[u] \in Waiting,
                      Telling(u) \/ Unsettled(u) \/ ff \/ run.pc = "schedule", ~RunLock
               PROVE  Telling(u) \/ Unsettled(u)' \/ ff'
  BY <1>1, <1>2, <1>3 DEF NotForgotten, Waiting
<1>5. ff' = ff
  BY <1>4 DEF StartRun, RunStep, RunQueues, RunSchedule, RunHead, RunNext, RunDone, RunCrit,
     RunFire, RunUnlink, RunReturn
<1>6. CASE RunSchedule
  <2>1. walk.pc = "none" /\ walk.todo = <<>>
    BY <1>6, NoneWalks DEF RunSchedule
  <2>2. ~InNoPlace(u)
    BY <1>4 DEF PendingScheduled, Waiting, Pending
  <2>3. Linking(u) => Telling(u)
    BY DEF Linking, Links, Telling
  <2>4. sched # <<>> \/ Linking(u)
    BY <2>1, <2>2 DEF InNoPlace, Pushed, Taken, Settling
  <2> QED  BY <1>6, <2>1, <2>2, <2>3, <2>4, TakenInPlace DEF RunSchedule, Unsettled
<1>7. CASE RunHead
  BY <1>4, <1>5, <1>7, OverInPlace DEF RunHead, Unsettled
<1>8. CASE ~RunSchedule /\ ~RunHead
  <2>1. UNCHANGED walk /\ run.pc # "schedule"
    BY <1>4, <1>8 DEF StartRun, RunStep, RunQueues, RunNext, RunDone, RunCrit, RunFire, RunUnlink,
       RunReturn
  <2> QED  BY <1>4, <1>5, <2>1 DEF Unsettled, Taken, Settling
<1> QED  BY <1>6, <1>7, <1>8

\* A call ends with the list taken or the flag raised.
LEMMA NotForgottenCall ==
    ASSUME TypeInv, LinkInv, PendingScheduled, NotForgotten, NEW th \in Threads, CallStep(th)
    PROVE  NotForgotten'
<1> USE DEF LinkInv
<1>1. UNCHANGED run
  BY DEF CallStep
<1>0. ff => ff'
  BY DEF CallStep, TryStart, StartExpire, StartLink, SetCas, Link, SetExpire,
     Publish, StopRead, StopCas, StopFallThru, Schedule, Scheduled, Destroy, Free
<1>2. SUFFICES ASSUME NEW u \in Timers, state[u] \in Waiting,
                      Telling(u) \/ Unsettled(u), ~ff'
               PROVE  Telling(u)' \/ Unsettled(u)'
  BY <1>0, <1>1, WaitingBegins DEF NotForgotten, Waiting
<1>3. CASE TakeSchedule /\ MayLock(th) /\ (Schedule(th) \/ Destroy(th))
  <2>1. walk.pc = "none" /\ walk.todo = <<>> /\ call[th].pc \in {"schedule", "destroy"}
    BY <1>3, NoneWalks DEF Schedule, Destroy
  <2>2. ~InNoPlace(u)
    BY <1>2 DEF PendingScheduled, Waiting, Pending
  <2>3. CASE Linking(u)
    <3>1. PICK v \in Threads : Links(v, u)
      BY <2>3 DEF Linking
    <3>2. call'[v] = call[v]
      BY <2>1, <3>1, CallOthers DEF Links
    <3> QED  BY <3>1, <3>2 DEF Links, Telling
  <2>4. CASE ~Linking(u)
    BY <1>3, <2>1, <2>2, <2>4, TakenInPlace DEF Unsettled
  <2> QED  BY <2>3, <2>4
<1>4. CASE Scheduled(th) \/ Free(th)
  <2>1. ~Unsettled(u) /\ ~Schedule(th)
    BY <1>4, OverInPlace DEF Scheduled, Free, Unsettled, Schedule
  <2> QED  BY <1>2, <2>1, TellingKept
<1>5. CASE UNCHANGED walk /\ ~(TakeSchedule /\ MayLock(th))
  <2>1. Schedule(th) => call[th].t # u
    BY <1>2, <1>5, ScheduleTells
  <2>2. Unsettled(u)' <=> Unsettled(u)
    BY <1>5 DEF Unsettled, Taken, Settling
  <2> QED  BY <1>2, <2>1, <2>2, TellingKept
<1>6. CASE UNCHANGED walk /\ ~Schedule(th)
  <2>1. Unsettled(u)' <=> Unsettled(u)
    BY <1>6 DEF Unsettled, Taken, Settling
  <2> QED  BY <1>2, <1>6, <2>1, TellingKept
<1> QED  BY <1>3, <1>4, <1>5, <1>6 DEF CallStep, TryStart, StartExpire, StartLink, SetCas, Link,
            SetExpire, Publish, StopRead, StopCas, StopFallThru, Schedule, Destroy

\* No step leaves a timer waiting with nobody about to schedule it.
LEMMA NotForgottenNext ==
    ( /\ TypeInv /\ LinkInv /\ PendingScheduled /\ PendingScheduled' /\ TellInv
      /\ NotForgotten /\ [Next]_vars )
    => NotForgotten'
<1> SUFFICES ASSUME TypeInv, LinkInv, PendingScheduled, PendingScheduled', TellInv,
                    NotForgotten, [Next]_vars
             PROVE  NotForgotten'
  OBVIOUS
<1>1. ASSUME UNCHANGED <<state, walk, run>>, ff => ff',
             \A v \in Threads : call'[v] = call[v] \/ call[v].pc = "idle"
      PROVE  NotForgotten'
  <2>1. \A u \in Timers : Telling(u) => Telling(u)'
    BY <1>1 DEF Telling
  <2>2. \A u \in Timers : Unsettled(u)' <=> Unsettled(u)
    BY <1>1 DEF Unsettled, Taken, Settling
  <2> QED  BY <1>1, <2>1, <2>2 DEF NotForgotten
<1>2. CASE Tick \/ Poll \/ UNCHANGED vars
  <2>1. UNCHANGED <<state, walk, run, call>> /\ (ff => ff')
    BY <1>2 DEF Tick, Poll, vars
  <2> QED  BY <1>1, <2>1
<1>3. ASSUME NEW th \in Threads, Client(th) PROVE NotForgotten'
  <2>1. PICK t \in Timers, c \in ApiCalls : Begun(th, t, c)
    BY <1>3, ClientBegins
  <2>2. call \in [Threads -> ApiCalls] /\ call[th].pc = "idle" /\ UNCHANGED <<state, walk, run, ff>>
    BY <2>1 DEF TypeInv, CallsTyped, Begun, Begin
  <2>3. \A v \in Threads : call'[v] = call[v] \/ call[v].pc = "idle"
    BY <2>1, <2>2 DEF Begun
  <2> QED  BY <1>1, <2>2, <2>3
<1> QED  BY <1>2, <1>3, NotForgottenWalk, NotForgottenRun, NotForgottenCall DEF Next

-----------------------------------------------------------------------------

\* All that the pending timers' fate rests on.
PendingInv == TypeInv /\ LinkInv /\ PendingScheduled /\ TellInv /\ NotForgotten

\* As long as no timer is dropped, none is lost and none forgotten.
LEMMA PendingAlways == Spec /\ NeverDrops => []PendingInv
<1>1. Init => PendingInv
  <2> SUFFICES ASSUME Init PROVE PendingInv
    OBVIOUS
  <2>1. TypeInv /\ LinkInv
    BY InitType, InitLink
  <2>2. \A t \in Timers : state[t] \notin Pending
    BY DEF Init, Pending
  <2>3. walk.pc = "none"
    BY DEF Init, NoWalk
  <2> QED  BY <2>1, <2>2, <2>3 DEF PendingInv, PendingScheduled, TellInv, NotForgotten, Pending
<1>2. PendingInv /\ [Next]_vars /\ [Walk => ~Drops]_vars => PendingInv'
  <2> SUFFICES ASSUME PendingInv, [Next]_vars, [Walk => ~Drops]_vars PROVE PendingInv'
    OBVIOUS
  <2>2. TypeInv' /\ LinkInv'
    BY NextType, NextLink DEF PendingInv
  <2>3. CASE Walk => ~Drops
    <3>1. PendingScheduled' /\ TellInv'
      BY <2>3, PendingNext, TellNext DEF PendingInv
    <3>2. NotForgotten'
      BY <2>3, <3>1, NotForgottenNext DEF PendingInv
    <3> QED  BY <2>2, <3>1, <3>2 DEF PendingInv
  <2>4. CASE UNCHANGED vars
    <3>1. UNCHANGED <<state, sched, ff, lock, call, walk, run>>
      BY <2>4 DEF vars, queue
    <3>2. PendingScheduled'
      BY <3>1 DEF PendingInv, PendingScheduled, InNoPlace, Pushed, Taken, Settling, Linking, Links
    <3>3. TellInv'
      BY <3>1 DEF PendingInv, TellInv, Telling
    <3>4. NotForgotten'
      BY <3>1 DEF PendingInv, NotForgotten, Telling, Unsettled, Taken, Settling
    <3> QED  BY <2>2, <3>2, <3>3, <3>4 DEF PendingInv
  <2> QED  BY <2>3, <2>4 DEF vars
<1> QED  BY <1>1, <1>2, PTL DEF Spec, NeverDrops

\* No timer in a PENDING state falls off the schedule list of
\* tmTimerQueueSchedule, where nothing would ever settle it, whatever the threads
\* that change its state do, as long as the scheduler does not lose three races for
\* it in a row: the retries of tmTimerQueueScheduleOne are the only way out.
THEOREM PendingScheduledCorrect == Spec /\ NeverDrops => []PendingScheduled
<1>1. PendingInv => PendingScheduled
  BY DEF PendingInv
<1> QED  BY <1>1, PendingAlways, PTL

\* As long as it does not, a timer that waits to be scheduled is not forgotten
\* either: the thread that set it is still to call tmSchedule, VMCPU_FF_TIMER is
\* set, or the owner of the TM lock has the timer before it.  The run of the queue
\* may clear the flag, the scheduler may put the timer back, in any order.
THEOREM NotForgottenCorrect == Spec /\ NeverDrops => []NotForgotten
<1>1. PendingInv => NotForgotten
  BY DEF PendingInv
<1> QED  BY <1>1, PendingAlways, PTL
=============================================================================
