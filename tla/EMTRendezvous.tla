--------------------------- MODULE EMTRendezvous ---------------------------
(***************************************************************************)
(* The EMT rendezvous (VMM/VMMR3/VMM.cpp): one EMT gathers all the others, *)
(* has the handler run on them in one of five ways, and returns when they  *)
(* have.  VM_FF_EMT_RENDEZVOUS calls them; event semaphores hand the turn  *)
(* on, counters tell who is the last.                                      *)
(*                                                                         *)
(* Semaphores and counters serve every rendezvous: the caller clears the   *)
(* slate under the spin lock, which it holds until the others have left.   *)
(***************************************************************************)
EXTENDS Integers, Sequences, FiniteSets, FiniteSetsExt

CONSTANTS
    cCpus,      \* the number of EMTs
    Statuses,   \* what the handler may return: 0 is VINF_SUCCESS, less is a
                \* failure, more an EM scheduling status
    MaxRounds   \* bound: how many calls of VMMR3EmtRendezvous are made

EMTs  == 0 .. cCpus - 1
Types == {"ONE_BY_ONE", "ALL_AT_ONCE", "ONCE", "ASCENDING", "DESCENDING"}
Ordered == {"ASCENDING", "DESCENDING"}
NoBody  == -1

ASSUME CpusAssumption == cCpus \in Nat /\ cCpus >= 2
ASSUME StatusesAssumption == Statuses \subseteq Int /\ 0 \in Statuses
ASSUME RoundsAssumption == MaxRounds \in Nat

VARIABLES
    lock,       \* u32RendezvousLock: who holds it, or NoBody
    ff,         \* VM_FF_EMT_RENDEZVOUS
    flags,      \* fRendezvousFlags: the type, and STOP_ON_ERROR
    status,     \* i32RendezvousStatus
    cEntered,   \* cRendezvousEmtsEntered
    cDone,      \* cRendezvousEmtsDone
    cReturned,  \* cRendezvousEmtsReturned
    oneByOne,   \* hEvtRendezvousEnterOneByOne, auto-reset
    allAtOnce,  \* hEvtMulRendezvousEnterAllAtOnce
    ordered,    \* pahEvtRendezvousEnterOrdered, auto-reset
    done,       \* hEvtMulRendezvousDone
    doneCaller, \* hEvtRendezvousDoneCaller, auto-reset
    pc,         \* what each EMT does next
    my,         \* its fFlags, whether it is the caller, cDone, its status
    rounds,     \* history: calls made
    returned    \* history: the statuses other than 0 of this rendezvous

events   == <<oneByOne, allAtOnce, ordered, done, doneCaller>>
counters == <<cEntered, cDone, cReturned>>
history  == <<rounds, returned>>
vars     == <<lock, ff, flags, status, cEntered, cDone, cReturned, oneByOne,
              allAtOnce, ordered, done, doneCaller, pc, my, rounds, returned>>

\* An EMT's locals: want are the arguments of its own call, if it calls, while
\* flags are those of the rendezvous it takes part in, as the caller or not.
Flags   == [type : Types, stop : BOOLEAN]
NoFlags == [type |-> "ONE_BY_ONE", stop |-> FALSE]
Nobody  == [want |-> NoFlags, calls |-> FALSE, flags |-> NoFlags, caller |-> FALSE,
            cDone |-> 0, rc |-> 0]

Goto(e, label) == pc' = [pc EXCEPT ![e] = label]
Type(e) == my[e].flags.type

Init ==
    /\ lock = NoBody /\ ff = FALSE /\ flags = NoFlags /\ status = 0
    /\ cEntered = 0 /\ cDone = 0 /\ cReturned = 0
    /\ oneByOne = FALSE /\ allAtOnce = FALSE /\ done = FALSE /\ doneCaller = FALSE
    /\ ordered = [e \in EMTs |-> FALSE]
    /\ pc = [e \in EMTs |-> "idle"]
    /\ my = [e \in EMTs |-> Nobody]
    /\ rounds = 0 /\ returned = <<>>

-----------------------------------------------------------------------------
(* VMMR3EmtRendezvous.                                                     *)

\* The assertion on fFlags.
MayStop(type) == type \notin {"ALL_AT_ONCE", "ONCE"}

VMMR3EmtRendezvous(e, f) ==
    /\ pc[e] = "idle"
    /\ rounds < MaxRounds
    /\ f.stop => MayStop(f.type)
    /\ rounds' = rounds + 1
    /\ my' = [my EXCEPT ![e] = [@ EXCEPT !.want = f, !.calls = TRUE]]
    /\ Goto(e, "lock")
    /\ UNCHANGED <<lock, ff, flags, status, counters, events, returned>>

\* The spin lock; who spins answers the force flag meanwhile.
TakeLock(e) ==
    /\ pc[e] = "lock"
    /\ lock = NoBody
    /\ lock' = e
    /\ Goto(e, "reset")
    /\ UNCHANGED <<ff, flags, status, counters, events, my, history>>

\* VMMR3EmtRendezvousFF, from the force flag's handling or the spin lock.
VMMR3EmtRendezvousFF(e) ==
    /\ pc[e] \in {"idle", "lock"}
    /\ ff
    /\ my' = [my EXCEPT ![e].flags = flags]
    /\ Goto(e, "enter")
    /\ UNCHANGED <<lock, ff, flags, status, counters, events, history>>

\* "Clear the slate": all semaphores, then counters, status and arguments.
ResetEvents(e) ==
    /\ pc[e] = "reset"
    /\ oneByOne' = FALSE /\ allAtOnce' = FALSE /\ done' = FALSE /\ doneCaller' = FALSE
    /\ ordered' = [i \in EMTs |-> FALSE]
    /\ Goto(e, "slate")
    /\ UNCHANGED <<lock, ff, flags, status, counters, my, history>>

ClearSlate(e) ==
    /\ pc[e] = "slate"
    /\ cEntered' = 0 /\ cDone' = 0 /\ cReturned' = 0
    /\ status' = 0
    /\ flags' = my[e].want
    /\ my' = [my EXCEPT ![e] = [@ EXCEPT !.flags = my[e].want, !.caller = TRUE]]
    /\ Goto(e, "raise")
    /\ UNCHANGED <<lock, ff, events, history>>

Raise(e) ==
    /\ pc[e] = "raise"
    /\ ff' = TRUE
    /\ Goto(e, "enter")
    /\ UNCHANGED <<lock, flags, status, counters, events, my, history>>

\* Mutant: the caller does not wait for the others to return.
CallerGoesOn(e) ==
    /\ pc[e] = "caller"
    /\ done
    /\ doneCaller' = FALSE
    /\ Goto(e, "result")
    /\ UNCHANGED <<lock, ff, flags, status, counters, oneByOne, allAtOnce, ordered,
                   done, my, history>>

\* After vmmR3EmtRendezvousCommon: wait for the others, take the status.
CallerWakes(e) ==
    /\ pc[e] = "caller"
    /\ doneCaller
    /\ doneCaller' = FALSE
    /\ Goto(e, "result")
    /\ UNCHANGED <<lock, ff, flags, status, counters, oneByOne, allAtOnce, ordered,
                   done, my, history>>

Result(e) ==
    /\ pc[e] = "result"
    /\ my' = [my EXCEPT ![e].rc = status]
    /\ Goto(e, "unlock")
    /\ UNCHANGED <<lock, ff, flags, status, counters, events, history>>

Unlock(e) ==
    /\ pc[e] = "unlock"
    /\ lock' = NoBody
    /\ my' = [my EXCEPT ![e] = Nobody]
    /\ returned' = <<>>
    /\ Goto(e, "idle")
    /\ UNCHANGED <<ff, flags, status, counters, events, rounds>>

-----------------------------------------------------------------------------
(* vmmR3EmtRendezvousCommon.                                               *)

\* The last to enter goes on.  The others await their turn, but where the last
\* one runs the handler for all they await its end.
Enter(e) ==
    /\ pc[e] = "enter"
    /\ cEntered' = cEntered + 1
    /\ Goto(e, IF cEntered' = cCpus THEN "last"
               ELSE IF Type(e) # "ONCE" THEN "turn"
               ELSE IF my[e].caller THEN "caller" ELSE "done")
    /\ UNCHANGED <<lock, ff, flags, status, cDone, cReturned, events, my, history>>

\* All the others wait: nobody can tell the force flag's clearing from the
\* signals that follow it.
First(e)   == IF Type(e) = "ASCENDING" THEN 0 ELSE cCpus - 1
IsFirst(e) == Type(e) \in Ordered => e = First(e)

\* Mutant: the force flag is left set.
LastKeepsFF(e) ==
    /\ pc[e] = "last"
    /\ allAtOnce' = (allAtOnce \/ Type(e) = "ALL_AT_ONCE")
    /\ IF IsFirst(e)
       THEN Goto(e, "handler") /\ UNCHANGED ordered
       ELSE Goto(e, "turn") /\ ordered' = [ordered EXCEPT ![First(e)] = TRUE]
    /\ UNCHANGED <<lock, ff, flags, status, counters, oneByOne, done, doneCaller, my, history>>

Last(e) ==
    /\ pc[e] = "last"
    /\ ff' = FALSE
    /\ allAtOnce' = (allAtOnce \/ Type(e) = "ALL_AT_ONCE")
    /\ IF IsFirst(e)
       THEN Goto(e, "handler") /\ UNCHANGED ordered
       ELSE Goto(e, "turn") /\ ordered' = [ordered EXCEPT ![First(e)] = TRUE]
    /\ UNCHANGED <<lock, flags, status, counters, oneByOne, done, doneCaller, my, history>>

TakeTurn(e) ==
    /\ pc[e] = "turn"
    /\ \/ Type(e) = "ONE_BY_ONE" /\ oneByOne
       \/ Type(e) = "ALL_AT_ONCE" /\ allAtOnce
       \/ Type(e) \in Ordered /\ ordered[e]
    /\ oneByOne' = (oneByOne /\ Type(e) # "ONE_BY_ONE")
    /\ ordered' = IF Type(e) \in Ordered THEN [ordered EXCEPT ![e] = FALSE] ELSE ordered
    /\ Goto(e, "handler")
    /\ UNCHANGED <<lock, ff, flags, status, counters, allAtOnce, done, doneCaller, my, history>>

\* VMMEMTRENDEZVOUS_FLAGS_STOP_ON_ERROR.
Stopped(e) == my[e].flags.stop /\ status < 0

CallHandler(e) ==
    /\ pc[e] = "handler"
    /\ Goto(e, IF Stopped(e) THEN "over" ELSE "inside")
    /\ UNCHANGED <<lock, ff, flags, status, counters, events, my, history>>

\* Mutant: a failure is replaced by another of a lower number.
KeepsLowest(old, rc) == old # 0 /\ rc >= old

\* The loop of the exchange that merges the status.
Keeps(old, rc) == rc = old \/ old < 0 \/ (old # 0 /\ rc > old)

HandlerReturns(e, rc) ==
    /\ pc[e] = "inside"
    /\ status' = IF rc = 0 \/ Keeps(status, rc) THEN status ELSE rc
    /\ returned' = IF rc = 0 THEN returned ELSE Append(returned, rc)
    /\ Goto(e, "finished")
    /\ UNCHANGED <<lock, ff, flags, counters, events, my, rounds>>

WasLast(e) == cDone + 1 = cCpus \/ Type(e) = "ONCE"

CountDone(e) ==
    /\ pc[e] \in {"over", "finished"}
    /\ cDone' = cDone + 1
    /\ my' = [my EXCEPT ![e].cDone = IF WasLast(e) THEN 0 ELSE cDone']
    /\ Goto(e, IF WasLast(e) THEN "tell" ELSE "next")
    /\ UNCHANGED <<lock, ff, flags, status, cEntered, cReturned, events, history>>

\* Mutant: descending, the one that is done is signalled instead of the next.
SuccessorItself(e) == IF Type(e) = "ASCENDING" THEN e + 1 ELSE cCpus - my[e].cDone

\* Hand the turn on.
Successor(e) == IF Type(e) = "ASCENDING" THEN e + 1 ELSE cCpus - my[e].cDone - 1

SignalNext(e) ==
    /\ pc[e] = "next"
    /\ oneByOne' = (oneByOne \/ Type(e) = "ONE_BY_ONE")
    /\ ordered' = IF Type(e) \in Ordered THEN [ordered EXCEPT ![Successor(e)] = TRUE]
                                         ELSE ordered
    /\ my' = [my EXCEPT ![e].cDone = 0]
    /\ Goto(e, IF my[e].caller THEN "caller" ELSE "done")
    /\ UNCHANGED <<lock, ff, flags, status, counters, allAtOnce, done, doneCaller, history>>

\* "Callback execution is all done, tell the rest to return."
TellDone(e) ==
    /\ pc[e] = "tell"
    /\ done' = TRUE
    /\ Goto(e, IF my[e].caller THEN "caller" ELSE "leave")
    /\ UNCHANGED <<lock, ff, flags, status, counters, oneByOne, allAtOnce, ordered,
                   doneCaller, my, history>>

AwaitDone(e) ==
    /\ pc[e] = "done"
    /\ done
    /\ Goto(e, "leave")
    /\ UNCHANGED <<lock, ff, flags, status, counters, events, my, history>>

-----------------------------------------------------------------------------
(* vmmR3EmtRendezvousNonCallerReturn.  An EMT that answered the force flag *)
(* in its own call spins on, the others are back in their execution loop.  *)

Back(e) == /\ Goto(e, IF my[e].calls THEN "lock" ELSE "idle")
           /\ my' = [my EXCEPT ![e] = [Nobody EXCEPT !.want = my[e].want, !.calls = my[e].calls]]

\* "No failures will be returned here, those are for the caller only."
NonCallerStatus(rcRet) == IF rcRet < 0 THEN 0 ELSE rcRet

ReadStatus(e) ==
    /\ pc[e] = "leave"
    /\ my' = [my EXCEPT ![e].rc = NonCallerStatus(status)]
    /\ Goto(e, "return")
    /\ UNCHANGED <<lock, ff, flags, status, counters, events, history>>

CountReturn(e) ==
    /\ pc[e] = "return"
    /\ cReturned' = cReturned + 1
    /\ IF cReturned' = cCpus - 1 THEN Goto(e, "wake") /\ UNCHANGED my ELSE Back(e)
    /\ UNCHANGED <<lock, ff, flags, status, cEntered, cDone, events, history>>

WakeCaller(e) ==
    /\ pc[e] = "wake"
    /\ doneCaller' = TRUE
    /\ Back(e)
    /\ UNCHANGED <<lock, ff, flags, status, counters, oneByOne, allAtOnce, ordered,
                   done, history>>

-----------------------------------------------------------------------------
Calling(e) == TakeLock(e) \/ ResetEvents(e) \/ ClearSlate(e) \/ Raise(e)
              \/ CallerWakes(e) \/ Result(e) \/ Unlock(e)

TakingPart(e) ==
    \/ VMMR3EmtRendezvousFF(e) \/ Enter(e) \/ Last(e) \/ TakeTurn(e)
    \/ CallHandler(e) \/ (\E rc \in Statuses : HandlerReturns(e, rc))
    \/ CountDone(e) \/ SignalNext(e) \/ TellDone(e) \/ AwaitDone(e)
    \/ ReadStatus(e) \/ CountReturn(e) \/ WakeCaller(e)

Step(e) == Calling(e) \/ TakingPart(e)

Next == \E e \in EMTs : Step(e) \/ \E f \in Flags : VMMR3EmtRendezvous(e, f)

Spec == Init /\ [][Next]_vars

\* EMTs poll the force flag between instructions, and handlers return: as long
\* as some EMT can go on, one does.
FairSpec == Spec /\ WF_vars(\E e \in EMTs : Step(e))

-----------------------------------------------------------------------------
(* Properties.                                                             *)

AwayPcs    == {"idle", "lock", "reset", "slate", "raise", "enter", "wake"}
HerePcs    == {"last", "turn", "handler", "over"}
InsidePcs  == {"inside", "finished"}
WaitPcs    == {"caller", "done"}
ThroughPcs == {"next", "tell", "leave", "return", "result", "unlock"}
Pcs == AwayPcs \cup HerePcs \cup InsidePcs \cup WaitPcs \cup ThroughPcs

Rets == Statuses \cup {0}

TypeOK ==
    /\ lock \in EMTs \cup {NoBody} /\ ff \in BOOLEAN
    /\ flags \in Flags /\ status \in Rets
    /\ cEntered \in 0 .. cCpus /\ cDone \in 0 .. cCpus /\ cReturned \in 0 .. cCpus - 1
    /\ oneByOne \in BOOLEAN /\ allAtOnce \in BOOLEAN /\ done \in BOOLEAN
    /\ doneCaller \in BOOLEAN /\ ordered \in [EMTs -> BOOLEAN]
    /\ pc \in [EMTs -> Pcs]
    /\ my \in [EMTs -> [want : Flags, calls : BOOLEAN, flags : Flags, caller : BOOLEAN,
                        cDone : 0 .. cCpus, rc : Rets]]
    /\ rounds \in 0 .. MaxRounds
    /\ returned \in Seq(Statuses)

\* The EMTs gather: a handler runs only while all are there, on one at a time
\* and in order where that was asked for, once; nobody leaves before all are
\* through, and no EMT of one rendezvous meets the slate of the next.
Place(e) == IF pc[e] \in AwayPcs THEN "away"
            ELSE IF pc[e] \in HerePcs \/ (pc[e] \in WaitPcs /\ Type(e) = "ONCE" /\ cDone = 0)
                 THEN "here"
            ELSE IF pc[e] \in InsidePcs THEN "inside" ELSE "through"

Places == [e \in EMTs |-> Place(e)]

G == INSTANCE Gathering WITH place <- Places, manner <- flags.type
ImplementsGathering == G!Spec

\* "This will be the first error, VINF_SUCCESS, or an EM scheduling status
\* code", the one of the highest priority, the lowest, among those.
FirstError == returned[Min({i \in DOMAIN returned : returned[i] < 0})]
Outcome ==
    IF \E i \in DOMAIN returned : returned[i] < 0 THEN FirstError
    ELSE IF returned = <<>> THEN 0
    ELSE Min({returned[i] : i \in DOMAIN returned})

\* The caller returns from a rendezvous with the outcome of that one, a failure
\* too, and so does every other EMT but that a failure is success for it,
\* whatever has been begun since.
OutcomeAgreed == \A e \in EMTs :
    /\ pc[e] = "unlock" => my[e].rc = Outcome
    /\ pc[e] \in {"return", "wake"} => my[e].rc = IF Outcome < 0 THEN 0 ELSE Outcome

\* The types, and the assertions of the code: the force flag is not pending when the lock has
\* been taken, and the turns of an ordered rendezvous count the EMTs.
Assertions ==
    /\ TypeOK
    /\ \A e \in EMTs :
        /\ pc[e] \in {"reset", "slate", "raise"} => ~ff
        /\ pc[e] = "next" /\ Type(e) = "ASCENDING"  => my[e].cDone = e + 1
        /\ pc[e] = "next" /\ Type(e) = "DESCENDING" => cCpus - my[e].cDone = e

\* Every call returns, also those that wait for the lock while they take part
\* in the rendezvous of others: the EMTs do not wait for each other for ever.
AllReturn == (\E e \in EMTs : pc[e] # "idle") ~> (\A e \in EMTs : pc[e] = "idle")
=============================================================================
