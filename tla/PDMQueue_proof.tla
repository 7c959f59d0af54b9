--------------------------- MODULE PDMQueue_proof ---------------------------
(***************************************************************************)
(* Proofs about PDMQueue, for every number of threads, queues, items and   *)
(* inserts.  The ACTIVE bit is a lock: one thread at most is past setting  *)
(* it, and the EMT that runs the timers flushes the other queues, so no    *)
(* two ever flush the same one.  For the PENDING bit the invariant says of *)
(* every list who knows of it: what was pushed since the bit was cleared   *)
(* has a teller, what was there before has the walk coming.  The queues  *)
(* implement mailboxes because every item is in one place at a time.       *)
(***************************************************************************)
EXTENDS PDMQueue, TLAPS, FiniteSetTheorems

-----------------------------------------------------------------------------
(* Lists.                                                                  *)

LEMMA ElementsAre == \A S : \A s \in Seq(S) : ToSet(s) = {s[i] : i \in 1 .. Len(s)} /\ ToSet(s) \subseteq S
BY DEF ToSet

LEMMA EmptyIs == ToSet(<<>>) = {}
BY DEF ToSet

LEMMA JoinIs ==
    ASSUME NEW S, NEW s \in Seq(S), NEW u \in Seq(S)
    PROVE  s \o u \in Seq(S) /\ ToSet(s \o u) = ToSet(s) \cup ToSet(u)
<1> DEFINE w == s \o u
<1>1. /\ w \in Seq(S) /\ Len(w) = Len(s) + Len(u) /\ Len(s) \in Nat /\ Len(u) \in Nat
      /\ \A i \in 1 .. Len(s) : w[i] = s[i]
      /\ \A i \in 1 .. Len(u) : w[Len(s) + i] = u[i]
  OBVIOUS
<1> HIDE DEF w
<1>2. /\ ToSet(w) = {w[i] : i \in 1 .. Len(w)} /\ ToSet(s) = {s[i] : i \in 1 .. Len(s)}
      /\ ToSet(u) = {u[i] : i \in 1 .. Len(u)}
  BY <1>1, ElementsAre
<1>3. ASSUME NEW i \in 1 .. Len(w) PROVE w[i] \in ToSet(s) \cup ToSet(u)
  <2>1. CASE i \in 1 .. Len(s)
    BY <1>1, <1>2, <2>1
  <2>2. CASE i \notin 1 .. Len(s)
    <3> DEFINE a == Len(s)  b == Len(u)
    <3>1. a \in Nat /\ b \in Nat /\ i \in 1 .. a + b /\ i \notin 1 .. a
      BY <1>1, <2>2
    <3> HIDE DEF a, b
    <3>2. i - a \in 1 .. b /\ i = a + (i - a)
      BY <3>1
    <3>3. w[i] = u[i - a] /\ i - a \in 1 .. Len(u)
      BY <1>1, <3>2 DEF a, b
    <3> QED  BY <1>2, <3>3
  <2> QED  BY <2>1, <2>2
<1>4. ASSUME NEW i \in 1 .. Len(s) PROVE s[i] \in ToSet(w)
  <2>1. i \in 1 .. Len(w) /\ w[i] = s[i]
    BY <1>1
  <2> QED  BY <1>2, <2>1
<1>5. ASSUME NEW i \in 1 .. Len(u) PROVE u[i] \in ToSet(w)
  <2>1. Len(s) + i \in 1 .. Len(w) /\ w[Len(s) + i] = u[i]
    BY <1>1
  <2> QED  BY <1>2, <2>1
<1>6. ToSet(w) = ToSet(s) \cup ToSet(u)
  BY <1>2, <1>3, <1>4, <1>5
<1> QED  BY <1>1, <1>6 DEF w

LEMMA PushIs ==
    ASSUME NEW S, NEW s \in Seq(S), NEW x \in S
    PROVE  /\ <<x>> \o s \in Seq(S) /\ <<x>> \o s # <<>>
           /\ ToSet(<<x>> \o s) = {x} \cup ToSet(s)
<1> DEFINE o == <<x>>
<1>1. o \in Seq(S) /\ Len(o) = 1 /\ o[1] = x
  OBVIOUS
<1>2. o \o s # <<>>
  OBVIOUS
<1> HIDE DEF o
<1>3. ToSet(o) = {o[i] : i \in 1 .. Len(o)}
  BY <1>1, ElementsAre
<1>4. ToSet(o) = {x}
  BY <1>1, <1>3
<1>5. o \o s \in Seq(S) /\ ToSet(o \o s) = {x} \cup ToSet(s)
  BY <1>1, <1>4, JoinIs
<1> QED  BY <1>2, <1>5 DEF o

LEMMA ReverseIs ==
    ASSUME NEW S, NEW s \in Seq(S)
    PROVE  Reverse(s) \in Seq(S) /\ ToSet(Reverse(s)) = ToSet(s)
<1> DEFINE n == Len(s)
           r == Reverse(s)
<1>1. n \in Nat /\ \A i \in 1 .. n : s[i] \in S
  OBVIOUS
<1>2. r = [i \in 1 .. n |-> s[(n - i) + 1]]
  BY DEF Reverse
<1>3. \A i \in 1 .. n : (n - i) + 1 \in 1 .. n
  BY <1>1
<1>4. r \in [1 .. n -> S]
  BY <1>1, <1>2, <1>3
<1>5. r \in Seq(S) /\ Len(r) = n
  <2> HIDE DEF r, n
  <2> QED  BY <1>1, <1>4
<1>6. ToSet(r) = {r[i] : i \in 1 .. n} /\ ToSet(s) = {s[i] : i \in 1 .. n}
  BY <1>5, ElementsAre
<1>7. \A i \in 1 .. n : r[i] = s[(n - i) + 1] /\ s[i] = r[(n - i) + 1]
  <2> SUFFICES ASSUME NEW i \in 1 .. n PROVE r[i] = s[(n - i) + 1] /\ s[i] = r[(n - i) + 1]
    OBVIOUS
  <2>1. (n - i) + 1 \in 1 .. n /\ (n - ((n - i) + 1)) + 1 = i
    <3> HIDE DEF n
    <3> QED  BY <1>1
  <2> QED  BY <1>2, <2>1
<1> HIDE DEF n, r
<1>8. ASSUME NEW i \in 1 .. n PROVE r[i] \in ToSet(s) /\ s[i] \in ToSet(r)
  BY <1>3, <1>6, <1>7
<1>9. ToSet(r) = ToSet(s)
  BY <1>6, <1>8
<1> QED  BY <1>5, <1>9 DEF r

-----------------------------------------------------------------------------
(* The calls of the threads.                                               *)

Indices == 1 .. cForced + cTimed + 1

Calls == [pc : Pcs, q : Indices, c : Contexts, i : Slots, item : Items \cup {None},
          list : Seq(Items)]

LEMMA Constants ==
    /\ EMTs \subseteq Threads /\ Inserters \subseteq Threads /\ TimerEMT \in EMTs
    /\ cForced \in Nat /\ cTimed \in Nat /\ cItems \in Nat \ {0} /\ Slack \in Nat \ {0}
    /\ Forced \subseteq Queues /\ Queues \subseteq Indices /\ Queues \subseteq Nat
    /\ Forced = 1 .. cForced /\ None \notin Items
    /\ 0 \in Slots /\ 1 \in Indices /\ "R3" \in Contexts
BY ThreadsAssumption, QueuesAssumption, SlotsAssumption DEF Forced, Queues, Indices, Slots, Contexts, Items

LEMMA IdleIs == Idle \in Calls
<1>1. <<>> \in Seq(Items)
  OBVIOUS
<1> QED  BY <1>1, Constants DEF Idle, Calls, Pcs

\* A thread's call is replaced.
LEMMA Moves ==
    ASSUME TypeOK, NEW t \in Threads, NEW r \in Calls, call' = [call EXCEPT ![t] = r]
    PROVE  /\ call' \in [Threads -> Calls] /\ call'[t] = r
           /\ \A u \in Threads : u # t => call'[u] = call[u]
BY DEF TypeOK, Calls, Indices

LEMMA CallIs == TypeOK => call \in [Threads -> Calls]
BY DEF TypeOK, Calls, Indices

\* Only the label of a call changes.
LEMMA GotoIs ==
    ASSUME TypeOK, NEW t \in Threads, NEW label \in Pcs, Goto(t, label)
    PROVE  /\ call' \in [Threads -> Calls]
           /\ \A u \in Threads : u # t => call'[u] = call[u]
           /\ call'[t].pc = label /\ call'[t].q = call[t].q /\ call'[t].c = call[t].c
           /\ call'[t].i = call[t].i /\ call'[t].item = call[t].item /\ call'[t].list = call[t].list
<1> DEFINE r == [call[t] EXCEPT !.pc = label]
<1>1. call[t] \in Calls
  BY CallIs
<1>2. /\ r \in Calls /\ r.pc = label /\ r.q = call[t].q /\ r.c = call[t].c /\ r.i = call[t].i
      /\ r.item = call[t].item /\ r.list = call[t].list
  BY <1>1 DEF Calls
<1>3. call' = [call EXCEPT ![t] = r]
  BY DEF Goto
<1> QED  BY <1>2, <1>3, Moves

LEMMA FlushIs ==
    ASSUME TypeOK, NEW t \in Threads, NEW label \in Pcs, NEW l \in Seq(Items), Flush(t, label, l)
    PROVE  /\ call' \in [Threads -> Calls]
           /\ \A u \in Threads : u # t => call'[u] = call[u]
           /\ call'[t].pc = label /\ call'[t].q = call[t].q /\ call'[t].list = l
<1> DEFINE r == [call[t] EXCEPT !.pc = label, !.list = l]
<1>1. call[t] \in Calls
  BY CallIs
<1>2. r \in Calls /\ r.pc = label /\ r.q = call[t].q /\ r.list = l
  BY <1>1 DEF Calls
<1>3. call' = [call EXCEPT ![t] = r]
  BY DEF Flush
<1> QED  BY <1>2, <1>3, Moves

LEMMA ReturnIs ==
    ASSUME TypeOK, NEW t \in Threads, Return(t)
    PROVE  /\ call' \in [Threads -> Calls] /\ call'[t].pc = "idle"
           /\ \A u \in Threads : u # t => call'[u] = call[u]
<1>1. call'[t] = Idle /\ call' \in [Threads -> Calls] /\ \A u \in Threads : u # t => call'[u] = call[u]
  BY IdleIs, Moves DEF Return
<1> QED  BY <1>1 DEF Idle

\* One list of a queue is replaced.
LEMMA PendingIs ==
    ASSUME TypeOK, NEW q \in Queues, NEW c \in Contexts, NEW l \in Seq(Items),
           pending' = [pending EXCEPT ![q][c] = l]
    PROVE  /\ pending' \in [Queues -> [Contexts -> Seq(Items)]]
           /\ pending'[q][c] = l
           /\ \A p \in Queues, d \in Contexts : p # q \/ d # c => pending'[p][d] = pending[p][d]
<1>1. pending \in [Queues -> [Contexts -> Seq(Items)]]
  BY DEF TypeOK
<1> QED  BY <1>1

-----------------------------------------------------------------------------
(* The first invariant: who may flush, and what a ring holds.              *)

\* A ring whose index has not come round yet has empty slots at its end.
Fresh(q) == \E i \in Slots : slot[q][i] = None

RingFilled(q) ==
    Fresh(q) => /\ iFreeTail[q] <= iFreeHead[q]
                /\ \A i \in Slots : i < iFreeHead[q] => slot[q][i] \in Items

\* Who allocates has read an item, and read it where there was one.
HasItem(t) == call[t].pc \in {"alloc", "push"} => call[t].q \in Queues /\ call[t].item \in Items

ReadInTime(t) == At(t, "alloc") /\ Fresh(call[t].q) => call[t].i < iFreeHead[call[t].q]

\* The EMT that has set the ACTIVE bit, until it clears it.
Active(t) == \/ call[t].pc \in {"clearbit", "walk", "inactive"}
             \/ call[t].pc \in FlushPcs /\ call[t].q \in Forced

FlushControl(t) ==
    /\ call[t].pc \in FlushPcs => call[t].q \in Queues /\ (call[t].q \in Forced \/ t = TimerEMT)
    /\ At(t, "take") => HasPending(call[t].q)
    /\ Active(t) => active

Control(t) == HasItem(t) /\ ReadInTime(t) /\ FlushControl(t)

Alone == \A t, u \in Threads : Active(t) /\ Active(u) => t = u

FlushInv ==
    /\ TypeOK
    /\ \A q \in Queues : RingFilled(q)
    /\ \A t \in Threads : Control(t)
    /\ Alone

-----------------------------------------------------------------------------
(* What a step of one thread leaves of it.                                 *)

\* The threads that do not take the step.
LEMMA OthersControl ==
    ASSUME FlushInv, NEW t \in Threads, NEW u \in Threads, u # t, call'[u] = call[u],
           \A q \in Queues : Fresh(q)' => Fresh(q) /\ iFreeHead[q] <= iFreeHead'[q],
           iFreeHead \in [Queues -> Nat], iFreeHead' \in [Queues -> Nat], call[u].i \in Nat,
           active /\ ~active' => Active(t),
           At(u, "take") /\ HasPending(call[u].q) => HasPending(call[u].q)'
    PROVE  Control(u)' /\ (Active(u)' <=> Active(u))
<1>1. Control(u) /\ Alone
  BY DEF FlushInv
<1>2. Active(u)' <=> Active(u)
  BY DEF Active
<1>3. HasItem(u)'
  BY <1>1 DEF Control, HasItem
<1>4. ReadInTime(u)'
  <2> SUFFICES ASSUME At(u, "alloc"), Fresh(call[u].q)'
               PROVE  call[u].i < iFreeHead'[call[u].q]
    BY DEF ReadInTime, At
  <2> DEFINE q == call[u].q
             i == call[u].i
  <2>1. q \in Queues
    BY <1>1 DEF Control, HasItem, At
  <2>2. Fresh(q)' => Fresh(q) /\ iFreeHead[q] <= iFreeHead'[q]
    BY <2>1
  <2>3. Fresh(q)'
    BY DEF Fresh
  <2>4. i < iFreeHead[q]
    BY <1>1, <2>2, <2>3 DEF Control, ReadInTime
  <2>5. iFreeHead[q] \in Nat /\ iFreeHead'[q] \in Nat /\ i \in Nat /\ iFreeHead[q] <= iFreeHead'[q]
    BY <2>1, <2>2, <2>3
  <2> HIDE DEF q, i
  <2>6. i < iFreeHead'[q]
    BY <2>4, <2>5
  <2> QED  BY <2>6 DEF q, i
<1>5. FlushControl(u)'
  <2>1. FlushControl(u)
    BY <1>1 DEF Control
  <2>2. Active(u)' => active'
    BY <1>1, <1>2, <2>1 DEF FlushControl, Alone
  <2>3. At(u, "take")' => HasPending(call[u].q)'
    BY <2>1 DEF FlushControl, At
  <2>4. (call[u].pc \in FlushPcs => call[u].q \in Queues /\ (call[u].q \in Forced \/ u = TimerEMT))'
    BY <2>1 DEF FlushControl
  <2> QED  BY <2>2, <2>3, <2>4 DEF FlushControl
<1> QED  BY <1>2, <1>3, <1>4, <1>5 DEF Control

LEMMA Types ==
    TypeOK => /\ iFreeHead \in [Queues -> Nat] /\ iFreeTail \in [Queues -> Nat]
              /\ \A t \in Threads : call[t].i \in Nat /\ call[t].q \in Nat /\ call[t] \in Calls
<1> SUFFICES ASSUME TypeOK
             PROVE  /\ iFreeHead \in [Queues -> Nat] /\ iFreeTail \in [Queues -> Nat]
                    /\ \A t \in Threads : call[t].i \in Nat /\ call[t].q \in Nat /\ call[t] \in Calls
  OBVIOUS
<1>1. Slots \subseteq Nat /\ Indices \subseteq Nat
  BY Constants DEF Slots, Indices
<1>2. iFreeHead \in [Queues -> Slots] /\ iFreeTail \in [Queues -> Slots] /\ call \in [Threads -> Calls]
  BY CallIs DEF TypeOK
<1>3. \A t \in Threads : call[t].i \in Slots /\ call[t].q \in Indices
  BY <1>2 DEF Calls
<1> QED  BY <1>1, <1>2, <1>3

LEMMA Kept ==
    ASSUME FlushInv, NEW t \in Threads, TypeOK',
           \A u \in Threads : u # t => call'[u] = call[u],
           \A q \in Queues : RingFilled(q)',
           \A q \in Queues : Fresh(q)' => Fresh(q) /\ iFreeHead[q] <= iFreeHead'[q],
           active /\ ~active' => Active(t),
           \A u \in Threads : u # t /\ At(u, "take") /\ HasPending(call[u].q) => HasPending(call[u].q)',
           Control(t)',
           Active(t)' => Active(t) \/ ~active
    PROVE  FlushInv'
<1>1. TypeOK /\ Alone /\ \A u \in Threads : Control(u)
  BY DEF FlushInv
<1>2. iFreeHead \in [Queues -> Nat] /\ iFreeHead' \in [Queues -> Nat] /\ \A u \in Threads : call[u].i \in Nat
  <2>1. (iFreeHead \in [Queues -> Nat])'
    BY Types, PTL
  <2> QED  BY <1>1, <2>1, Types
<1>3. ASSUME NEW u \in Threads, u # t PROVE Control(u)' /\ (Active(u)' <=> Active(u))
  BY <1>2, <1>3, OthersControl
<1>4. Alone'
  <2> SUFFICES ASSUME NEW u \in Threads, NEW v \in Threads, Active(u)', Active(v)' PROVE u = v
    BY DEF Alone
  <2>1. CASE u = t /\ v = t
    BY <2>1
  <2>2. CASE u # t /\ v # t
    BY <1>1, <1>3, <2>2 DEF Alone
  <2>3. ASSUME NEW w \in Threads, w # t, Active(w)', Active(t)' PROVE FALSE
    <3>1. Active(w)
      BY <1>3, <2>3
    <3>2. active
      BY <1>1, <3>1 DEF Control, FlushControl
    <3>3. Active(t)
      BY <2>3, <3>2
    <3> QED  BY <1>1, <2>3, <3>1, <3>3 DEF Alone
  <2> QED  BY <2>1, <2>2, <2>3
<1> QED  BY <1>3, <1>4 DEF FlushInv

LEMMA RingSame ==
    ASSUME FlushInv, UNCHANGED ring
    PROVE  /\ \A q \in Queues : RingFilled(q)'
           /\ \A q \in Queues : Fresh(q)' => Fresh(q) /\ iFreeHead[q] <= iFreeHead'[q]
<1>1. slot' = slot /\ iFreeHead' = iFreeHead /\ iFreeTail' = iFreeTail
  BY DEF ring
<1>2. \A q \in Queues : RingFilled(q)
  BY DEF FlushInv
<1>3. iFreeHead \in [Queues -> Nat]
  BY Types DEF FlushInv
<1>4. \A q \in Queues : Fresh(q)' <=> Fresh(q)
  BY <1>1 DEF Fresh
<1>5. \A q \in Queues : iFreeHead[q] <= iFreeHead'[q]
  BY <1>1, <1>3
<1>6. \A q \in Queues : RingFilled(q)'
  BY <1>1, <1>2, <1>4 DEF RingFilled
<1> QED  BY <1>4, <1>5, <1>6

\* A step that changes only the calls and the flags.
LEMMA FlagsOnly ==
    ASSUME FlushInv, NEW t \in Threads, UNCHANGED <<ring, pending, from, refused, inserts>>,
           call' \in [Threads -> Calls], ff' \in BOOLEAN, active' \in BOOLEAN, bit' \in BOOLEAN,
           \A u \in Threads : u # t => call'[u] = call[u],
           active /\ ~active' => Active(t),
           Control(t)',
           Active(t)' => Active(t) \/ ~active
    PROVE  FlushInv'
<1>1. TypeOK
  BY DEF FlushInv
<1>2. slot' = slot /\ iFreeHead' = iFreeHead /\ iFreeTail' = iFreeTail /\ UNCHANGED ring
  BY DEF ring
<1>3. pending' = pending /\ from' = from /\ refused' = refused /\ inserts' = inserts
  OBVIOUS
<1>4. TypeOK'
  BY <1>1, <1>2, <1>3 DEF TypeOK, Calls, Indices
<1>5. \A u \in Threads : u # t /\ HasPending(call[u].q) => HasPending(call[u].q)'
  BY <1>3 DEF HasPending
<1> QED  BY <1>2, <1>4, <1>5, RingSame, Kept

\* A thread that neither allocates, nor flushes, nor is active.
LEMMA Plain ==
    ASSUME NEW t \in Threads,
           call'[t].pc \in {"idle", "ff", "bit", "clearff", "activate", "testbit", "testff"}
    PROVE  Control(t)' /\ ~Active(t)'
BY DEF Control, HasItem, ReadInTime, FlushControl, Active, At, FlushPcs

\* One that is at the flags, with the ACTIVE bit its own.
LEMMA PlainActive ==
    ASSUME NEW t \in Threads, call'[t].pc \in {"clearbit", "walk", "inactive"}, active'
    PROVE  Control(t)'
BY DEF Control, HasItem, ReadInTime, FlushControl, Active, At, FlushPcs

\* One that allocates.
LEMMA Allocates ==
    ASSUME NEW t \in Threads, call'[t].pc \in {"alloc", "push"},
           call'[t].q \in Queues, call'[t].item \in Items, ReadInTime(t)'
    PROVE  Control(t)' /\ ~Active(t)'
BY DEF Control, HasItem, FlushControl, Active, At, FlushPcs

\* One that flushes.
LEMMA Flushes ==
    ASSUME NEW t \in Threads, call'[t].pc \in FlushPcs, call'[t].q \in Queues,
           call'[t].q \in Forced \/ t = TimerEMT,
           At(t, "take")' => HasPending(call[t].q)',
           call'[t].q \in Forced => active'
    PROVE  Control(t)'
BY DEF Control, HasItem, ReadInTime, FlushControl, Active, At, FlushPcs

-----------------------------------------------------------------------------
(* The steps that change only the calls and the flags.                     *)

FlagsSame == UNCHANGED <<ring, pending, flags, from, refused, inserts>>

LEMMA CallOnly ==
    ASSUME FlushInv, NEW t \in Threads, FlagsSame, call' \in [Threads -> Calls],
           \A u \in Threads : u # t => call'[u] = call[u],
           Control(t)', Active(t)' => Active(t) \/ ~active
    PROVE  FlushInv'
<1>1. UNCHANGED <<ring, pending, from, refused, inserts>>
  BY DEF FlagsSame
<1>2. ff' = ff /\ active' = active /\ bit' = bit
  BY DEF FlagsSame, flags
<1>3. ff' \in BOOLEAN /\ active' \in BOOLEAN /\ bit' \in BOOLEAN
  BY <1>2 DEF FlushInv, TypeOK
<1> QED  BY <1>1, <1>2, <1>3, FlagsOnly

LEMMA ReadIs ==
    ASSUME FlushInv, NEW t \in Threads, NEW q \in Queues, NEW c \in Contexts,
           ~Exhausted(q), Read(t, q, c)
    PROVE  /\ call' \in [Threads -> Calls]
           /\ \A u \in Threads : u # t => call'[u] = call[u]
           /\ call'[t].pc = "alloc" /\ call'[t].q = q /\ call'[t].i = iFreeTail[q]
           /\ call'[t].item \in Items
           /\ Fresh(q) => call'[t].i < iFreeHead[q]
<1> DEFINE i == iFreeTail[q]
           r == [call[t] EXCEPT !.pc = "alloc", !.q = q, !.c = c, !.i = i, !.item = slot[q][i]]
<1>1. TypeOK /\ RingFilled(q) /\ call[t] \in Calls
  BY CallIs DEF FlushInv
<1>2. i \in Slots /\ iFreeHead[q] \in Slots /\ slot[q][i] \in Items \cup {None} /\ iFreeHead[q] # i
  BY <1>1 DEF TypeOK, Exhausted
<1>3. Slots \subseteq Nat
  BY DEF Slots
<1>4. Fresh(q) => i < iFreeHead[q]
  <2> DEFINE h == iFreeHead[q]
  <2>1. i \in Nat /\ h \in Nat /\ i # h
    BY <1>2, <1>3
  <2>2. Fresh(q) => i <= h
    BY <1>1 DEF RingFilled
  <2> HIDE DEF i, h
  <2>3. i <= h => i < h
    BY <2>1
  <2> QED  BY <2>2, <2>3 DEF h
<1>5. slot[q][i] \in Items
  <2>1. CASE Fresh(q)
    BY <1>1, <1>2, <1>4, <2>1 DEF RingFilled
  <2>2. CASE ~Fresh(q)
    BY <1>2, <2>2 DEF Fresh
  <2> QED  BY <2>1, <2>2
<1>6. "alloc" \in Pcs /\ q \in Indices
  BY Constants DEF Pcs
<1>7. /\ r \in Calls /\ r.pc = "alloc" /\ r.q = q /\ r.i = i /\ r.item = slot[q][i]
  BY <1>1, <1>2, <1>5, <1>6 DEF Calls
<1>8. call' = [call EXCEPT ![t] = r]
  BY DEF Read
<1> HIDE DEF r
<1> QED  BY <1>1, <1>4, <1>5, <1>7, <1>8, Moves

LEMMA ReadKeeps ==
    ASSUME FlushInv, NEW t \in Threads, NEW q \in Queues, NEW c \in Contexts,
           ~Exhausted(q), Read(t, q, c), FlagsSame
    PROVE  FlushInv'
<1>1. /\ call' \in [Threads -> Calls]
      /\ \A u \in Threads : u # t => call'[u] = call[u]
      /\ call'[t].pc = "alloc" /\ call'[t].q = q /\ call'[t].i = iFreeTail[q]
      /\ call'[t].item \in Items
      /\ Fresh(q) => call'[t].i < iFreeHead[q]
  BY ReadIs
<1>2. slot' = slot /\ iFreeHead' = iFreeHead
  BY DEF FlagsSame, ring
<1>3. ReadInTime(t)'
  BY <1>1, <1>2 DEF ReadInTime, Fresh
<1>4. Control(t)' /\ ~Active(t)'
  BY <1>1, <1>3, Allocates
<1> QED  BY <1>1, <1>4, CallOnly

LEMMA AllocStep ==
    ASSUME FlushInv, NEW t \in Threads, NEW q \in Queues, NEW c \in Contexts, PDMQueueAlloc(t, q, c)
    PROVE  FlushInv'
BY ReadKeeps DEF PDMQueueAlloc, FlagsSame

LEMMA ReturnKeeps ==
    ASSUME FlushInv, NEW t \in Threads, Return(t), FlagsSame PROVE FlushInv'
<1>1. /\ call' \in [Threads -> Calls] /\ call'[t].pc = "idle"
      /\ \A u \in Threads : u # t => call'[u] = call[u]
  BY ReturnIs DEF FlushInv
<1> QED  BY <1>1, Plain, CallOnly

LEMMA AllocAgainStep ==
    ASSUME FlushInv, NEW t \in Threads, AllocAgain(t) PROVE FlushInv'
<1>1. FlagsSame
  BY DEF AllocAgain, FlagsSame
<1>2. CASE Exhausted(call[t].q)
  BY <1>1, <1>2, ReturnKeeps DEF AllocAgain
<1>3. CASE ~Exhausted(call[t].q)
  <2>1. call[t].q \in Queues /\ call[t].c \in Contexts
    BY Types DEF FlushInv, Control, HasItem, AllocAgain, At, Calls
  <2> QED  BY <1>1, <1>3, <2>1, ReadKeeps DEF AllocAgain
<1> QED  BY <1>2, <1>3

LEMMA SetFFStep ==
    ASSUME FlushInv, NEW t \in Threads, SetFF(t) PROVE FlushInv'
<1>1. TypeOK /\ "bit" \in Pcs
  BY DEF FlushInv, Pcs
<1>2. /\ call' \in [Threads -> Calls] /\ call'[t].pc = "bit"
      /\ \A u \in Threads : u # t => call'[u] = call[u]
  BY <1>1, GotoIs DEF SetFF
<1>3. ff' \in BOOLEAN /\ active' \in BOOLEAN /\ bit' \in BOOLEAN /\ active' = active
  BY <1>1 DEF SetFF, TypeOK
<1> QED  BY <1>2, <1>3, Plain, FlagsOnly DEF SetFF

LEMMA SetBitStep ==
    ASSUME FlushInv, NEW t \in Threads, SetBit(t) PROVE FlushInv'
<1>1. TypeOK
  BY DEF FlushInv
<1>2. /\ call' \in [Threads -> Calls] /\ call'[t].pc = "idle"
      /\ \A u \in Threads : u # t => call'[u] = call[u]
  BY <1>1, ReturnIs DEF SetBit
<1>3. ff' \in BOOLEAN /\ active' \in BOOLEAN /\ bit' \in BOOLEAN /\ active' = active
  BY <1>1 DEF SetBit, TypeOK
<1> QED  BY <1>2, <1>3, Plain, FlagsOnly DEF SetBit

LEMMA QueueFlushAllStep ==
    ASSUME FlushInv, NEW e \in Threads, PDMR3QueueFlushAll(e) PROVE FlushInv'
<1>1. TypeOK /\ "clearff" \in Pcs /\ FlagsSame
  BY DEF FlushInv, Pcs, PDMR3QueueFlushAll, FlagsSame
<1>2. /\ call' \in [Threads -> Calls] /\ call'[e].pc = "clearff"
      /\ \A u \in Threads : u # e => call'[u] = call[u]
  BY <1>1, GotoIs DEF PDMR3QueueFlushAll
<1> QED  BY <1>1, <1>2, Plain, CallOnly

LEMMA ClearFFStep ==
    ASSUME FlushInv, NEW e \in Threads, ClearFF(e) PROVE FlushInv'
<1>1. TypeOK /\ "activate" \in Pcs
  BY DEF FlushInv, Pcs
<1>2. /\ call' \in [Threads -> Calls] /\ call'[e].pc = "activate"
      /\ \A u \in Threads : u # e => call'[u] = call[u]
  BY <1>1, GotoIs DEF ClearFF
<1>3. ff' \in BOOLEAN /\ active' \in BOOLEAN /\ bit' \in BOOLEAN /\ active' = active
  BY <1>1 DEF ClearFF, TypeOK
<1> QED  BY <1>2, <1>3, Plain, FlagsOnly DEF ClearFF

LEMMA ActivateStep ==
    ASSUME FlushInv, NEW e \in Threads, Activate(e) PROVE FlushInv'
<1>1. TypeOK /\ "clearbit" \in Pcs
  BY DEF FlushInv, Pcs
<1>2. ff' \in BOOLEAN /\ active' \in BOOLEAN /\ bit' \in BOOLEAN /\ active'
  BY <1>1 DEF Activate, TypeOK
<1>3. CASE active
  <2>1. /\ call' \in [Threads -> Calls] /\ call'[e].pc = "idle"
        /\ \A u \in Threads : u # e => call'[u] = call[u]
    BY <1>1, <1>3, ReturnIs DEF Activate
  <2> QED  BY <1>2, <2>1, Plain, FlagsOnly DEF Activate
<1>4. CASE ~active
  <2>1. /\ call' \in [Threads -> Calls] /\ call'[e].pc = "clearbit"
        /\ \A u \in Threads : u # e => call'[u] = call[u]
    BY <1>1, <1>4, GotoIs DEF Activate
  <2> QED  BY <1>2, <1>4, <2>1, PlainActive, FlagsOnly DEF Activate
<1> QED  BY <1>3, <1>4

LEMMA ActiveIs ==
    ASSUME FlushInv, NEW e \in Threads, Active(e) PROVE active
BY DEF FlushInv, Control, FlushControl

LEMMA ClearBitIs ==
    ASSUME TypeOK, NEW e \in Threads, ClearBit(e)
    PROVE  /\ call' \in [Threads -> Calls] /\ call'[e].pc = "walk" /\ call'[e].q = 1
           /\ \A u \in Threads : u # e => call'[u] = call[u]
<1> DEFINE r == [call[e] EXCEPT !.pc = "walk", !.q = 1]
<1>1. call[e] \in Calls
  BY CallIs
<1>2. r \in Calls /\ r.pc = "walk" /\ r.q = 1
  BY <1>1, Constants DEF Calls, Pcs
<1>3. call' = [call EXCEPT ![e] = r]
  BY DEF ClearBit
<1> HIDE DEF r
<1> QED  BY <1>2, <1>3, Moves

LEMMA ClearBitStep ==
    ASSUME FlushInv, NEW e \in Threads, ClearBit(e) PROVE FlushInv'
<1>1. TypeOK /\ Active(e)
  BY DEF FlushInv, ClearBit, At, Active
<1>2. active
  BY <1>1, ActiveIs
<1>3. /\ call' \in [Threads -> Calls] /\ call'[e].pc = "walk"
      /\ \A u \in Threads : u # e => call'[u] = call[u]
  BY <1>1, ClearBitIs
<1>4. ff' \in BOOLEAN /\ active' \in BOOLEAN /\ bit' \in BOOLEAN /\ active' = active
  BY <1>1 DEF ClearBit, TypeOK
<1>5. Control(e)'
  BY <1>2, <1>3, <1>4, PlainActive
<1> QED  BY <1>1, <1>3, <1>4, <1>5, FlagsOnly DEF ClearBit

\* The walk goes on to the next queue.
LEMMA NextQueueIs ==
    ASSUME TypeOK, NEW e \in Threads, call[e].q \in Forced, NextQueue(e)
    PROVE  /\ call' \in [Threads -> Calls] /\ call'[e].pc = "walk" /\ call'[e].q = call[e].q + 1
           /\ \A u \in Threads : u # e => call'[u] = call[u]
<1> DEFINE q == call[e].q
           r == [call[e] EXCEPT !.pc = "walk", !.q = call[e].q + 1]
<1>1. call[e] \in Calls
  BY CallIs
<1>2. q + 1 \in Indices
  <2>1. q \in Forced
    OBVIOUS
  <2> HIDE DEF q
  <2> QED  BY <2>1, Constants DEF Forced, Indices
<1>3. r \in Calls /\ r.pc = "walk" /\ r.q = call[e].q + 1
  BY <1>1, <1>2 DEF Calls, Pcs
<1>4. call' = [call EXCEPT ![e] = r]
  BY DEF NextQueue
<1> HIDE DEF r
<1> QED  BY <1>3, <1>4, Moves

LEMMA WalkStep ==
    ASSUME FlushInv, NEW e \in Threads, Walk(e) PROVE FlushInv'
<1>1. TypeOK /\ Active(e) /\ FlagsSame /\ "inactive" \in Pcs /\ "take" \in Pcs
  BY DEF FlushInv, Walk, At, Active, FlagsSame, Pcs, FlushPcs
<1>2. active /\ active' = active /\ pending' = pending
  BY <1>1, ActiveIs DEF FlagsSame, flags
<1>3. CASE call[e].q \notin Forced
  <2>1. /\ call' \in [Threads -> Calls] /\ call'[e].pc = "inactive"
        /\ \A u \in Threads : u # e => call'[u] = call[u]
    BY <1>1, <1>3, GotoIs DEF Walk
  <2> QED  BY <1>1, <1>2, <2>1, PlainActive, CallOnly
<1>4. CASE call[e].q \in Forced /\ HasPending(call[e].q)
  <2>1. /\ call' \in [Threads -> Calls] /\ call'[e].pc = "take" /\ call'[e].q = call[e].q
        /\ \A u \in Threads : u # e => call'[u] = call[u]
    BY <1>1, <1>4, GotoIs DEF Walk
  <2>2. HasPending(call[e].q)' /\ call'[e].pc \in FlushPcs /\ call'[e].q \in Queues /\ call'[e].q \in Forced
    BY <1>2, <1>4, <2>1, Constants DEF HasPending, FlushPcs
  <2>3. Control(e)'
    BY <1>2, <2>2, Flushes
  <2> QED  BY <1>1, <2>1, <2>3, CallOnly
<1>5. CASE call[e].q \in Forced /\ ~HasPending(call[e].q)
  <2>1. NextQueue(e)
    BY <1>5 DEF Walk
  <2>2. /\ call' \in [Threads -> Calls] /\ call'[e].pc = "walk"
        /\ \A u \in Threads : u # e => call'[u] = call[u]
    BY <1>1, <1>5, <2>1, NextQueueIs
  <2> QED  BY <1>1, <1>2, <2>2, PlainActive, CallOnly
<1> QED  BY <1>3, <1>4, <1>5

LEMMA DeactivateStep ==
    ASSUME FlushInv, NEW e \in Threads, Deactivate(e) PROVE FlushInv'
<1>1. TypeOK /\ Active(e) /\ "testbit" \in Pcs
  BY DEF FlushInv, Deactivate, At, Active, Pcs
<1>2. /\ call' \in [Threads -> Calls] /\ call'[e].pc = "testbit"
      /\ \A u \in Threads : u # e => call'[u] = call[u]
  BY <1>1, GotoIs DEF Deactivate
<1>3. ff' \in BOOLEAN /\ active' \in BOOLEAN /\ bit' \in BOOLEAN
  BY <1>1 DEF Deactivate, TypeOK
<1> QED  BY <1>1, <1>2, <1>3, Plain, FlagsOnly DEF Deactivate

LEMMA TestBitStep ==
    ASSUME FlushInv, NEW e \in Threads, TestBit(e) PROVE FlushInv'
<1> DEFINE label == IF bit THEN "clearff" ELSE "testff"
<1>1. TypeOK /\ FlagsSame /\ label \in Pcs /\ label \in {"clearff", "testff"}
  BY DEF FlushInv, TestBit, FlagsSame, Pcs
<1>2. Goto(e, label)
  BY DEF TestBit
<1> HIDE DEF label
<1>3. /\ call' \in [Threads -> Calls] /\ call'[e].pc = label
      /\ \A u \in Threads : u # e => call'[u] = call[u]
  BY <1>1, <1>2, GotoIs
<1> QED  BY <1>1, <1>3, Plain, CallOnly

LEMMA TestFFStep ==
    ASSUME FlushInv, NEW e \in Threads, TestFF(e) PROVE FlushInv'
<1>1. TypeOK /\ FlagsSame /\ "clearff" \in Pcs
  BY DEF FlushInv, TestFF, FlagsSame, Pcs
<1>2. CASE ff
  <2>1. /\ call' \in [Threads -> Calls] /\ call'[e].pc = "clearff"
        /\ \A u \in Threads : u # e => call'[u] = call[u]
    BY <1>1, <1>2, GotoIs DEF TestFF
  <2> QED  BY <1>1, <2>1, Plain, CallOnly
<1>3. CASE ~ff
  BY <1>1, <1>3, ReturnKeeps DEF TestFF
<1> QED  BY <1>2, <1>3

LEMMA QueueTimerStep ==
    ASSUME FlushInv, NEW e \in Threads, NEW q \in Queues, pdmR3QueueTimer(e, q) PROVE FlushInv'
<1> DEFINE r == [call[e] EXCEPT !.pc = "take", !.q = q]
<1>1. TypeOK /\ FlagsSame /\ call[e] \in Calls /\ e = TimerEMT /\ q \notin Forced /\ HasPending(q)
  BY Types DEF FlushInv, pdmR3QueueTimer, FlagsSame
<1>2. r \in Calls /\ r.pc = "take" /\ r.q = q
  BY <1>1, Constants DEF Calls, Pcs, FlushPcs
<1>3. call' = [call EXCEPT ![e] = r]
  BY DEF pdmR3QueueTimer
<1> HIDE DEF r
<1>4. /\ call' \in [Threads -> Calls] /\ call'[e].pc = "take" /\ call'[e].q = q
      /\ \A u \in Threads : u # e => call'[u] = call[u]
  BY <1>1, <1>2, <1>3, Moves
<1>5. HasPending(call[e].q)' /\ call'[e].pc \in FlushPcs /\ call'[e].q \in Queues /\ call'[e].q \notin Forced
  BY <1>1, <1>4 DEF HasPending, FlagsSame, FlushPcs
<1>6. Control(e)' /\ ~Active(e)'
  <2>1. Control(e)'
    BY <1>1, <1>5, Flushes
  <2> QED  BY <1>4, <1>5, <2>1 DEF Active
<1> QED  BY <1>1, <1>4, <1>6, CallOnly

\* The flush of a queue is over.
LEMMA FlushedIs ==
    ASSUME TypeOK, NEW e \in Threads, Flushed(e)
    PROVE  /\ call' \in [Threads -> Calls]
           /\ \A u \in Threads : u # e => call'[u] = call[u]
           /\ call[e].q \notin Forced => call'[e].pc = "idle"
           /\ call[e].q \in Forced => call'[e].pc = "walk" /\ call'[e].q = call[e].q + 1
<1>1. CASE call[e].q \notin Forced
  <2>1. call' = [call EXCEPT ![e] = Idle]
    BY <1>1 DEF Flushed
  <2>2. Return(e)
    BY <2>1 DEF Return
  <2> QED  BY <1>1, <2>2, ReturnIs
<1>2. CASE call[e].q \in Forced
  <2> DEFINE q == call[e].q
             r == [Idle EXCEPT !.pc = "walk", !.q = call[e].q + 1]
  <2>1. q + 1 \in Indices
    <3>1. q \in Forced
      BY <1>2
    <3> HIDE DEF q
    <3> QED  BY <3>1, Constants DEF Forced, Indices
  <2>2. r \in Calls /\ r.pc = "walk" /\ r.q = call[e].q + 1
    BY <2>1, IdleIs DEF Calls, Pcs
  <2>3. call' = [call EXCEPT ![e] = r]
    BY <1>2 DEF Flushed
  <2> HIDE DEF r
  <2> QED  BY <1>2, <2>2, <2>3, Moves
<1> QED  BY <1>1, <1>2

LEMMA FlushedControl ==
    ASSUME FlushInv, NEW e \in Threads, call[e].pc \in FlushPcs, Flushed(e), active' = active
    PROVE  Control(e)' /\ (Active(e)' => Active(e))
<1>1. TypeOK
  BY DEF FlushInv
<1>2. CASE call[e].q \notin Forced
  BY <1>1, <1>2, FlushedIs, Plain
<1>3. CASE call[e].q \in Forced
  <2>1. call'[e].pc = "walk"
    BY <1>1, <1>3, FlushedIs
  <2>2. Active(e)
    BY <1>3 DEF Active
  <2> QED  BY <2>1, <2>2, ActiveIs, PlainActive
<1> QED  BY <1>2, <1>3

LEMMA FeedDoneStep ==
    ASSUME FlushInv, NEW e \in Threads, FeedDone(e) PROVE FlushInv'
<1>1. TypeOK /\ FlagsSame /\ call[e].pc \in FlushPcs /\ active' = active /\ Flushed(e)
  BY DEF FlushInv, FeedDone, FlagsSame, At, FlushPcs, flags
<1>2. Control(e)' /\ (Active(e)' => Active(e))
  BY <1>1, FlushedControl
<1> QED  BY <1>1, <1>2, FlushedIs, CallOnly

-----------------------------------------------------------------------------
(* The ring.                                                               *)

LEMMA Remainder ==
    ASSUME NEW n \in Nat, n > 0, NEW k \in Nat PROVE k % n \in 0 .. n - 1 /\ (k < n => k % n = k)
OBVIOUS

LEMMA AfterDef == \A i : After(i) = (i + 1) % (cItems + Slack)
BY DEF After

LEMMA AfterIs ==
    ASSUME NEW i \in Slots
    PROVE  /\ After(i) \in Slots
           /\ i < cItems + Slack - 1 => After(i) = i + 1 /\ i + 1 \in Slots
<1> DEFINE n == cItems + Slack
           k == i + 1
<1>1. n \in Nat /\ n > 0 /\ i \in Nat /\ Slots = 0 .. n - 1
  BY Constants DEF Slots
<1>2. After(i) = k % n
  BY AfterDef
<1> HIDE DEF n
<1>3. k \in Nat /\ (i < n - 1 => k < n /\ k \in 0 .. n - 1)
  BY <1>1
<1>4. k % n \in 0 .. n - 1 /\ (k < n => k % n = k)
  <2> HIDE DEF k
  <2> QED  BY <1>1, <1>3, Remainder
<1>5. After(i) \in Slots /\ (i < n - 1 => After(i) = i + 1 /\ i + 1 \in Slots)
  BY <1>1, <1>2, <1>3, <1>4
<1>6. n = cItems + Slack
  BY DEF n
<1> QED  BY <1>1, <1>5, <1>6, Constants

LEMMA AllocTakeStep ==
    ASSUME FlushInv, NEW t \in Threads, AllocTake(t) PROVE FlushInv'
<1> DEFINE q == call[t].q
           i == call[t].i
           r == [call[t] EXCEPT !.pc = "push", !.i = 0]
<1>1. TypeOK /\ call[t] \in Calls /\ HasItem(t) /\ ReadInTime(t)
  BY Types DEF FlushInv, Control
<1>2. q \in Queues /\ call[t].item \in Items /\ call[t].pc = "alloc" /\ i \in Slots
      /\ (Fresh(q) => i < iFreeHead[q]) /\ iFreeTail' = [iFreeTail EXCEPT ![q] = After(i)]
  BY <1>1 DEF AllocTake, At, HasItem, ReadInTime, Calls
<1>3. /\ r \in Calls /\ r.pc = "push" /\ r.q = q /\ r.item = call[t].item
  BY <1>1, Constants DEF Calls, Pcs
<1>4. call' = [call EXCEPT ![t] = r]
  BY DEF AllocTake
<1>5. /\ slot' = slot /\ iFreeHead' = iFreeHead /\ pending' = pending /\ from' = from
      /\ refused' = refused /\ inserts' = inserts /\ UNCHANGED flags
  BY DEF AllocTake
<1>6. ff' = ff /\ active' = active /\ bit' = bit
  BY <1>5 DEF flags
<1> HIDE DEF r
<1>7. /\ call' \in [Threads -> Calls] /\ call'[t] = r
      /\ \A u \in Threads : u # t => call'[u] = call[u]
  BY <1>1, <1>3, <1>4, Moves
<1>8. iFreeTail' \in [Queues -> Slots] /\ iFreeTail'[q] = After(i)
      /\ \A p \in Queues : p # q => iFreeTail'[p] = iFreeTail[p]
  <2> HIDE DEF q, i
  <2>1. iFreeTail \in [Queues -> Slots] /\ After(i) \in Slots
    BY <1>1, <1>2, AfterIs DEF TypeOK
  <2> QED  BY <1>2, <2>1
<1>9. TypeOK'
  BY <1>1, <1>5, <1>6, <1>7, <1>8 DEF TypeOK, Calls, Indices
<1>10. \A p \in Queues : Fresh(p)' <=> Fresh(p)
  BY <1>5 DEF Fresh
<1>11. \A p \in Queues : RingFilled(p)'
  <2> SUFFICES ASSUME NEW p \in Queues, Fresh(p) PROVE RingFilled(p)'
    BY <1>10 DEF RingFilled
  <2>1. RingFilled(p)
    BY DEF FlushInv
  <2>2. CASE p # q
    BY <1>5, <1>8, <2>1, <2>2 DEF RingFilled
  <2>3. CASE p = q
    <3>1. i < iFreeHead[q] /\ iFreeHead[q] \in Slots
      BY <1>1, <1>2, <2>3 DEF TypeOK
    <3> DEFINE h == iFreeHead[q]
               m == cItems + Slack - 1
    <3>2. i \in Nat /\ h \in Nat /\ m \in Nat /\ i < h /\ h <= m
      BY <1>2, <3>1, Constants DEF Slots
    <3>3. i < m => After(i) = i + 1
      BY <1>2, AfterIs
    <3> HIDE DEF i, h, m
    <3>4. After(i) <= h
      BY <3>2, <3>3
    <3> QED  BY <1>5, <1>8, <2>1, <2>3, <3>4 DEF RingFilled, h
  <2> QED  BY <2>2, <2>3
<1>12. Control(t)' /\ ~Active(t)'
  <2>1. ReadInTime(t)'
    BY <1>3, <1>7 DEF ReadInTime, At
  <2> QED  BY <1>2, <1>3, <1>7, <2>1, Allocates
<1>13. \A p \in Queues : Fresh(p)' => Fresh(p) /\ iFreeHead[p] <= iFreeHead'[p]
  BY <1>1, <1>5, <1>10, Types
<1>14. \A u \in Threads : u # t /\ At(u, "take") /\ HasPending(call[u].q) => HasPending(call[u].q)'
  BY <1>5, <1>7 DEF HasPending
<1> QED  BY <1>6, <1>7, <1>9, <1>11, <1>12, <1>13, <1>14, Kept

\* An item is put back at iFreeHead.
LEMMA FreeIs ==
    ASSUME FlushInv, NEW q \in Queues, NEW item \in Items, Free(q, item), iFreeTail' = iFreeTail
    PROVE  /\ slot' \in [Queues -> [Slots -> Items \cup {None}]] /\ iFreeHead' \in [Queues -> Slots]
           /\ \A p \in Queues : RingFilled(p)'
           /\ \A p \in Queues : Fresh(p)' => Fresh(p) /\ iFreeHead[p] <= iFreeHead'[p]
<1> DEFINE h == iFreeHead[q]
<1>1. /\ slot \in [Queues -> [Slots -> Items \cup {None}]] /\ iFreeHead \in [Queues -> Slots]
      /\ iFreeTail \in [Queues -> Slots] /\ \A p \in Queues : RingFilled(p)
  BY DEF FlushInv, TypeOK
<1>2. h \in Slots /\ After(h) \in Slots
  BY <1>1, AfterIs
<1>3. slot' = [slot EXCEPT ![q][h] = item] /\ iFreeHead' = [iFreeHead EXCEPT ![q] = After(h)]
  BY DEF Free
<1> HIDE DEF h
<1>4. /\ slot' \in [Queues -> [Slots -> Items \cup {None}]] /\ iFreeHead' \in [Queues -> Slots]
      /\ slot'[q][h] = item /\ iFreeHead'[q] = After(h)
      /\ \A j \in Slots : j # h => slot'[q][j] = slot[q][j]
      /\ \A p \in Queues : p # q => slot'[p] = slot[p] /\ iFreeHead'[p] = iFreeHead[p]
  BY <1>1, <1>2, <1>3
<1>5. ASSUME NEW p \in Queues, Fresh(p)'
      PROVE  RingFilled(p)' /\ Fresh(p) /\ iFreeHead[p] <= iFreeHead'[p]
  <2>1. PICK j \in Slots : slot'[p][j] = None
    BY <1>5 DEF Fresh
  <2>2. CASE p # q
    <3>1. slot'[p] = slot[p] /\ iFreeHead'[p] = iFreeHead[p] /\ iFreeTail'[p] = iFreeTail[p]
      BY <1>4, <2>2
    <3>2. Fresh(p)
      BY <2>1, <3>1 DEF Fresh
    <3>3. iFreeHead[p] <= iFreeHead[p]
      BY <1>1 DEF Slots
    <3> QED  BY <1>1, <3>1, <3>2, <3>3 DEF RingFilled
  <2>3. CASE p = q
    <3>1. j # h /\ slot[q][j] = None
      BY <1>4, <2>1, <2>3, Constants
    <3>2. /\ Fresh(q) /\ iFreeTail[q] <= h /\ iFreeTail[q] \in Slots
          /\ \A k \in Slots : k < h => slot[q][k] \in Items
      BY <1>1, <3>1 DEF Fresh, RingFilled, h
    <3>3. ~(j < h)
      BY <3>1, <3>2, Constants
    <3> DEFINE m == cItems + Slack - 1
               a == iFreeTail[q]
    <3>4. m \in Nat /\ j \in Nat /\ h \in Nat /\ j <= m /\ a \in Nat /\ a <= h /\ ~(j < h) /\ j # h
      BY <1>2, <3>1, <3>2, <3>3, Constants DEF Slots
    <3>5. h < m => After(h) = h + 1
      BY <1>2, AfterIs
    <3> HIDE DEF m, a
    <3>6. After(h) = h + 1 /\ a <= h + 1 /\ h <= h + 1
      BY <3>4, <3>5
    <3>7. \A k \in Slots : k < h + 1 => k < h \/ k = h
      BY <3>4 DEF Slots
    <3>8. \A k \in Slots : k < h + 1 => slot'[q][k] \in Items
      BY <1>4, <3>2, <3>7
    <3>9. iFreeHead'[q] = h + 1 /\ iFreeTail'[q] <= h + 1 /\ iFreeHead[q] = h
      BY <1>4, <3>6 DEF a, h
    <3>10. RingFilled(q)'
      BY <3>8, <3>9 DEF RingFilled
    <3> QED  BY <2>3, <3>2, <3>6, <3>9, <3>10
  <2> QED  BY <2>2, <2>3
<1>6. \A p \in Queues : RingFilled(p)'
  <2> SUFFICES ASSUME NEW p \in Queues, Fresh(p)' PROVE RingFilled(p)'
    BY DEF RingFilled
  <2> QED  BY <1>5
<1> QED  BY <1>4, <1>5, <1>6

-----------------------------------------------------------------------------
(* The lists.                                                              *)

\* A queue is flushed by one thread at a time.
LEMMA SameFlusher ==
    ASSUME FlushInv, NEW e \in Threads, NEW d \in Threads, call[e].pc \in FlushPcs,
           call[d].pc \in FlushPcs, call[e].q = call[d].q
    PROVE  e = d
<1>1. Control(e) /\ Control(d) /\ Alone
  BY DEF FlushInv
<1>2. CASE call[e].q \in Forced
  BY <1>1, <1>2 DEF Active, Alone
<1>3. CASE call[e].q \notin Forced
  BY <1>1, <1>3 DEF Control, FlushControl
<1> QED  BY <1>2, <1>3

\* A step of the thread that flushes, on its queue.
LEMMA FlushStep ==
    ASSUME FlushInv, NEW e \in Threads, call[e].pc \in FlushPcs, TypeOK',
           \A u \in Threads : u # e => call'[u] = call[u],
           \A q \in Queues : RingFilled(q)',
           \A q \in Queues : Fresh(q)' => Fresh(q) /\ iFreeHead[q] <= iFreeHead'[q],
           \A p \in Queues, c \in Contexts : p # call[e].q => pending'[p][c] = pending[p][c],
           active' = active, Control(e)', Active(e)' => Active(e)
    PROVE  FlushInv'
<1>1. ASSUME NEW u \in Threads, u # e, At(u, "take"), HasPending(call[u].q)
      PROVE  HasPending(call[u].q)'
  <2>1. call[u].pc \in FlushPcs /\ call[u].q \in Queues
    BY <1>1 DEF FlushInv, Control, FlushControl, At, FlushPcs
  <2>2. call[u].q # call[e].q
    BY <1>1, <2>1, SameFlusher
  <2>3. PICK c \in Contexts : pending[call[u].q][c] # <<>>
    BY <1>1 DEF HasPending
  <2>4. pending'[call'[u].q][c] # <<>>
    BY <1>1, <2>1, <2>2, <2>3
  <2> QED  BY <2>4 DEF HasPending
<1> QED  BY <1>1, Kept

LEMMA FlushQueue ==
    ASSUME FlushInv, NEW e \in Threads, call[e].pc \in FlushPcs
    PROVE  /\ call[e].q \in Queues /\ call[e].list \in Seq(Items)
           /\ call[e].q \in Forced \/ e = TimerEMT
           /\ call[e].q \in Forced => active /\ Active(e)
<1>1. FlushControl(e) /\ call[e] \in Calls
  BY Types DEF FlushInv, Control
<1> QED  BY <1>1 DEF FlushControl, Active, Calls

\* A step that goes on with the flush.
LEMMA GoesOn ==
    ASSUME FlushInv, NEW e \in Threads, call[e].pc \in FlushPcs, active' = active,
           call'[e].pc \in FlushPcs \ {"take"}, call'[e].q = call[e].q
    PROVE  Control(e)' /\ (Active(e)' => Active(e))
<1>1. call[e].q \in Queues /\ (call[e].q \in Forced \/ e = TimerEMT) /\ (call[e].q \in Forced => active)
  BY FlushQueue
<1>2. Control(e)'
  BY <1>1, Flushes DEF At
<1>3. Active(e)' => Active(e)
  BY DEF Active, FlushPcs
<1> QED  BY <1>2, <1>3

LEMMA TookIs ==
    ASSUME FlushInv, NEW e \in Threads, call[e].pc \in FlushPcs, NEW c \in Contexts,
           NEW label \in FlushPcs, Took(e, c, label)
    PROVE  LET q == call[e].q IN
           /\ call' \in [Threads -> Calls] /\ call'[e].pc = label /\ call'[e].q = q
           /\ \A u \in Threads : u # e => call'[u] = call[u]
           /\ pending' \in [Queues -> [Contexts -> Seq(Items)]]
           /\ pending'[q][c] = <<>>
           /\ \A p \in Queues, d \in Contexts : p # q \/ d # c => pending'[p][d] = pending[p][d]
           /\ call'[e].list \in Seq(Items)
<1> DEFINE q == call[e].q
           l == Reverse(pending[q][c]) \o call[e].list
<1>1. TypeOK /\ q \in Queues /\ call[e].list \in Seq(Items) /\ label \in Pcs
  BY FlushQueue DEF FlushInv, Pcs
<1>2. l \in Seq(Items) /\ <<>> \in Seq(Items)
  <2>1. pending[q][c] \in Seq(Items)
    BY <1>1 DEF TypeOK
  <2>2. Reverse(pending[q][c]) \in Seq(Items)
    BY <2>1, ReverseIs
  <2> QED  BY <1>1, <2>2
<1>3. pending' = [pending EXCEPT ![q][c] = <<>>] /\ Flush(e, label, l)
  BY DEF Took
<1>4. /\ call' \in [Threads -> Calls] /\ call'[e].pc = label /\ call'[e].q = q /\ call'[e].list = l
      /\ \A u \in Threads : u # e => call'[u] = call[u]
  <2> HIDE DEF l
  <2> QED  BY <1>1, <1>2, <1>3, FlushIs
<1>5. /\ pending' \in [Queues -> [Contexts -> Seq(Items)]]
      /\ pending'[q][c] = <<>>
      /\ \A p \in Queues, d \in Contexts : p # q \/ d # c => pending'[p][d] = pending[p][d]
  <2> HIDE DEF q
  <2> QED  BY <1>1, <1>2, <1>3, PendingIs
<1> QED  BY <1>2, <1>4, <1>5

LEMMA TookKeeps ==
    ASSUME FlushInv, NEW e \in Threads, call[e].pc \in FlushPcs, NEW c \in Contexts,
           NEW label \in FlushPcs \ {"take"}, Took(e, c, label)
    PROVE  FlushInv'
<1>1. UNCHANGED ring /\ UNCHANGED flags /\ from' = from /\ refused' = refused /\ inserts' = inserts
  BY DEF Took
<1>2. /\ slot' = slot /\ iFreeHead' = iFreeHead /\ iFreeTail' = iFreeTail
      /\ ff' = ff /\ active' = active /\ bit' = bit
  BY <1>1 DEF ring, flags
<1>3. /\ call' \in [Threads -> Calls] /\ call'[e].pc = label /\ call'[e].q = call[e].q
      /\ \A u \in Threads : u # e => call'[u] = call[u]
      /\ pending' \in [Queues -> [Contexts -> Seq(Items)]]
      /\ \A p \in Queues, d \in Contexts : p # call[e].q => pending'[p][d] = pending[p][d]
  BY TookIs
<1>4. TypeOK'
  BY <1>1, <1>2, <1>3 DEF FlushInv, TypeOK, Calls, Indices
<1>5. Control(e)' /\ (Active(e)' => Active(e))
  BY <1>2, <1>3, GoesOn
<1> QED  BY <1>1, <1>2, <1>3, <1>4, <1>5, RingSame, FlushStep

LEMMA TakeStep ==
    ASSUME FlushInv, NEW e \in Threads, TakeR3(e) \/ TakeRC(e) \/ TakeR0(e) PROVE FlushInv'
<1>1. /\ "R3" \in Contexts /\ "RC" \in Contexts /\ "R0" \in Contexts
      /\ {"takeRC", "takeR0", "feed"} \subseteq FlushPcs \ {"take"}
      /\ call[e].pc \in FlushPcs
  BY DEF Contexts, FlushPcs, TakeR3, TakeRC, TakeR0, At
<1>2. CASE TakeR3(e)
  BY <1>1, <1>2, TookKeeps DEF TakeR3
<1>3. CASE TakeRC(e)
  BY <1>1, <1>3, TookKeeps DEF TakeRC
<1>4. CASE TakeR0(e)
  BY <1>1, <1>4, TookKeeps DEF TakeR0
<1> QED  BY <1>2, <1>3, <1>4

-----------------------------------------------------------------------------
(* Inserting, feeding and putting back.                                    *)

LEMMA PushedIs ==
    ASSUME FlushInv, NEW t \in Threads, Push(t)
    PROVE  LET q == call[t].q  c == call[t].c  item == call[t].item IN
           /\ q \in Queues /\ c \in Contexts /\ item \in Items
           /\ call' \in [Threads -> Calls]
           /\ \A u \in Threads : u # t => call'[u] = call[u]
           /\ call'[t].pc = IF q \in Forced THEN "ff" ELSE "idle"
           /\ pending' \in [Queues -> [Contexts -> Seq(Items)]]
           /\ pending'[q][c] # <<>>
           /\ \A p \in Queues, d \in Contexts : p # q \/ d # c => pending'[p][d] = pending[p][d]
           /\ refused' \in [Queues -> SUBSET Items]
           /\ \A p \in Queues : p # q => refused'[p] = refused[p]
<1> DEFINE q == call[t].q
           c == call[t].c
           item == call[t].item
           l == <<item>> \o pending[q][c]
           r == IF q \in Forced THEN [Idle EXCEPT !.pc = "ff"] ELSE Idle
<1>1. TypeOK /\ q \in Queues /\ c \in Contexts /\ item \in Items
  BY Types DEF FlushInv, Control, HasItem, Push, At, Calls
<1>2. l \in Seq(Items) /\ l # <<>>
  <2>1. pending[q][c] \in Seq(Items)
    BY <1>1 DEF TypeOK
  <2> QED  BY <1>1, <2>1, PushIs
<1>3. r \in Calls /\ r.pc = IF q \in Forced THEN "ff" ELSE "idle"
  <2>1. Idle \in Calls /\ Idle.pc = "idle"
    BY IdleIs DEF Idle
  <2> DEFINE s == [Idle EXCEPT !.pc = "ff"]
  <2>2. s \in Calls /\ s.pc = "ff"
    BY <2>1 DEF Calls, Pcs
  <2> HIDE DEF s
  <2>3. r = IF q \in Forced THEN s ELSE Idle
    BY DEF s
  <2> HIDE DEF r, q
  <2> QED  BY <2>1, <2>2, <2>3
<1>4. call' = [call EXCEPT ![t] = r] /\ pending' = [pending EXCEPT ![q][c] = l]
      /\ refused' = [refused EXCEPT ![q] = @ \ {item}]
  BY DEF Push, AfterPush
<1> HIDE DEF l, r
<1>5. /\ call' \in [Threads -> Calls] /\ call'[t] = r
      /\ \A u \in Threads : u # t => call'[u] = call[u]
  BY <1>1, <1>3, <1>4, Moves
<1>6. /\ pending' \in [Queues -> [Contexts -> Seq(Items)]] /\ pending'[q][c] = l
      /\ \A p \in Queues, d \in Contexts : p # q \/ d # c => pending'[p][d] = pending[p][d]
  <2>1. pending \in [Queues -> [Contexts -> Seq(Items)]]
    BY <1>1 DEF TypeOK
  <2> HIDE DEF q, c
  <2> QED  BY <1>1, <1>2, <1>4, <2>1
<1>7. refused' \in [Queues -> SUBSET Items] /\ \A p \in Queues : p # q => refused'[p] = refused[p]
  <2>1. refused \in [Queues -> SUBSET Items]
    BY <1>1 DEF TypeOK
  <2> HIDE DEF q, item
  <2> QED  BY <1>1, <1>4, <2>1
<1> QED  BY <1>1, <1>2, <1>3, <1>5, <1>6, <1>7

LEMMA PushStep ==
    ASSUME FlushInv, NEW t \in Threads, Push(t) PROVE FlushInv'
<1> DEFINE q == call[t].q
           c == call[t].c
           item == call[t].item
<1>1. /\ q \in Queues /\ c \in Contexts /\ item \in Items
      /\ call' \in [Threads -> Calls]
      /\ \A u \in Threads : u # t => call'[u] = call[u]
      /\ call'[t].pc = IF q \in Forced THEN "ff" ELSE "idle"
      /\ pending' \in [Queues -> [Contexts -> Seq(Items)]]
      /\ pending'[q][c] # <<>>
      /\ \A p \in Queues, d \in Contexts : p # q \/ d # c => pending'[p][d] = pending[p][d]
      /\ refused' \in [Queues -> SUBSET Items]
  BY PushedIs
<1>2. TypeOK /\ UNCHANGED ring /\ UNCHANGED flags
  BY DEF Push, FlushInv
<1>3. /\ slot' = slot /\ iFreeHead' = iFreeHead /\ iFreeTail' = iFreeTail
      /\ ff' = ff /\ active' = active /\ bit' = bit
  BY <1>2 DEF ring, flags
<1>4. inserts' \in Nat
  BY <1>2 DEF Push, TypeOK
<1>5. from' \in [Queues -> [Items -> Contexts]]
  <2>1. from \in [Queues -> [Items -> Contexts]] /\ from' = [from EXCEPT ![q][item] = c]
    BY <1>2 DEF Push, TypeOK
  <2> HIDE DEF q, c, item
  <2> QED  BY <1>1, <2>1
<1>6. TypeOK'
  BY <1>1, <1>2, <1>3, <1>4, <1>5 DEF TypeOK, Calls, Indices
<1>7. Control(t)' /\ ~Active(t)'
  BY <1>1, Plain
<1>8. ASSUME NEW u \in Threads, u # t, At(u, "take"), HasPending(call[u].q)
      PROVE  HasPending(call[u].q)'
  <2>1. call[u].q \in Queues /\ call'[u] = call[u]
    BY <1>1, <1>8 DEF FlushInv, Control, FlushControl, At, FlushPcs
  <2>2. PICK d \in Contexts : pending[call[u].q][d] # <<>>
    BY <1>8 DEF HasPending
  <2>3. pending'[call'[u].q][d] # <<>>
    BY <1>1, <2>1, <2>2
  <2> QED  BY <2>3 DEF HasPending
<1> QED  BY <1>1, <1>2, <1>3, <1>6, <1>7, <1>8, RingSame, Kept

LEMMA HeadTail ==
    ASSUME NEW S, NEW s \in Seq(S), s # <<>> PROVE Head(s) \in S /\ Tail(s) \in Seq(S)
OBVIOUS

LEMMA FeedStep ==
    ASSUME FlushInv, NEW e \in Threads, Feed(e) PROVE FlushInv'
<1> DEFINE l == call[e].list
<1>1. /\ TypeOK /\ call[e].pc \in FlushPcs /\ call[e].q \in Queues /\ l \in Seq(Items) /\ l # <<>>
      /\ {"feed"} \subseteq FlushPcs \ {"take"} /\ "feed" \in Pcs
  BY FlushQueue DEF FlushInv, Feed, At, FlushPcs, Pcs
<1>2. Head(l) \in Items /\ Tail(l) \in Seq(Items)
  <2> HIDE DEF l
  <2> QED  BY <1>1, HeadTail
<1>3. Free(call[e].q, Head(l)) /\ Flush(e, "feed", Tail(l))
  BY DEF Feed
<1>4. /\ iFreeTail' = iFreeTail /\ pending' = pending /\ from' = from /\ refused' = refused
      /\ inserts' = inserts /\ ff' = ff /\ active' = active /\ bit' = bit
  BY DEF Feed, flags
<1> HIDE DEF l
<1>5. /\ call' \in [Threads -> Calls] /\ call'[e].pc = "feed" /\ call'[e].q = call[e].q
      /\ \A u \in Threads : u # e => call'[u] = call[u]
  BY <1>1, <1>2, <1>3, FlushIs
<1>6. /\ slot' \in [Queues -> [Slots -> Items \cup {None}]] /\ iFreeHead' \in [Queues -> Slots]
      /\ \A p \in Queues : RingFilled(p)'
      /\ \A p \in Queues : Fresh(p)' => Fresh(p) /\ iFreeHead[p] <= iFreeHead'[p]
  BY <1>1, <1>2, <1>3, <1>4, FreeIs
<1>7. TypeOK'
  BY <1>1, <1>4, <1>5, <1>6 DEF TypeOK, Calls, Indices
<1>8. Control(e)' /\ (Active(e)' => Active(e))
  BY <1>1, <1>4, <1>5, GoesOn
<1> QED  BY <1>1, <1>4, <1>5, <1>6, <1>7, <1>8, FlushStep

LEMMA EnoughIs ==
    ASSUME FlushInv, NEW e \in Threads, Enough(e)
    PROVE  /\ call[e].q \in Queues /\ call[e].list \in Seq(Items)
           /\ call' \in [Threads -> Calls] /\ call'[e].pc = "putback"
           /\ call'[e].q = call[e].q /\ call'[e].list = call[e].list
           /\ \A u \in Threads : u # e => call'[u] = call[u]
           /\ refused' \in [Queues -> SUBSET Items]
           /\ refused'[call[e].q] = refused[call[e].q] \cup ToSet(call[e].list)
           /\ \A p \in Queues : p # call[e].q => refused'[p] = refused[p]
<1> DEFINE q == call[e].q
           l == call[e].list
<1>1. TypeOK /\ q \in Queues /\ l \in Seq(Items) /\ "putback" \in Pcs
  BY FlushQueue DEF FlushInv, Enough, At, FlushPcs, Pcs
<1>2. ToSet(l) \subseteq Items
  <2> HIDE DEF l
  <2> QED  BY <1>1, ElementsAre
<1>3. /\ call' \in [Threads -> Calls] /\ call'[e].pc = "putback"
      /\ call'[e].q = call[e].q /\ call'[e].list = call[e].list
      /\ \A u \in Threads : u # e => call'[u] = call[u]
  BY <1>1, GotoIs DEF Enough
<1>4. refused \in [Queues -> SUBSET Items] /\ refused' = [refused EXCEPT ![q] = @ \cup ToSet(l)]
  BY <1>1 DEF TypeOK, Enough
<1>5. /\ refused' \in [Queues -> SUBSET Items] /\ refused'[q] = refused[q] \cup ToSet(l)
      /\ \A p \in Queues : p # q => refused'[p] = refused[p]
  <2> HIDE DEF q, l
  <2> QED  BY <1>1, <1>2, <1>4
<1> QED  BY <1>1, <1>3, <1>5

LEMMA EnoughStep ==
    ASSUME FlushInv, NEW e \in Threads, Enough(e) PROVE FlushInv'
<1>1. /\ call' \in [Threads -> Calls] /\ call'[e].pc = "putback" /\ call'[e].q = call[e].q
      /\ \A u \in Threads : u # e => call'[u] = call[u]
      /\ refused' \in [Queues -> SUBSET Items]
  BY EnoughIs
<1>2. /\ UNCHANGED ring /\ UNCHANGED flags /\ pending' = pending /\ from' = from
      /\ inserts' = inserts /\ call[e].pc \in FlushPcs
  BY DEF Enough, At, FlushPcs
<1>3. /\ slot' = slot /\ iFreeHead' = iFreeHead /\ iFreeTail' = iFreeTail
      /\ ff' = ff /\ active' = active /\ bit' = bit
  BY <1>2 DEF ring, flags
<1>4. TypeOK'
  BY <1>1, <1>2, <1>3 DEF FlushInv, TypeOK, Calls, Indices
<1>5. Control(e)' /\ (Active(e)' => Active(e))
  BY <1>1, <1>2, <1>3, GoesOn DEF FlushPcs
<1> QED  BY <1>1, <1>2, <1>3, <1>4, <1>5, RingSame, FlushStep

LEMMA PutBackIs ==
    ASSUME FlushInv, NEW e \in Threads, PutBack(e)
    PROVE  LET q == call[e].q IN
           /\ q \in Queues /\ call[e].list \in Seq(Items)
           /\ pending' \in [Queues -> [Contexts -> Seq(Items)]]
           /\ pending'[q]["R3"] = Reverse(call[e].list)
           /\ \A p \in Queues, d \in Contexts : p # q \/ d # "R3" => pending'[p][d] = pending[p][d]
<1> DEFINE q == call[e].q
           l == Reverse(call[e].list)
<1>1. TypeOK /\ q \in Queues /\ call[e].list \in Seq(Items) /\ "R3" \in Contexts
  BY FlushQueue, Constants DEF FlushInv, PutBack, At, FlushPcs
<1>2. l \in Seq(Items)
  BY <1>1, ReverseIs
<1>3. pending' = [pending EXCEPT ![q]["R3"] = l]
  BY DEF PutBack
<1>4. /\ pending' \in [Queues -> [Contexts -> Seq(Items)]] /\ pending'[q]["R3"] = l
      /\ \A p \in Queues, d \in Contexts : p # q \/ d # "R3" => pending'[p][d] = pending[p][d]
  <2>1. pending \in [Queues -> [Contexts -> Seq(Items)]]
    BY <1>1 DEF TypeOK
  <2> HIDE DEF q, l
  <2> QED  BY <1>1, <1>2, <1>3, <2>1
<1> QED  BY <1>1, <1>4

LEMMA PutBackStep ==
    ASSUME FlushInv, NEW e \in Threads, PutBack(e) PROVE FlushInv'
<1>1. /\ pending' \in [Queues -> [Contexts -> Seq(Items)]]
      /\ \A p \in Queues, d \in Contexts : p # call[e].q => pending'[p][d] = pending[p][d]
  BY PutBackIs
<1>2. /\ UNCHANGED ring /\ UNCHANGED flags /\ from' = from /\ refused' = refused
      /\ inserts' = inserts /\ call[e].pc \in FlushPcs /\ Flushed(e) /\ TypeOK
  BY DEF PutBack, At, FlushPcs, FlushInv
<1>3. /\ slot' = slot /\ iFreeHead' = iFreeHead /\ iFreeTail' = iFreeTail
      /\ ff' = ff /\ active' = active /\ bit' = bit
  BY <1>2 DEF ring, flags
<1>4. call' \in [Threads -> Calls] /\ \A u \in Threads : u # e => call'[u] = call[u]
  BY <1>2, FlushedIs
<1>5. TypeOK'
  BY <1>1, <1>2, <1>3, <1>4 DEF FlushInv, TypeOK, Calls, Indices
<1>6. Control(e)' /\ (Active(e)' => Active(e))
  BY <1>2, <1>3, FlushedControl
<1> QED  BY <1>1, <1>2, <1>3, <1>4, <1>5, <1>6, RingSame, FlushStep

LEMMA PutBackJoinIs ==
    ASSUME FlushInv, NEW e \in Threads, PutBackJoin(e)
    PROVE  LET q == call[e].q IN
           /\ q \in Queues /\ call[e].list \in Seq(Items)
           /\ call' \in [Threads -> Calls] /\ call'[e].pc = "putback" /\ call'[e].q = q
           /\ \A u \in Threads : u # e => call'[u] = call[u]
           /\ call'[e].list \in Seq(Items)
           /\ ToSet(call'[e].list) = ToSet(call[e].list) \cup ToSet(pending[q]["R3"])
           /\ pending' \in [Queues -> [Contexts -> Seq(Items)]]
           /\ pending'[q]["R3"] = <<>>
           /\ \A p \in Queues, d \in Contexts : p # q \/ d # "R3" => pending'[p][d] = pending[p][d]
<1> DEFINE q == call[e].q
           s == pending[q]["R3"]
           l == Joined(e)
<1>1. TypeOK /\ q \in Queues /\ call[e].list \in Seq(Items) /\ "R3" \in Contexts /\ "putback" \in Pcs
  BY FlushQueue, Constants DEF FlushInv, PutBackJoin, At, FlushPcs, Pcs
<1>2. s \in Seq(Items) /\ <<>> \in Seq(Items)
  BY <1>1 DEF TypeOK
<1>3. l \in Seq(Items) /\ ToSet(l) = ToSet(call[e].list) \cup ToSet(s)
  <2>1. Reverse(s) \in Seq(Items) /\ ToSet(Reverse(s)) = ToSet(s)
    BY <1>2, ReverseIs
  <2>2. l = call[e].list \o Reverse(s)
    BY DEF Joined
  <2> HIDE DEF l, s
  <2> QED  BY <1>1, <2>1, <2>2, JoinIs
<1>4. pending' = [pending EXCEPT ![q]["R3"] = <<>>] /\ Flush(e, "putback", l)
  BY DEF PutBackJoin
<1> HIDE DEF l
<1>5. /\ call' \in [Threads -> Calls] /\ call'[e].pc = "putback" /\ call'[e].q = q /\ call'[e].list = l
      /\ \A u \in Threads : u # e => call'[u] = call[u]
  BY <1>1, <1>3, <1>4, FlushIs
<1>6. /\ pending' \in [Queues -> [Contexts -> Seq(Items)]] /\ pending'[q]["R3"] = <<>>
      /\ \A p \in Queues, d \in Contexts : p # q \/ d # "R3" => pending'[p][d] = pending[p][d]
  <2>1. pending \in [Queues -> [Contexts -> Seq(Items)]]
    BY <1>1 DEF TypeOK
  <2> HIDE DEF q
  <2> QED  BY <1>1, <1>2, <1>4, <2>1
<1> QED  BY <1>1, <1>3, <1>5, <1>6

LEMMA PutBackJoinStep ==
    ASSUME FlushInv, NEW e \in Threads, PutBackJoin(e) PROVE FlushInv'
<1>1. /\ call' \in [Threads -> Calls] /\ call'[e].pc = "putback" /\ call'[e].q = call[e].q
      /\ \A u \in Threads : u # e => call'[u] = call[u]
      /\ pending' \in [Queues -> [Contexts -> Seq(Items)]]
      /\ \A p \in Queues, d \in Contexts : p # call[e].q => pending'[p][d] = pending[p][d]
  BY PutBackJoinIs
<1>2. /\ UNCHANGED ring /\ UNCHANGED flags /\ from' = from /\ refused' = refused
      /\ inserts' = inserts /\ call[e].pc \in FlushPcs
  BY DEF PutBackJoin, At, FlushPcs
<1>3. /\ slot' = slot /\ iFreeHead' = iFreeHead /\ iFreeTail' = iFreeTail
      /\ ff' = ff /\ active' = active /\ bit' = bit
  BY <1>2 DEF ring, flags
<1>4. TypeOK'
  BY <1>1, <1>2, <1>3 DEF FlushInv, TypeOK, Calls, Indices
<1>5. Control(e)' /\ (Active(e)' => Active(e))
  BY <1>1, <1>2, <1>3, GoesOn DEF FlushPcs
<1> QED  BY <1>1, <1>2, <1>3, <1>4, <1>5, RingSame, FlushStep

-----------------------------------------------------------------------------
(* The theorem.                                                            *)

LEMMA FlushInvInit == Init => FlushInv
<1> SUFFICES ASSUME Init PROVE FlushInv
  OBVIOUS
<1>1. /\ slot = [q \in Queues |-> [i \in Slots |-> IF i < cItems THEN i + 1 ELSE None]]
      /\ iFreeHead = [q \in Queues |-> cItems] /\ iFreeTail = [q \in Queues |-> 0]
      /\ call = [t \in Threads |-> Idle] /\ inserts = 0
      /\ ff = FALSE /\ active = FALSE /\ bit = FALSE
  BY DEF Init
<1>2. cItems \in Slots /\ 0 \in Slots /\ \A i \in Slots : i < cItems => i + 1 \in Items
  BY Constants DEF Slots, Items
<1>3. TypeOK
  <2>1. slot \in [Queues -> [Slots -> Items \cup {None}]]
    BY <1>1, <1>2
  <2>2. iFreeHead \in [Queues -> Slots] /\ iFreeTail \in [Queues -> Slots]
    BY <1>1, <1>2
  <2>3. pending \in [Queues -> [Contexts -> Seq(Items)]]
    <3>1. <<>> \in Seq(Items)
      OBVIOUS
    <3> QED  BY <3>1 DEF Init
  <2>4. call \in [Threads -> Calls]
    BY <1>1, IdleIs
  <2>5. from \in [Queues -> [Items -> Contexts]] /\ refused \in [Queues -> SUBSET Items]
    BY Constants DEF Init
  <2> QED  BY <1>1, <2>1, <2>2, <2>3, <2>4, <2>5 DEF TypeOK, Calls, Indices
<1>4. \A q \in Queues : RingFilled(q)
  <2>1. ASSUME NEW q \in Queues PROVE iFreeTail[q] <= iFreeHead[q]
    BY <1>1, Constants
  <2>2. ASSUME NEW q \in Queues, NEW i \in Slots, i < iFreeHead[q] PROVE slot[q][i] \in Items
    BY <1>1, <1>2, <2>2
  <2> QED  BY <2>1, <2>2 DEF RingFilled
<1>5. \A t \in Threads : call[t].pc = "idle"
  BY <1>1 DEF Idle
<1>6. (\A t \in Threads : Control(t)) /\ Alone
  BY <1>5 DEF Control, HasItem, ReadInTime, FlushControl, Active, Alone, At, FlushPcs
<1> QED  BY <1>3, <1>4, <1>6 DEF FlushInv

LEMMA FlushInvStep == FlushInv /\ [Next]_vars => FlushInv'
<1> SUFFICES ASSUME FlushInv, [Next]_vars PROVE FlushInv'
  OBVIOUS
<1>1. ASSUME NEW t \in Inserters, Inserting(t) PROVE FlushInv'
  <2>1. t \in Threads
    BY Constants
  <2> QED  BY <1>1, <2>1, AllocStep, AllocTakeStep, AllocAgainStep, PushStep, SetFFStep, SetBitStep DEF Inserting
<1>2. ASSUME NEW e \in EMTs, Flushing(e) PROVE FlushInv'
  <2>1. e \in Threads
    BY Constants
  <2>2. CASE PDMR3QueueFlushAll(e) \/ ClearFF(e) \/ Activate(e) \/ ClearBit(e) \/ Walk(e)
    BY <2>1, <2>2, QueueFlushAllStep, ClearFFStep, ActivateStep, ClearBitStep, WalkStep
  <2>3. CASE Deactivate(e) \/ TestBit(e) \/ TestFF(e) \/ \E q \in Queues : pdmR3QueueTimer(e, q)
    BY <2>1, <2>3, DeactivateStep, TestBitStep, TestFFStep, QueueTimerStep
  <2>4. CASE TakeR3(e) \/ TakeRC(e) \/ TakeR0(e)
    BY <2>1, <2>4, TakeStep
  <2>5. CASE Feed(e) \/ Enough(e) \/ FeedDone(e) \/ PutBack(e) \/ PutBackJoin(e)
    BY <2>1, <2>5, FeedStep, EnoughStep, FeedDoneStep, PutBackStep, PutBackJoinStep
  <2> QED  BY <1>2, <2>2, <2>3, <2>4, <2>5 DEF Flushing
<1>3. CASE UNCHANGED vars
  <2>1. /\ slot' = slot /\ iFreeHead' = iFreeHead /\ iFreeTail' = iFreeTail /\ pending' = pending
        /\ call' = call /\ from' = from /\ refused' = refused /\ inserts' = inserts
    BY <1>3 DEF vars
  <2>2. ff' = ff /\ active' = active /\ bit' = bit
    BY <1>3 DEF vars
  <2>3. TypeOK'
    BY <2>1, <2>2 DEF FlushInv, TypeOK
  <2>4. \A q \in Queues : RingFilled(q)'
    BY <2>1 DEF FlushInv, RingFilled, Fresh
  <2>5. (\A t \in Threads : Control(t)') /\ Alone'
    BY <2>1, <2>2 DEF FlushInv, Control, HasItem, ReadInTime, Fresh, FlushControl, HasPending, Active, Alone, At
  <2> QED  BY <2>3, <2>4, <2>5 DEF FlushInv
<1> QED  BY <1>1, <1>2, <1>3 DEF Next

\* In every reachable state at most one thread holds the ACTIVE bit, each queue is
\* flushed by one thread at a time, and who allocates has read an item.
THEOREM FlushInvCorrect == Spec => []FlushInv
<1>1. Init => FlushInv
  BY FlushInvInit
<1>2. FlushInv /\ [Next]_vars => FlushInv'
  BY FlushInvStep
<1> QED  BY <1>1, <1>2, PTL DEF Spec

\* The types hold, and the assertion of pdmR3QueueFlush: a queue being flushed had
\* something pending, and nobody else flushes it.
THEOREM AssertionsCorrect == Spec => []Assertions
<1>1. FlushInv => Assertions
  <2> SUFFICES ASSUME FlushInv PROVE Assertions
    OBVIOUS
  <2>1. EMTs \subseteq Threads
    BY Constants
  <2>2. ASSUME NEW e \in EMTs, At(e, "take") PROVE HasPending(call[e].q)
    BY <2>1, <2>2 DEF FlushInv, Control, FlushControl
  <2>3. ASSUME NEW e \in EMTs, NEW d \in EMTs,
               FlushesQueue(e, call[d].q), FlushesQueue(d, call[d].q)
        PROVE  e = d
    BY <2>1, <2>3, SameFlusher DEF FlushesQueue
  <2> QED  BY <2>2, <2>3 DEF Assertions, FlushInv
<1> QED  BY <1>1, FlushInvCorrect, PTL

-----------------------------------------------------------------------------
(* The second invariant: who knows of an item that waits.                  *)

Told == bit \/ \E t \in Threads : Tells(t)

Fine(q, i) == i \in refused[q] \/ Told

\* The EMT will take what is on the queue's list of context c on its walk.
Comes(e, q, c) ==
    /\ call[e].pc \in FlushPcs \cup {"walk"}
    /\ call[e].q \in Forced
    /\ \/ call[e].q < q
       \/ call[e].q = q /\ (\/ call[e].pc \in {"walk", "take"}
                            \/ call[e].pc = "takeRC" /\ c # "R3"
                            \/ call[e].pc = "takeR0" /\ c = "R0")

Known(q, c) == \A i \in ToSet(pending[q][c]) : Fine(q, i) \/ \E e \in EMTs : Comes(e, q, c)

\* What is put back has been refused, or its inserter tells of it.
KnownBack(t) == At(t, "putback") /\ call[t].q \in Forced =>
                    \A i \in ToSet(call[t].list) : Fine(call[t].q, i)

BitInv ==
    /\ FlushInv
    /\ \A q \in Forced, c \in Contexts : Known(q, c)
    /\ \A t \in Threads : KnownBack(t)

-----------------------------------------------------------------------------
LEMMA ToldEnough == ASSUME FlushInv', Told' PROVE BitInv'
BY DEF BitInv, Known, KnownBack, Fine

LEMMA Stays ==
    ASSUME BitInv, FlushInv', NEW t \in Threads,
           \A u \in Threads : u # t => call'[u] = call[u],
           bit' = bit, ~Tells(t),
           \A q \in Forced : refused[q] \subseteq refused'[q],
           \A q \in Forced, c \in Contexts : \A i \in ToSet(pending'[q][c]) :
               i \in ToSet(pending[q][c]) \/ Fine(q, i),
           \A q \in Forced, c \in Contexts :
               Comes(t, q, c) /\ ToSet(pending'[q][c]) # {} => Comes(t, q, c)',
           KnownBack(t)'
    PROVE  BitInv'
<1>1. Told => Told'
  BY DEF Told, Tells
<1>2. ASSUME NEW q \in Forced, NEW i, Fine(q, i) PROVE Fine(q, i)'
  BY <1>1, <1>2 DEF Fine
<1>3. ASSUME NEW q \in Forced, NEW c \in Contexts PROVE Known(q, c)'
  <2> SUFFICES ASSUME NEW i \in ToSet(pending'[q][c]), ~Fine(q, i)'
               PROVE  \E e \in EMTs : Comes(e, q, c)'
    BY DEF Known
  <2>1. ~Fine(q, i)
    BY <1>2
  <2>2. i \in ToSet(pending[q][c])
    BY <2>1
  <2>3. PICK e \in EMTs : Comes(e, q, c)
    BY <2>1, <2>2 DEF BitInv, Known
  <2>4. CASE e = t
    BY <2>3, <2>4
  <2>5. CASE e # t
    <3>1. call'[e] = call[e]
      BY <2>5, Constants
    <3> QED  BY <2>3, <3>1 DEF Comes
  <2> QED  BY <2>4, <2>5
<1>4. ASSUME NEW u \in Threads PROVE KnownBack(u)'
  <2>1. CASE u # t
    <3> SUFFICES ASSUME call[u].pc = "putback", call[u].q \in Forced, NEW i \in ToSet(call[u].list)
                 PROVE  Fine(call[u].q, i)'
      BY <2>1 DEF KnownBack, At
    <3>1. Fine(call[u].q, i)
      BY DEF BitInv, KnownBack, At
    <3>2. i \in refused'[call[u].q] \/ Told'
      BY <1>1, <3>1 DEF Fine
    <3> QED  BY <2>1, <3>1, <3>2 DEF Fine
  <2> QED  BY <2>1
<1> QED  BY <1>3, <1>4 DEF BitInv

\* A step that is neither of the walk nor of the flush of a queue.
LEMMA StaysPlain ==
    ASSUME BitInv, FlushInv', NEW t \in Threads,
           \A u \in Threads : u # t => call'[u] = call[u],
           bit' = bit, refused' = refused, pending' = pending,
           call[t].pc \in Pcs \ (FlushPcs \cup {"ff", "bit", "walk"}),
           call'[t].pc # "putback"
    PROVE  BitInv'
<1>1. ~Tells(t) /\ KnownBack(t)' /\ \A q \in Forced, c \in Contexts : ~Comes(t, q, c)
  BY DEF Tells, KnownBack, Comes, At
<1> QED  BY <1>1, Stays

\* The inserter's steps.
LEMMA InsertingBit ==
    ASSUME BitInv, FlushInv', NEW t \in Inserters, Inserting(t) PROVE BitInv'
<1>1. TypeOK /\ FlushInv /\ t \in Threads
  BY Constants DEF BitInv, FlushInv
<1>2. ASSUME NEW q \in Queues, NEW c \in Contexts, PDMQueueAlloc(t, q, c) PROVE BitInv'
  <2>1. call'[t].pc = "alloc" /\ \A u \in Threads : u # t => call'[u] = call[u]
    BY <1>1, <1>2, ReadIs DEF PDMQueueAlloc
  <2>2. bit' = bit /\ refused' = refused /\ pending' = pending
        /\ call[t].pc \in Pcs \ (FlushPcs \cup {"ff", "bit", "walk"})
    BY <1>2 DEF PDMQueueAlloc, flags, At, Pcs, FlushPcs
  <2> QED  BY <1>1, <2>1, <2>2, StaysPlain
<1>3. CASE AllocTake(t)
  <2> DEFINE r == [call[t] EXCEPT !.pc = "push", !.i = 0]
  <2>1. call[t] \in Calls /\ call' = [call EXCEPT ![t] = r]
    BY <1>1, <1>3, Types DEF AllocTake
  <2>2. r \in Calls /\ r.pc = "push"
    BY <2>1, Constants DEF Calls, Pcs
  <2> HIDE DEF r
  <2>3. call'[t].pc = "push" /\ \A u \in Threads : u # t => call'[u] = call[u]
    BY <1>1, <2>1, <2>2, Moves
  <2>4. bit' = bit /\ refused' = refused /\ pending' = pending
        /\ call[t].pc \in Pcs \ (FlushPcs \cup {"ff", "bit", "walk"})
    BY <1>3 DEF AllocTake, flags, At, Pcs, FlushPcs
  <2> QED  BY <1>1, <2>3, <2>4, StaysPlain
<1>4. CASE AllocAgain(t)
  <2>1. bit' = bit /\ refused' = refused /\ pending' = pending
        /\ call[t].pc \in Pcs \ (FlushPcs \cup {"ff", "bit", "walk"})
    BY <1>4 DEF AllocAgain, flags, At, Pcs, FlushPcs
  <2>2. call'[t].pc \in {"idle", "alloc"} /\ \A u \in Threads : u # t => call'[u] = call[u]
    <3>1. CASE Exhausted(call[t].q)
      BY <1>1, <1>4, <3>1, ReturnIs DEF AllocAgain
    <3>2. CASE ~Exhausted(call[t].q)
      <4>1. call[t].q \in Queues /\ call[t].c \in Contexts
        BY <1>1, <1>4, Types DEF FlushInv, Control, HasItem, AllocAgain, At, Calls
      <4> QED  BY <1>1, <1>4, <3>2, <4>1, ReadIs DEF AllocAgain
    <3> QED  BY <3>1, <3>2
  <2> QED  BY <1>1, <2>1, <2>2, StaysPlain
<1>5. CASE Push(t)
  <2> DEFINE q == call[t].q
  <2>1. /\ \A u \in Threads : u # t => call'[u] = call[u]
        /\ call'[t].pc = IF q \in Forced THEN "ff" ELSE "idle"
        /\ \A p \in Queues, d \in Contexts : p # q => pending'[p][d] = pending[p][d]
        /\ \A p \in Queues : p # q => refused'[p] = refused[p]
    BY <1>1, <1>5, PushedIs
  <2>2. CASE q \in Forced
    <3>1. Told'
      BY <1>1, <2>1, <2>2 DEF Told, Tells
    <3> QED  BY <3>1, ToldEnough
  <2>3. CASE q \notin Forced
    <3>1. bit' = bit /\ ~Tells(t) /\ \A p \in Forced, c \in Contexts : ~Comes(t, p, c)
      BY <1>5 DEF Push, flags, At, Tells, Comes, FlushPcs
    <3>2. KnownBack(t)'
      BY <2>1, <2>3 DEF KnownBack, At
    <3>3. \A p \in Forced : /\ refused'[p] = refused[p]
                           /\ \A c \in Contexts : pending'[p][c] = pending[p][c]
      BY <2>1, <2>3, Constants
    <3>4. \A p \in Forced : refused[p] \subseteq refused'[p]
      BY <3>3
    <3>5. ASSUME NEW p \in Forced, NEW c \in Contexts, NEW i \in ToSet(pending'[p][c])
          PROVE  i \in ToSet(pending[p][c])
      <4>1. pending'[p][c] = pending[p][c]
        BY <3>3
      <4> QED  BY <4>1
    <3>6. \A p \in Forced, c \in Contexts : ~Comes(t, p, c)
      BY <3>1
    <3> QED  BY <1>1, <2>1, <3>1, <3>2, <3>4, <3>5, <3>6, Stays
  <2> QED  BY <2>2, <2>3
<1>6. CASE SetFF(t)
  <2>1. "bit" \in Pcs
    BY DEF Pcs
  <2>2. call'[t].pc = "bit"
    BY <1>1, <1>6, <2>1, GotoIs DEF SetFF
  <2> QED  BY <1>1, <2>2, ToldEnough DEF Told, Tells
<1>7. CASE SetBit(t)
  BY <1>7, ToldEnough DEF SetBit, Told
<1> QED  BY <1>2, <1>3, <1>4, <1>5, <1>6, <1>7 DEF Inserting

-----------------------------------------------------------------------------
(* The steps of PDMR3QueueFlushAll.                                        *)

\* The walk goes on: it still comes to the queues after this one.
LEMMA StepsOn ==
    ASSUME TypeOK, NEW e \in Threads, call'[e].pc = "walk", call'[e].q = call[e].q + 1,
           NEW q \in Forced, NEW c \in Contexts, Comes(e, q, c), call[e].q # q
    PROVE  Comes(e, q, c)'
<1> DEFINE p == call[e].q
           n == call'[e].q
<1>1. p \in Forced /\ p < q /\ n = p + 1
  BY DEF Comes
<1>2. cForced \in Nat /\ Forced = 1 .. cForced
  BY Constants
<1> HIDE DEF p, n
<1>3. n \in Forced /\ (n < q \/ n = q)
  BY <1>1, <1>2
<1> QED  BY <1>3 DEF Comes, n

LEMMA AtFlags ==
    ASSUME BitInv, FlushInv', NEW e \in EMTs,
           \/ PDMR3QueueFlushAll(e) \/ ClearFF(e) \/ Activate(e) \/ Deactivate(e)
           \/ TestBit(e) \/ TestFF(e) \/ \E q \in Queues : pdmR3QueueTimer(e, q)
    PROVE  BitInv'
<1>1. TypeOK /\ FlushInv /\ e \in Threads
  BY Constants DEF BitInv, FlushInv
<1>2. bit' = bit /\ refused' = refused /\ pending' = pending
      /\ call[e].pc \in Pcs \ (FlushPcs \cup {"ff", "bit", "walk"})
  BY DEF PDMR3QueueFlushAll, ClearFF, Activate, Deactivate, TestBit, TestFF, pdmR3QueueTimer,
         flags, At, Pcs, FlushPcs
<1>3. ASSUME NEW label \in Pcs \ {"putback"}, Goto(e, label) PROVE BitInv'
  <2>1. call'[e].pc = label /\ \A u \in Threads : u # e => call'[u] = call[u]
    BY <1>1, <1>3, GotoIs
  <2> QED  BY <1>1, <1>2, <2>1, StaysPlain
<1>4. ASSUME Return(e) PROVE BitInv'
  <2>1. call'[e].pc = "idle" /\ \A u \in Threads : u # e => call'[u] = call[u]
    BY <1>1, <1>4, ReturnIs
  <2> QED  BY <1>1, <1>2, <2>1, StaysPlain
<1>5. {"clearff", "activate", "clearbit", "testbit", "testff"} \subseteq Pcs \ {"putback"}
  BY DEF Pcs
<1>6. CASE PDMR3QueueFlushAll(e) \/ ClearFF(e) \/ Deactivate(e)
  BY <1>3, <1>5, <1>6 DEF PDMR3QueueFlushAll, ClearFF, Deactivate
<1>7. CASE Activate(e)
  BY <1>3, <1>4, <1>5, <1>7 DEF Activate
<1>8. CASE TestBit(e)
  <2>1. Goto(e, "clearff") \/ Goto(e, "testff")
    BY <1>8 DEF TestBit
  <2> QED  BY <1>3, <1>5, <2>1
<1>9. CASE TestFF(e)
  BY <1>3, <1>4, <1>5, <1>9 DEF TestFF
<1>10. ASSUME NEW q \in Queues, pdmR3QueueTimer(e, q) PROVE BitInv'
  <2> DEFINE r == [call[e] EXCEPT !.pc = "take", !.q = q]
  <2>1. call[e] \in Calls /\ call' = [call EXCEPT ![e] = r]
    BY <1>1, <1>10, Types DEF pdmR3QueueTimer
  <2>2. r \in Calls /\ r.pc = "take"
    BY <2>1, Constants DEF Calls, Pcs, FlushPcs
  <2> HIDE DEF r
  <2>3. call'[e].pc = "take" /\ \A u \in Threads : u # e => call'[u] = call[u]
    BY <1>1, <2>1, <2>2, Moves
  <2> QED  BY <1>1, <1>2, <2>3, StaysPlain
<1> QED  BY <1>6, <1>7, <1>8, <1>9, <1>10

\* The PENDING bit is cleared before the walk begins.
LEMMA ClearBitBit ==
    ASSUME BitInv, FlushInv', NEW e \in EMTs, ClearBit(e) PROVE BitInv'
<1>1. TypeOK /\ FlushInv /\ e \in Threads /\ Active(e)
  BY Constants DEF BitInv, FlushInv, ClearBit, At, Active
<1>2. /\ call'[e].pc = "walk" /\ call'[e].q = 1
      /\ \A u \in Threads : u # e => call'[u] = call[u]
  BY <1>1, ClearBitIs
<1>3. ASSUME NEW q \in Forced, NEW c \in Contexts PROVE Comes(e, q, c)'
  <2>1. 1 \in Forced /\ (1 < q \/ 1 = q)
    BY Constants
  <2> QED  BY <1>2, <2>1 DEF Comes
<1>4. ASSUME NEW t \in Threads PROVE KnownBack(t)'
  <2> SUFFICES ASSUME call'[t].pc = "putback", call'[t].q \in Forced PROVE FALSE
    BY DEF KnownBack, At
  <2>1. t # e /\ call'[t] = call[t]
    BY <1>2
  <2>2. Active(t)
    BY <2>1 DEF Active, FlushPcs
  <2> QED  BY <1>1, <2>1, <2>2 DEF FlushInv, Alone
<1>5. \A q \in Forced, c \in Contexts : Known(q, c)'
  BY <1>3 DEF Known
<1> QED  BY <1>4, <1>5 DEF BitInv

LEMMA WalkBit ==
    ASSUME BitInv, FlushInv', NEW e \in EMTs, Walk(e) PROVE BitInv'
<1>1. TypeOK /\ FlushInv /\ e \in Threads /\ "inactive" \in Pcs /\ "take" \in Pcs
  BY Constants DEF BitInv, FlushInv, Pcs, FlushPcs
<1>2. bit' = bit /\ refused' = refused /\ pending' = pending /\ ~Tells(e) /\ call[e].pc = "walk"
  BY DEF Walk, flags, At, Tells
<1>3. CASE call[e].q \notin Forced
  <2>1. call'[e].pc = "inactive" /\ \A u \in Threads : u # e => call'[u] = call[u]
    BY <1>1, <1>3, GotoIs DEF Walk
  <2>2. KnownBack(e)' /\ \A q \in Forced, c \in Contexts : ~Comes(e, q, c)
    BY <1>3, <2>1 DEF KnownBack, Comes, At
  <2> QED  BY <1>1, <1>2, <2>1, <2>2, Stays
<1>4. CASE call[e].q \in Forced /\ HasPending(call[e].q)
  <2>1. /\ call'[e].pc = "take" /\ call'[e].q = call[e].q
        /\ \A u \in Threads : u # e => call'[u] = call[u]
    BY <1>1, <1>4, GotoIs DEF Walk
  <2>2. KnownBack(e)' /\ \A q \in Forced, c \in Contexts : Comes(e, q, c) => Comes(e, q, c)'
    BY <1>2, <2>1 DEF KnownBack, Comes, At, FlushPcs
  <2> QED  BY <1>1, <1>2, <2>1, <2>2, Stays
<1>5. CASE call[e].q \in Forced /\ ~HasPending(call[e].q)
  <2>1. /\ call'[e].pc = "walk" /\ call'[e].q = call[e].q + 1
        /\ \A u \in Threads : u # e => call'[u] = call[u]
    BY <1>1, <1>5, NextQueueIs DEF Walk
  <2>2. KnownBack(e)'
    BY <2>1 DEF KnownBack, At
  <2>3. ASSUME NEW q \in Forced, NEW c \in Contexts, Comes(e, q, c), ToSet(pending'[q][c]) # {}
        PROVE  Comes(e, q, c)'
    <3>1. call[e].q # q
      BY <1>2, <1>5, <2>3, EmptyIs DEF HasPending
    <3> QED  BY <1>1, <2>1, <2>3, <3>1, StepsOn
  <2> QED  BY <1>1, <1>2, <2>1, <2>2, <2>3, Stays
<1> QED  BY <1>3, <1>4, <1>5

-----------------------------------------------------------------------------
(* The steps of pdmR3QueueFlush.                                           *)

LEMMA ForcedIs == Forced \subseteq Nat /\ \A q \in Forced : ~(q < q)
BY Constants

LEMMA TookBit ==
    ASSUME BitInv, FlushInv', NEW e \in Threads, NEW c \in Contexts,
           \/ call[e].pc = "take" /\ c = "R3" /\ Took(e, c, "takeRC")
           \/ call[e].pc = "takeRC" /\ c = "RC" /\ Took(e, c, "takeR0")
           \/ call[e].pc = "takeR0" /\ c = "R0" /\ Took(e, c, "feed")
    PROVE  BitInv'
<1> DEFINE q == call[e].q
<1>1. FlushInv /\ call[e].pc \in FlushPcs /\ {"takeRC", "takeR0", "feed"} \subseteq FlushPcs
  BY DEF BitInv, FlushPcs
<1>2. PICK label \in {"takeRC", "takeR0", "feed"} :
          /\ Took(e, c, label)
          /\ \/ call[e].pc = "take" /\ c = "R3" /\ label = "takeRC"
             \/ call[e].pc = "takeRC" /\ c = "RC" /\ label = "takeR0"
             \/ call[e].pc = "takeR0" /\ c = "R0" /\ label = "feed"
  OBVIOUS
<1>3. /\ call'[e].pc = label /\ call'[e].q = q
      /\ \A u \in Threads : u # e => call'[u] = call[u]
      /\ pending'[q][c] = <<>>
      /\ \A p \in Queues, d \in Contexts : p # q \/ d # c => pending'[p][d] = pending[p][d]
  BY <1>1, <1>2, TookIs
<1>4. bit' = bit /\ refused' = refused /\ ~Tells(e)
  BY <1>2 DEF Took, flags, Tells
<1>5. KnownBack(e)'
  BY <1>2, <1>3 DEF KnownBack, At
<1>6. ASSUME NEW p \in Forced, NEW d \in Contexts, NEW i \in ToSet(pending'[p][d])
      PROVE  i \in ToSet(pending[p][d])
  <2>1. p # q \/ d # c
    BY <1>3, EmptyIs
  <2>2. pending'[p][d] = pending[p][d]
    BY <1>3, <2>1, Constants
  <2> QED  BY <2>2
<1>7. ASSUME NEW p \in Forced, NEW d \in Contexts, Comes(e, p, d), ToSet(pending'[p][d]) # {}
      PROVE  Comes(e, p, d)'
  <2>1. p # q \/ d # c
    BY <1>3, <1>7, EmptyIs
  <2>2. d \in {"R3", "RC", "R0"} /\ q \in Forced
    BY <1>7 DEF Contexts, Comes
  <2>3. CASE q < p
    BY <1>1, <1>3, <2>2, <2>3 DEF Comes
  <2>4. CASE ~(q < p)
    <3>1. q = p /\ d # c
      BY <1>7, <2>1, <2>4 DEF Comes
    <3>2. \/ call[e].pc \in {"walk", "take"}
          \/ call[e].pc = "takeRC" /\ d # "R3"
          \/ call[e].pc = "takeR0" /\ d = "R0"
      BY <1>7, <2>4, <3>1 DEF Comes
    <3>3. \/ label = "takeRC" /\ d # "R3"
          \/ label = "takeR0" /\ d = "R0"
      BY <1>2, <2>2, <3>1, <3>2
    <3>4. \/ call'[e].pc = "takeRC" /\ d # "R3"
          \/ call'[e].pc = "takeR0" /\ d = "R0"
      BY <1>3, <3>3
    <3> QED  BY <1>1, <1>3, <2>2, <3>1, <3>4 DEF Comes
  <2> QED  BY <2>3, <2>4
<1> QED  BY <1>1, <1>3, <1>4, <1>5, <1>6, <1>7, Stays

LEMMA TakeBit ==
    ASSUME BitInv, FlushInv', NEW e \in Threads, TakeR3(e) \/ TakeRC(e) \/ TakeR0(e) PROVE BitInv'
<1>1. "R3" \in Contexts /\ "RC" \in Contexts /\ "R0" \in Contexts
  BY DEF Contexts
<1>2. \/ call[e].pc = "take" /\ Took(e, "R3", "takeRC")
      \/ call[e].pc = "takeRC" /\ Took(e, "RC", "takeR0")
      \/ call[e].pc = "takeR0" /\ Took(e, "R0", "feed")
  BY DEF TakeR3, TakeRC, TakeR0, At
<1> QED  BY <1>1, <1>2, TookBit

LEMMA FeedBit ==
    ASSUME BitInv, FlushInv', NEW e \in Threads, Feed(e) PROVE BitInv'
<1> DEFINE l == call[e].list
<1>1. /\ TypeOK /\ FlushInv /\ call[e].pc = "feed" /\ l \in Seq(Items) /\ l # <<>> /\ "feed" \in Pcs
  BY FlushQueue DEF BitInv, FlushInv, Feed, At, FlushPcs, Pcs
<1>2. Tail(l) \in Seq(Items) /\ Flush(e, "feed", Tail(l))
  <2>1. Flush(e, "feed", Tail(l))
    BY DEF Feed
  <2> HIDE DEF l
  <2> QED  BY <1>1, <2>1, HeadTail
<1> HIDE DEF l
<1>3. /\ call'[e].pc = "feed" /\ call'[e].q = call[e].q
      /\ \A u \in Threads : u # e => call'[u] = call[u]
  BY <1>1, <1>2, FlushIs
<1>4. bit' = bit /\ refused' = refused /\ pending' = pending /\ ~Tells(e)
  BY <1>1 DEF Feed, flags, Tells
<1>5. KnownBack(e)' /\ \A p \in Forced, c \in Contexts : Comes(e, p, c) => Comes(e, p, c)'
  BY <1>1, <1>3 DEF KnownBack, Comes, At
<1> QED  BY <1>1, <1>3, <1>4, <1>5, Stays

LEMMA EnoughBit ==
    ASSUME BitInv, FlushInv', NEW e \in Threads, Enough(e) PROVE BitInv'
<1> DEFINE q == call[e].q
<1>1. FlushInv /\ call[e].pc = "feed"
  BY DEF BitInv, Enough, At
<1>2. /\ q \in Queues /\ call'[e].pc = "putback" /\ call'[e].q = q /\ call'[e].list = call[e].list
      /\ \A u \in Threads : u # e => call'[u] = call[u]
      /\ refused'[q] = refused[q] \cup ToSet(call[e].list)
      /\ \A p \in Queues : p # q => refused'[p] = refused[p]
  BY <1>1, EnoughIs
<1>3. bit' = bit /\ pending' = pending /\ ~Tells(e)
  BY <1>1 DEF Enough, flags, Tells
<1>4. \A p \in Forced : refused[p] \subseteq refused'[p]
  <2> SUFFICES ASSUME NEW p \in Forced PROVE refused[p] \subseteq refused'[p]
    OBVIOUS
  <2>1. CASE p = q
    BY <1>2, <2>1
  <2>2. CASE p # q
    BY <1>2, <2>2, Constants
  <2> QED  BY <2>1, <2>2
<1>5. KnownBack(e)'
  BY <1>2 DEF KnownBack, Fine
<1>6. ASSUME NEW p \in Forced, NEW c \in Contexts, Comes(e, p, c) PROVE Comes(e, p, c)'
  BY <1>1, <1>2, <1>6 DEF Comes, FlushPcs
<1> QED  BY <1>1, <1>2, <1>3, <1>4, <1>5, <1>6, Stays

\* The flush of the queue is over: the walk goes on behind it.
LEMMA FlushedBit ==
    ASSUME FlushInv, NEW e \in Threads, call[e].pc \in {"feed", "putback"}, Flushed(e),
           NEW p \in Forced, NEW c \in Contexts, Comes(e, p, c)
    PROVE  Comes(e, p, c)'
<1>1. TypeOK /\ call[e].q \in Forced /\ call[e].q # p
  BY ForcedIs DEF FlushInv, Comes
<1>2. call'[e].pc = "walk" /\ call'[e].q = call[e].q + 1
  BY <1>1, FlushedIs
<1> QED  BY <1>1, <1>2, StepsOn

LEMMA FlushedNext ==
    ASSUME FlushInv, NEW e \in Threads, Flushed(e)
    PROVE  KnownBack(e)' /\ \A u \in Threads : u # e => call'[u] = call[u]
<1>1. TypeOK
  BY DEF FlushInv
<1>2. call'[e].pc \in {"idle", "walk"} /\ \A u \in Threads : u # e => call'[u] = call[u]
  BY <1>1, FlushedIs
<1> QED  BY <1>2 DEF KnownBack, At

LEMMA FeedDoneBit ==
    ASSUME BitInv, FlushInv', NEW e \in Threads, FeedDone(e) PROVE BitInv'
<1>1. FlushInv /\ call[e].pc = "feed" /\ Flushed(e)
  BY DEF BitInv, FeedDone, At
<1>2. bit' = bit /\ refused' = refused /\ pending' = pending /\ ~Tells(e)
  BY <1>1 DEF FeedDone, flags, Tells
<1>3. KnownBack(e)' /\ \A u \in Threads : u # e => call'[u] = call[u]
  BY <1>1, FlushedNext
<1>4. \A p \in Forced, c \in Contexts : Comes(e, p, c) => Comes(e, p, c)'
  BY <1>1, FlushedBit
<1> QED  BY <1>1, <1>2, <1>3, <1>4, Stays

LEMMA PutBackBit ==
    ASSUME BitInv, FlushInv', NEW e \in Threads, PutBack(e) PROVE BitInv'
<1> DEFINE q == call[e].q
<1>1. FlushInv /\ call[e].pc = "putback" /\ Flushed(e) /\ KnownBack(e)
  BY DEF BitInv, PutBack, At
<1>2. bit' = bit /\ refused' = refused /\ ~Tells(e)
  BY <1>1 DEF PutBack, flags, Tells
<1>3. KnownBack(e)' /\ \A u \in Threads : u # e => call'[u] = call[u]
  BY <1>1, FlushedNext
<1>4. \A p \in Forced, c \in Contexts : Comes(e, p, c) => Comes(e, p, c)'
  BY <1>1, FlushedBit
<1>5. /\ call[e].list \in Seq(Items) /\ pending'[q]["R3"] = Reverse(call[e].list)
      /\ \A p \in Queues, d \in Contexts : p # q \/ d # "R3" => pending'[p][d] = pending[p][d]
  BY <1>1, PutBackIs
<1>6. ASSUME NEW p \in Forced, NEW c \in Contexts, NEW i \in ToSet(pending'[p][c])
      PROVE  i \in ToSet(pending[p][c]) \/ Fine(p, i)
  <2>1. CASE p # q \/ c # "R3"
    <3>1. pending'[p][c] = pending[p][c]
      BY <1>5, <2>1, Constants
    <3> QED  BY <3>1
  <2>2. CASE p = q /\ c = "R3"
    <3>1. i \in ToSet(call[e].list)
      BY <1>5, <2>2, ReverseIs
    <3> QED  BY <1>1, <2>2, <3>1 DEF KnownBack, At
  <2> QED  BY <2>1, <2>2
<1> QED  BY <1>1, <1>2, <1>3, <1>4, <1>6, Stays

LEMMA PutBackJoinBit ==
    ASSUME BitInv, FlushInv', NEW e \in Threads, PutBackJoin(e) PROVE BitInv'
<1> DEFINE q == call[e].q
<1>1. FlushInv /\ call[e].pc = "putback" /\ KnownBack(e) /\ "R3" \in Contexts
  BY DEF BitInv, PutBackJoin, At, Contexts
<1>2. bit' = bit /\ refused' = refused /\ ~Tells(e)
  BY <1>1 DEF PutBackJoin, flags, Tells
<1>3. /\ call'[e].pc = "putback" /\ call'[e].q = q
      /\ \A u \in Threads : u # e => call'[u] = call[u]
      /\ ToSet(call'[e].list) = ToSet(call[e].list) \cup ToSet(pending[q]["R3"])
      /\ pending'[q]["R3"] = <<>>
      /\ \A p \in Queues, d \in Contexts : p # q \/ d # "R3" => pending'[p][d] = pending[p][d]
  BY <1>1, PutBackJoinIs
<1>4. ASSUME NEW p \in Forced, NEW c \in Contexts, Comes(e, p, c) PROVE Comes(e, p, c)'
  BY <1>1, <1>3, <1>4 DEF Comes
<1>5. ASSUME NEW p \in Forced, NEW c \in Contexts, NEW i \in ToSet(pending'[p][c])
      PROVE  i \in ToSet(pending[p][c])
  <2>1. p # q \/ c # "R3"
    BY <1>3, EmptyIs
  <2>2. pending'[p][c] = pending[p][c]
    BY <1>3, <2>1, Constants
  <2> QED  BY <2>2
<1>6. ASSUME q \in Forced, NEW i \in ToSet(call'[e].list) PROVE Fine(q, i)
  <2>1. CASE i \in ToSet(call[e].list)
    BY <1>1, <1>6, <2>1 DEF KnownBack, At
  <2>2. CASE i \in ToSet(pending[q]["R3"])
    <3> SUFFICES ASSUME NEW d \in EMTs, Comes(d, q, "R3") PROVE FALSE
      BY <1>1, <1>6, <2>2 DEF BitInv, Known
    <3>1. d \in Threads /\ Active(d) /\ Active(e)
      BY <1>1, <1>6, Constants DEF Comes, Active, FlushPcs
    <3>2. d = e
      BY <1>1, <3>1 DEF FlushInv, Alone
    <3> QED  BY <1>1, <1>6, <3>2, ForcedIs DEF Comes
  <2> QED  BY <1>3, <1>6, <2>1, <2>2
<1>7. KnownBack(e)'
  <2> SUFFICES ASSUME q \in Forced, NEW i \in ToSet(call'[e].list) PROVE Fine(q, i)'
    BY <1>3 DEF KnownBack
  <2>1. Fine(q, i)
    BY <1>6
  <2>2. Told => Told'
    <3>1. \A t \in Threads : Tells(t) => Tells(t)'
      BY <1>2, <1>3 DEF Tells
    <3> QED  BY <1>2, <3>1 DEF Told
  <2> QED  BY <1>2, <1>3, <2>1, <2>2 DEF Fine
<1> QED  BY <1>1, <1>2, <1>3, <1>4, <1>5, <1>7, Stays

-----------------------------------------------------------------------------
(* The theorem.                                                            *)

LEMMA BitInvInit == Init => BitInv
<1> SUFFICES ASSUME Init PROVE BitInv
  OBVIOUS
<1>1. FlushInv
  BY FlushInvInit
<1>2. \A q \in Forced, c \in Contexts : pending[q][c] = <<>>
  BY Constants DEF Init
<1>3. \A t \in Threads : call[t].pc = "idle"
  BY DEF Init, Idle
<1> QED  BY <1>1, <1>2, <1>3, EmptyIs DEF BitInv, Known, KnownBack, At

LEMMA BitInvStep == BitInv /\ [Next]_vars => BitInv'
<1> SUFFICES ASSUME BitInv, [Next]_vars PROVE BitInv'
  OBVIOUS
<1>1. FlushInv'
  BY FlushInvStep DEF BitInv
<1>2. CASE \E t \in Inserters : Inserting(t)
  BY <1>1, <1>2, InsertingBit
<1>3. ASSUME NEW e \in EMTs, Flushing(e) PROVE BitInv'
  <2>1. e \in Threads
    BY Constants
  <2>2. CASE \/ PDMR3QueueFlushAll(e) \/ ClearFF(e) \/ Activate(e) \/ Deactivate(e)
             \/ TestBit(e) \/ TestFF(e) \/ \E q \in Queues : pdmR3QueueTimer(e, q)
    BY <1>1, <2>2, AtFlags
  <2>3. CASE ClearBit(e) \/ Walk(e)
    BY <1>1, <2>3, ClearBitBit, WalkBit
  <2>4. CASE TakeR3(e) \/ TakeRC(e) \/ TakeR0(e)
    BY <1>1, <2>1, <2>4, TakeBit
  <2>5. CASE Feed(e) \/ Enough(e) \/ FeedDone(e) \/ PutBack(e) \/ PutBackJoin(e)
    BY <1>1, <2>1, <2>5, FeedBit, EnoughBit, FeedDoneBit, PutBackBit, PutBackJoinBit
  <2> QED  BY <1>3, <2>2, <2>3, <2>4, <2>5 DEF Flushing
<1>4. CASE UNCHANGED vars
  <2>1. bit' = bit /\ call' = call /\ refused' = refused /\ pending' = pending
    BY <1>4 DEF vars
  <2>2. Told' <=> Told
    BY <2>1 DEF Told, Tells
  <2>3. \A q, i : Fine(q, i)' <=> Fine(q, i)
    BY <2>1, <2>2 DEF Fine
  <2>4. \A e, q, c : Comes(e, q, c)' <=> Comes(e, q, c)
    BY <2>1 DEF Comes
  <2>5. \A q \in Forced, c \in Contexts : Known(q, c)'
    BY <2>1, <2>3, <2>4 DEF BitInv, Known
  <2>6. ASSUME NEW t \in Threads PROVE KnownBack(t)'
    <3>1. KnownBack(t) /\ call'[t] = call[t]
      BY <2>1 DEF BitInv
    <3> QED  BY <2>1, <2>2, <3>1 DEF KnownBack, At, Fine
  <2> QED  BY <1>1, <2>5, <2>6 DEF BitInv
<1> QED  BY <1>2, <1>3, <1>4 DEF Next

\* An item listed is on a list or in the hands of the EMT that flushes.
LEMMA ListedIs ==
    ASSUME TypeOK, NEW q \in Queues, NEW i \in ToSet(Listed(q))
    PROVE  \/ \E c \in Contexts : i \in ToSet(pending[q][c])
           \/ \E e \in EMTs : FlushesQueue(e, q) /\ i \in ToSet(call[e].list)
<1> DEFINE f == InFlush(q)
           a == Reverse(pending[q]["R0"])
           b == Reverse(pending[q]["RC"])
           c == Reverse(pending[q]["R3"])
<1>1. \A d \in Contexts : pending[q][d] \in Seq(Items)
  BY DEF TypeOK
<1>2. /\ "R3" \in Contexts /\ "RC" \in Contexts /\ "R0" \in Contexts
  BY DEF Contexts
<1>3. /\ a \in Seq(Items) /\ ToSet(a) = ToSet(pending[q]["R0"])
      /\ b \in Seq(Items) /\ ToSet(b) = ToSet(pending[q]["RC"])
      /\ c \in Seq(Items) /\ ToSet(c) = ToSet(pending[q]["R3"])
  BY <1>1, <1>2, ReverseIs
<1>4. /\ f \in Seq(Items)
      /\ ToSet(f) # {} => \E e \in EMTs : FlushesQueue(e, q) /\ f = call[e].list
  <2>1. CASE \E e \in EMTs : FlushesQueue(e, q)
    <3> DEFINE e == CHOOSE x \in EMTs : FlushesQueue(x, q)
    <3>1. e \in EMTs /\ FlushesQueue(e, q)
      BY <2>1
    <3>2. f = call[e].list
      BY <2>1 DEF InFlush
    <3> HIDE DEF e, f
    <3>3. call[e].list \in Seq(Items)
      BY <3>1, Types, Constants DEF Calls
    <3> QED  BY <3>1, <3>2, <3>3
  <2>2. CASE ~\E e \in EMTs : FlushesQueue(e, q)
    <3>1. f = <<>>
      BY <2>2 DEF InFlush
    <3>2. <<>> \in Seq(Items)
      OBVIOUS
    <3> HIDE DEF f
    <3> QED  BY <3>1, <3>2, EmptyIs
  <2> QED  BY <2>1, <2>2
<1>5. Listed(q) = f \o a \o b \o c
  BY DEF Listed
<1> HIDE DEF f, a, b, c
<1>6. ToSet(Listed(q)) = ToSet(f) \cup ToSet(a) \cup ToSet(b) \cup ToSet(c)
  <2>1. f \o a \in Seq(Items) /\ ToSet(f \o a) = ToSet(f) \cup ToSet(a)
    BY <1>3, <1>4, JoinIs
  <2> DEFINE g == f \o a
  <2>2. g \in Seq(Items) /\ ToSet(g) = ToSet(f) \cup ToSet(a) /\ Listed(q) = g \o b \o c
    BY <1>5, <2>1
  <2> HIDE DEF g
  <2>3. g \o b \in Seq(Items) /\ ToSet(g \o b) = ToSet(g) \cup ToSet(b)
    BY <1>3, <2>2, JoinIs
  <2> DEFINE h == g \o b
  <2>4. h \in Seq(Items) /\ ToSet(h) = ToSet(g) \cup ToSet(b) /\ Listed(q) = h \o c
    BY <2>2, <2>3
  <2> HIDE DEF h
  <2>5. ToSet(h \o c) = ToSet(h) \cup ToSet(c)
    BY <1>3, <2>4, JoinIs
  <2> QED  BY <2>2, <2>4, <2>5
<1>7. CASE i \in ToSet(f)
  BY <1>4, <1>7
<1>8. CASE i \notin ToSet(f)
  BY <1>2, <1>3, <1>6, <1>8
<1> QED  BY <1>7, <1>8

LEMMA BitKnows == BitInv => PendingBitKnows
<1> SUFFICES ASSUME BitInv, NEW q \in Forced, NEW i \in Items, Waits(q, i), ~Told
             PROVE  \E e \in EMTs : WillFlush(e, q)
  BY DEF PendingBitKnows, Told
<1>1. TypeOK /\ q \in Queues /\ i \in ToSet(Listed(q)) /\ ~Fine(q, i)
  BY Constants DEF BitInv, FlushInv, Waits, Fine
<1>2. ASSUME NEW c \in Contexts, i \in ToSet(pending[q][c])
      PROVE  \E e \in EMTs : WillFlush(e, q)
  <2>1. PICK e \in EMTs : Comes(e, q, c)
    BY <1>1, <1>2 DEF BitInv, Known
  <2>2. WillFlush(e, q)
    BY <2>1 DEF Comes, WillFlush
  <2> QED  BY <2>2
<1>3. ASSUME NEW e \in EMTs, FlushesQueue(e, q), i \in ToSet(call[e].list)
      PROVE  WillFlush(e, q)
  <2>1. e \in Threads /\ call[e].pc \in FlushPcs /\ call[e].q = q
    BY <1>3, Constants DEF FlushesQueue
  <2>2. call[e].pc # "putback"
    BY <1>1, <1>3, <2>1 DEF BitInv, KnownBack, At
  <2> QED  BY <2>1, <2>2 DEF WillFlush
<1> QED  BY <1>1, <1>2, <1>3, ListedIs

\* No insert is missed: while an item waits in a forced queue the PENDING bit is
\* set, or is about to be by its inserter, or the EMT that flushes has the queue
\* before it.
THEOREM PendingBitKnowsCorrect == Spec => []PendingBitKnows
<1>1. Init => BitInv
  BY BitInvInit
<1>2. BitInv /\ [Next]_vars => BitInv'
  BY BitInvStep
<1>3. BitInv => PendingBitKnows
  BY BitKnows
<1> QED  BY <1>1, <1>2, <1>3, PTL DEF Spec

-----------------------------------------------------------------------------
(* The refinement: what comes before what in a list.                       *)

\* In s some i comes before some j.
Precedes(i, j, s) == \E m, n \in DOMAIN s : m < n /\ s[m] = i /\ s[n] = j

\* The pairs of a sequence are those of which the first precedes the second.
LEMMA PairsAre ==
    ASSUME NEW s \in Seq(Items)
    PROVE  /\ Pairs(s) \subseteq Items \X Items
           /\ \A i, j : <<i, j>> \in Pairs(s) <=> Precedes(i, j, s)
<1>1. \A m \in DOMAIN s : s[m] \in Items
  OBVIOUS
<1>2. ASSUME NEW i, NEW j, <<i, j>> \in Pairs(s) PROVE Precedes(i, j, s)
  <2>1. PICK p \in (DOMAIN s) \X (DOMAIN s) : p[1] < p[2] /\ <<i, j>> = <<s[p[1]], s[p[2]]>>
    BY <1>2 DEF Pairs
  <2>2. p[1] \in DOMAIN s /\ p[2] \in DOMAIN s /\ i = s[p[1]] /\ j = s[p[2]]
    BY <2>1
  <2> QED  BY <2>1, <2>2 DEF Precedes
<1>3. ASSUME NEW i, NEW j, Precedes(i, j, s) PROVE <<i, j>> \in Pairs(s)
  <2>1. PICK m \in DOMAIN s, n \in DOMAIN s : m < n /\ s[m] = i /\ s[n] = j
    BY <1>3 DEF Precedes
  <2> DEFINE p == <<m, n>>
  <2>2. p \in (DOMAIN s) \X (DOMAIN s) /\ p[1] = m /\ p[2] = n
    OBVIOUS
  <2> HIDE DEF p
  <2>3. <<i, j>> = <<s[p[1]], s[p[2]]>> /\ p[1] < p[2]
    BY <2>1, <2>2
  <2> QED  BY <2>2, <2>3 DEF Pairs
<1>4. Pairs(s) \subseteq Items \X Items
  BY <1>1 DEF Pairs
<1> QED  BY <1>2, <1>3, <1>4

LEMMA PrecedesEmpty == \A i, j : ~Precedes(i, j, <<>>)
BY DEF Precedes

LEMMA PrecedesIn ==
    ASSUME NEW s \in Seq(Items), NEW i, NEW j, Precedes(i, j, s)
    PROVE  i \in ToSet(s) /\ j \in ToSet(s)
BY ElementsAre DEF Precedes

LEMMA PrecedesJoin ==
    ASSUME NEW s \in Seq(Items), NEW u \in Seq(Items)
    PROVE  \A i, j : Precedes(i, j, s \o u) <=>
              (Precedes(i, j, s) \/ Precedes(i, j, u) \/ (i \in ToSet(s) /\ j \in ToSet(u)))
<1> DEFINE w == s \o u  a == Len(s)  b == Len(u)
<1>1. /\ a \in Nat /\ b \in Nat /\ DOMAIN s = 1 .. a /\ DOMAIN u = 1 .. b /\ DOMAIN w = 1 .. a + b
      /\ \A m \in 1 .. a : w[m] = s[m]
      /\ \A m \in 1 .. b : w[a + m] = u[m]
      /\ \A m \in 1 .. a + b : m > a => w[m] = u[m - a]
  OBVIOUS
<1>2. ToSet(s) = {s[m] : m \in 1 .. a} /\ ToSet(u) = {u[m] : m \in 1 .. b}
  BY ElementsAre
<1> HIDE DEF w, a, b
<1>3. ASSUME NEW i, NEW j, Precedes(i, j, w)
      PROVE  Precedes(i, j, s) \/ Precedes(i, j, u) \/ (i \in ToSet(s) /\ j \in ToSet(u))
  <2>1. PICK m \in 1 .. a + b, n \in 1 .. a + b : m < n /\ w[m] = i /\ w[n] = j
    BY <1>1, <1>3 DEF Precedes
  <2>2. CASE n <= a
    <3>1. m \in 1 .. a /\ n \in 1 .. a
      BY <1>1, <2>1, <2>2
    <3> QED  BY <1>1, <2>1, <3>1 DEF Precedes
  <2>3. CASE m > a
    <3>1. m - a \in 1 .. b /\ n - a \in 1 .. b /\ m - a < n - a /\ n > a
      BY <1>1, <2>1, <2>3
    <3>2. u[m - a] = i /\ u[n - a] = j
      BY <1>1, <2>1, <2>3, <3>1
    <3> QED  BY <1>1, <3>1, <3>2 DEF Precedes
  <2>4. CASE m <= a /\ n > a
    <3>1. m \in 1 .. a /\ n - a \in 1 .. b
      BY <1>1, <2>1, <2>4
    <3>2. s[m] = i /\ u[n - a] = j
      BY <1>1, <2>1, <2>4, <3>1
    <3> QED  BY <1>2, <3>1, <3>2
  <2> QED  BY <1>1, <2>1, <2>2, <2>3, <2>4
<1>4. ASSUME NEW i, NEW j, Precedes(i, j, s) PROVE Precedes(i, j, w)
  <2>1. PICK m \in 1 .. a, n \in 1 .. a : m < n /\ s[m] = i /\ s[n] = j
    BY <1>1, <1>4 DEF Precedes
  <2>2. m \in 1 .. a + b /\ n \in 1 .. a + b
    BY <1>1
  <2> QED  BY <1>1, <2>1, <2>2 DEF Precedes
<1>5. ASSUME NEW i, NEW j, Precedes(i, j, u) PROVE Precedes(i, j, w)
  <2>1. PICK m \in 1 .. b, n \in 1 .. b : m < n /\ u[m] = i /\ u[n] = j
    BY <1>1, <1>5 DEF Precedes
  <2>2. a + m \in 1 .. a + b /\ a + n \in 1 .. a + b /\ a + m < a + n
    BY <1>1, <2>1
  <2> QED  BY <1>1, <2>1, <2>2 DEF Precedes
<1>6. ASSUME NEW i \in ToSet(s), NEW j \in ToSet(u) PROVE Precedes(i, j, w)
  <2>1. PICK m \in 1 .. a, n \in 1 .. b : s[m] = i /\ u[n] = j
    BY <1>2
  <2>2. m \in 1 .. a + b /\ a + n \in 1 .. a + b /\ m < a + n
    BY <1>1
  <2> QED  BY <1>1, <2>1, <2>2 DEF Precedes
<1> QED  BY <1>3, <1>4, <1>5, <1>6 DEF w

LEMMA PrecedesPush ==
    ASSUME NEW s \in Seq(Items), NEW x \in Items
    PROVE  \A i, j : Precedes(i, j, <<x>> \o s) <=> (Precedes(i, j, s) \/ (i = x /\ j \in ToSet(s)))
<1>1. <<x>> \in Seq(Items) /\ ToSet(<<x>>) = {x}
  BY DEF ToSet
<1>2. \A i, j : ~Precedes(i, j, <<x>>)
  BY DEF Precedes
<1> DEFINE w == <<x>>
<1> HIDE DEF w
<1>3. \A i, j : Precedes(i, j, w \o s) <=> (Precedes(i, j, s) \/ (i = x /\ j \in ToSet(s)))
  BY <1>1, <1>2, PrecedesJoin DEF w
<1> QED  BY <1>3 DEF w

LEMMA PrecedesPop ==
    ASSUME NEW s \in Seq(Items), s # <<>>
    PROVE  /\ Head(s) \in Items /\ Tail(s) \in Seq(Items)
           /\ ToSet(s) = {Head(s)} \cup ToSet(Tail(s))
           /\ \A i, j : Precedes(i, j, s) <=>
                (Precedes(i, j, Tail(s)) \/ (i = Head(s) /\ j \in ToSet(Tail(s))))
<1> DEFINE x == Head(s)  u == Tail(s)
<1>1. x \in Items /\ u \in Seq(Items)
  OBVIOUS
<1>2. s = <<x>> \o u
  OBVIOUS
<1> HIDE DEF x, u
<1>3. \A i, j : Precedes(i, j, s) <=> (Precedes(i, j, u) \/ (i = x /\ j \in ToSet(u)))
  BY <1>1, <1>2, PrecedesPush
<1>4. ToSet(s) = {x} \cup ToSet(u)
  BY <1>1, <1>2, PushIs
<1> QED  BY <1>1, <1>3, <1>4 DEF x, u

LEMMA PrecedesReverse ==
    ASSUME NEW s \in Seq(Items)
    PROVE  /\ Reverse(s) \in Seq(Items) /\ ToSet(Reverse(s)) = ToSet(s)
           /\ \A i, j : Precedes(i, j, Reverse(s)) <=> Precedes(j, i, s)
           /\ Reverse(Reverse(s)) = s
<1> DEFINE n == Len(s)  r == Reverse(s)
<1>1. r \in Seq(Items) /\ ToSet(r) = ToSet(s)
  BY ReverseIs
<1>2. /\ n \in Nat /\ DOMAIN s = 1 .. n /\ s = [m \in 1 .. n |-> s[m]]
      /\ r = [m \in 1 .. n |-> s[n - m + 1]]
  BY DEF Reverse
<1> HIDE DEF n
<1> HIDE DEF r
<1>3. /\ DOMAIN r = 1 .. n /\ \A m \in 1 .. n : r[m] = s[n - m + 1] /\ n - m + 1 \in 1 .. n
      /\ \A m \in 1 .. n : s[m] = r[n - m + 1]
  <2>0. \A m \in 1 .. n : n - m + 1 \in 1 .. n
    BY <1>2
  <2>1. DOMAIN r = 1 .. n /\ \A m \in 1 .. n : r[m] = s[n - m + 1] /\ n - m + 1 \in 1 .. n
    BY <1>2, <2>0
  <2>2. ASSUME NEW m \in 1 .. n PROVE s[m] = r[n - m + 1]
    <3>1. n - m + 1 \in 1 .. n /\ n - (n - m + 1) + 1 = m
      BY <1>2
    <3> QED  BY <2>1, <3>1
  <2> QED  BY <2>1, <2>2
<1>4. Len(r) = n
  BY <1>1, <1>2, <1>3
<1>5. ASSUME NEW i, NEW j, Precedes(i, j, r) PROVE Precedes(j, i, s)
  <2>1. PICK k \in 1 .. n, m \in 1 .. n : k < m /\ r[k] = i /\ r[m] = j
    BY <1>3, <1>5 DEF Precedes
  <2>2. n - m + 1 \in 1 .. n /\ n - k + 1 \in 1 .. n /\ n - m + 1 < n - k + 1
    BY <1>2, <2>1
  <2>3. s[n - k + 1] = i /\ s[n - m + 1] = j
    BY <1>3, <2>1
  <2> QED  BY <1>2, <2>2, <2>3 DEF Precedes
<1>6. ASSUME NEW i, NEW j, Precedes(j, i, s) PROVE Precedes(i, j, r)
  <2>1. PICK k \in 1 .. n, m \in 1 .. n : k < m /\ s[k] = j /\ s[m] = i
    BY <1>2, <1>6 DEF Precedes
  <2>2. n - m + 1 \in 1 .. n /\ n - k + 1 \in 1 .. n /\ n - m + 1 < n - k + 1
    BY <1>2, <2>1
  <2>3. r[n - k + 1] = j /\ r[n - m + 1] = i
    BY <1>3, <2>1
  <2> QED  BY <1>3, <2>2, <2>3 DEF Precedes
<1>7. Reverse(r) = s
  <2>1. Reverse(r) = [m \in 1 .. n |-> r[n - m + 1]]
    BY <1>4 DEF Reverse
  <2>2. \A m \in 1 .. n : r[n - m + 1] = s[m]
    BY <1>3
  <2> QED  BY <1>2, <2>1, <2>2
<1> QED  BY <1>1, <1>5, <1>6, <1>7 DEF r

-----------------------------------------------------------------------------
(* The third invariant: every item is in the ring once, on one list once,  *)
(* or in the hands of the one thread that inserts it.                      *)

\* No two slots hold the same free item.
RingOnce(q) ==
    /\ \A i \in FreeSlots(q) : slot[q][i] \in Items
    /\ \A i, j \in FreeSlots(q) : slot[q][i] = slot[q][j] => i = j

\* An item waits once, and is not free then.
ListedOnce(q) ==
    /\ \A i \in Items : ~Precedes(i, i, Listed(q))
    /\ \A i \in ToSet(Listed(q)) : i \notin FreeItems[q]

\* A queue is used outside ring-3 only if it is enabled there; unless refused
\* items are put back on the ring-3 list, each list is of its context's items.
ListedFrom(q) ==
    /\ \A i \in ToSet(Listed(q)) :
           from[q][i] \in Lines /\ (q \notin RZQueues => from[q][i] = "R3")
    /\ q \in Ordered => \A c \in Contexts : \A i \in ToSet(pending[q][c]) : from[q][i] = c

QueueInv(q) == RingOnce(q) /\ ListedOnce(q) /\ ListedFrom(q)

\* The item of a thread that is about to insert it is its own.
Own(t) == At(t, "push") => /\ call[t].item \notin FreeItems[call[t].q]
                           /\ call[t].item \notin ToSet(Listed(call[t].q))

Inserts(t) == call[t].pc \in {"alloc", "push"} =>
    call[t].c = "R3" \/ (call[t].q \in RZQueues /\ call[t].c \in RZContexts)

\* What the thread that flushes has taken so far, if the queue is ordered.
TakenFrom(t) ==
    call[t].q \in Ordered => \A i \in ToSet(call[t].list) :
        /\ At(t, "takeRC") => from[call[t].q][i] = "R3"
        /\ At(t, "takeR0") => from[call[t].q][i] \in {"R3", "RC"}

FlushList(t) ==
    /\ call[t].pc \in FlushPcs => t \in EMTs
    /\ call[t].pc \notin FlushPcs \ {"take"} => call[t].list = <<>>
    /\ At(t, "putback") => call[t].q \in Fussy
    /\ TakenFrom(t)

ThreadInv(t) == Own(t) /\ Inserts(t) /\ FlushList(t)

OwnItems == \A t, u \in Threads :
    At(t, "push") /\ At(u, "push") /\ call[t].q = call[u].q /\ call[t].item = call[u].item => t = u

MailParts == /\ \A q \in Queues : QueueInv(q)
             /\ \A t \in Threads : ThreadInv(t)
             /\ OwnItems

\* The item a thread has read is still there when it moves the index: while it
\* was about it, the index has not come round.
StillThere(t) == ~Exhausted(call[t].q) /\ slot[call[t].q][call[t].i] = call[t].item

NeverStale == [][\A t \in Inserters : AllocTake(t) => StillThere(t)]_vars

-----------------------------------------------------------------------------
(* What a queue holds.                                                     *)

MailInv == FlushInv /\ MailParts

\* What a thread has taken off the lists of a queue.
TakenBy(t, q) == IF FlushesQueue(t, q) THEN call[t].list ELSE <<>>

FlusherOf(q) == /\ \A e \in EMTs : FlushesQueue(e, q) => InFlush(q) = call[e].list
                /\ (\A e \in EMTs : ~FlushesQueue(e, q)) => InFlush(q) = <<>>
                /\ InFlush(q) \in Seq(Items)
                /\ \A e, d \in EMTs : FlushesQueue(e, q) /\ FlushesQueue(d, q) => e = d

FlushersKnown == \A q \in Queues : FlusherOf(q)

LEMMA FlusherIs == FlushInv => FlushersKnown
<1> SUFFICES ASSUME FlushInv, NEW q \in Queues PROVE FlusherOf(q)
  BY DEF FlushersKnown
<1>1. EMTs \subseteq Threads /\ \A e \in Threads : call[e].list \in Seq(Items)
  BY Types, Constants DEF FlushInv, Calls
<1>2. ASSUME NEW e \in EMTs, NEW d \in EMTs, FlushesQueue(e, q), FlushesQueue(d, q) PROVE e = d
  BY <1>1, <1>2, SameFlusher DEF FlushesQueue
<1>3. ASSUME NEW e \in EMTs, FlushesQueue(e, q) PROVE InFlush(q) = call[e].list
  <2> DEFINE d == CHOOSE d \in EMTs : FlushesQueue(d, q)
  <2>1. d \in EMTs /\ FlushesQueue(d, q)
    BY <1>3
  <2>2. d = e
    BY <1>2, <1>3, <2>1
  <2>3. InFlush(q) = call[d].list
    BY <1>3 DEF InFlush
  <2> QED  BY <2>2, <2>3
<1>4. (\A e \in EMTs : ~FlushesQueue(e, q)) => InFlush(q) = <<>>
  BY DEF InFlush
<1>5. <<>> \in Seq(Items)
  OBVIOUS
<1>6. InFlush(q) \in Seq(Items)
  BY <1>1, <1>3, <1>4, <1>5
<1> QED  BY <1>2, <1>3, <1>4, <1>6 DEF FlusherOf

\* What is taken off a queue's lists changes only with what the thread that
\* takes a step has of them.
LEMMA InFlushKept ==
    ASSUME FlushInv, FlushInv', NEW t \in Threads, NEW q \in Queues,
           \A u \in Threads : u # t => call'[u] = call[u],
           call[t].pc \in FlushPcs => t \in EMTs, call'[t].pc \in FlushPcs => t \in EMTs,
           TakenBy(t, q)' = TakenBy(t, q)
    PROVE  InFlush(q)' = InFlush(q)
<1>1. FlushersKnown'
  BY FlusherIs, PTL
<1>2. FlusherOf(q) /\ FlusherOf(q)' /\ EMTs \subseteq Threads
  BY <1>1, FlusherIs, Constants DEF FlushersKnown
<1>3. \A u \in EMTs : u # t => (FlushesQueue(u, q)' <=> FlushesQueue(u, q)) /\ call'[u].list = call[u].list
  BY <1>2 DEF FlushesQueue
<1>4. FlushesQueue(t, q) => t \in EMTs
  BY DEF FlushesQueue
<1>5. FlushesQueue(t, q)' => t \in EMTs
  BY DEF FlushesQueue
<1>6. ASSUME NEW u \in EMTs, u # t, FlushesQueue(u, q) PROVE InFlush(q)' = InFlush(q)
  BY <1>2, <1>3, <1>6 DEF FlusherOf
<1>7. ASSUME \A u \in EMTs : u # t => ~FlushesQueue(u, q) PROVE InFlush(q)' = InFlush(q)
  <2>1. InFlush(q) = TakenBy(t, q)
    BY <1>2, <1>4, <1>7 DEF FlusherOf, TakenBy
  <2>2. InFlush(q)' = TakenBy(t, q)'
    BY <1>2, <1>3, <1>5, <1>7 DEF FlusherOf, TakenBy
  <2> QED  BY <2>1, <2>2
<1> QED  BY <1>6, <1>7

LEMMA ListedParts ==
    ASSUME FlushInv, NEW q \in Queues
    PROVE  /\ \A c \in Contexts : /\ pending[q][c] \in Seq(Items)
                                  /\ Reverse(pending[q][c]) \in Seq(Items)
                                  /\ ToSet(Reverse(pending[q][c])) = ToSet(pending[q][c])
           /\ InFlush(q) \in Seq(Items) /\ Listed(q) \in Seq(Items)
           /\ "R3" \in Contexts /\ "RC" \in Contexts /\ "R0" \in Contexts
<1>1. \A c \in Contexts : pending[q][c] \in Seq(Items)
  BY DEF FlushInv, TypeOK
<1>2. \A c \in Contexts : Reverse(pending[q][c]) \in Seq(Items) /\ ToSet(Reverse(pending[q][c])) = ToSet(pending[q][c])
  BY <1>1, PrecedesReverse
<1>3. InFlush(q) \in Seq(Items)
  BY FlusherIs DEF FlusherOf, FlushersKnown
<1>4. "R3" \in Contexts /\ "RC" \in Contexts /\ "R0" \in Contexts
  BY DEF Contexts
<1> DEFINE f == InFlush(q)  a == Reverse(pending[q]["R0"])  b == Reverse(pending[q]["RC"])
           d == Reverse(pending[q]["R3"])
<1>5. f \in Seq(Items) /\ a \in Seq(Items) /\ b \in Seq(Items) /\ d \in Seq(Items)
  BY <1>2, <1>3, <1>4
<1>6. Listed(q) = f \o a \o b \o d
  BY DEF Listed
<1> HIDE DEF f, a, b, d
<1>7. Listed(q) \in Seq(Items)
  BY <1>5, <1>6
<1> QED  BY <1>1, <1>2, <1>3, <1>4, <1>7

\* w is four lists, one after the other.
FourLists(w, f, a, b, d) ==
    /\ w \in Seq(Items)
    /\ ToSet(w) = ToSet(f) \cup ToSet(a) \cup ToSet(b) \cup ToSet(d)
    /\ \A i, j : Precedes(i, j, w) <=>
         \/ Precedes(i, j, f) \/ Precedes(i, j, a) \/ Precedes(i, j, b) \/ Precedes(i, j, d)
         \/ i \in ToSet(f) /\ j \in ToSet(a) \cup ToSet(b) \cup ToSet(d)
         \/ i \in ToSet(a) /\ j \in ToSet(b) \cup ToSet(d)
         \/ i \in ToSet(b) /\ j \in ToSet(d)

LEMMA Blocks ==
    ASSUME NEW f \in Seq(Items), NEW a \in Seq(Items), NEW b \in Seq(Items), NEW d \in Seq(Items)
    PROVE  FourLists(f \o a \o b \o d, f, a, b, d)
<1> DEFINE g == f \o a
           h == g \o b
           w == h \o d
<1>1. /\ g \in Seq(Items) /\ ToSet(g) = ToSet(f) \cup ToSet(a)
      /\ \A i, j : Precedes(i, j, g) <=>
            (Precedes(i, j, f) \/ Precedes(i, j, a) \/ (i \in ToSet(f) /\ j \in ToSet(a)))
  BY JoinIs, PrecedesJoin
<1> HIDE DEF g
<1>2. /\ h \in Seq(Items) /\ ToSet(h) = ToSet(g) \cup ToSet(b)
      /\ \A i, j : Precedes(i, j, h) <=>
            (Precedes(i, j, g) \/ Precedes(i, j, b) \/ (i \in ToSet(g) /\ j \in ToSet(b)))
  BY <1>1, JoinIs, PrecedesJoin
<1> HIDE DEF h
<1>3. /\ w \in Seq(Items) /\ ToSet(w) = ToSet(h) \cup ToSet(d)
      /\ \A i, j : Precedes(i, j, w) <=>
            (Precedes(i, j, h) \/ Precedes(i, j, d) \/ (i \in ToSet(h) /\ j \in ToSet(d)))
  BY <1>2, JoinIs, PrecedesJoin
<1> HIDE DEF w
<1>4. w = f \o a \o b \o d
  BY DEF w, h, g
<1>5. ToSet(w) = ToSet(f) \cup ToSet(a) \cup ToSet(b) \cup ToSet(d)
  BY <1>1, <1>2, <1>3
<1>6. ASSUME NEW i, NEW j
      PROVE  Precedes(i, j, w) <=>
                \/ Precedes(i, j, f) \/ Precedes(i, j, a) \/ Precedes(i, j, b) \/ Precedes(i, j, d)
                \/ i \in ToSet(f) /\ j \in ToSet(a) \cup ToSet(b) \cup ToSet(d)
                \/ i \in ToSet(a) /\ j \in ToSet(b) \cup ToSet(d)
                \/ i \in ToSet(b) /\ j \in ToSet(d)
  BY <1>1, <1>2, <1>3
<1>7. FourLists(w, f, a, b, d)
  BY <1>3, <1>5, <1>6 DEF FourLists
<1> QED  BY <1>4, <1>7

LEMMA MailIs ==
    MailInv => /\ FlushInv /\ TypeOK /\ OwnItems
               /\ \A q \in Queues : RingOnce(q) /\ ListedOnce(q) /\ ListedFrom(q)
               /\ \A t \in Threads : Own(t) /\ Inserts(t) /\ FlushList(t)
BY DEF MailInv, MailParts, FlushInv, QueueInv, ThreadInv

\* What the mailbox sees of a queue.
LEMMA Views ==
    ASSUME NEW q \in Queues
    PROVE  /\ FreeItems[q] = {slot[q][i] : i \in FreeSlots(q)}
           /\ DOMAIN Waiting[q] = Lines
           /\ \A c \in Lines : Waiting[q][c] = {i \in ToSet(Listed(q)) : from[q][i] = c}
           /\ q \in Ordered =>
                Order[q] = {p \in Pairs(Listed(q)) : from[q][p[1]] = from[q][p[2]]}
           /\ q \notin Ordered => Order[q] = {}
BY DEF FreeItems, Waiting, Order

\* A pair of elements of one line, the first of which comes first.
LEMMA OrderIs ==
    ASSUME FlushInv, NEW q \in Queues
    PROVE  /\ Order[q] \subseteq Items \X Items
           /\ \A i, j : <<i, j>> \in Order[q] <=>
                  q \in Ordered /\ Precedes(i, j, Listed(q)) /\ from[q][i] = from[q][j]
<1>1. Listed(q) \in Seq(Items)
  BY ListedParts
<1>2. /\ Pairs(Listed(q)) \subseteq Items \X Items
      /\ \A i, j : <<i, j>> \in Pairs(Listed(q)) <=> Precedes(i, j, Listed(q))
  BY <1>1, PairsAre
<1> DEFINE P == Pairs(Listed(q))
<1> HIDE DEF P
<1>3. CASE q \in Ordered
  <2>1. Order[q] = {p \in P : from[q][p[1]] = from[q][p[2]]}
    BY <1>3, Views DEF P
  <2>2. \A i, j : <<i, j>> \in Order[q] <=> <<i, j>> \in P /\ from[q][i] = from[q][j]
    BY <2>1
  <2>3. Order[q] \subseteq Items \X Items
    BY <1>2, <2>1 DEF P
  <2> QED  BY <1>2, <1>3, <2>2, <2>3 DEF P
<1>4. CASE q \notin Ordered
  BY <1>4, Views
<1> QED  BY <1>3, <1>4

OrderOf(q) == /\ Order[q] \subseteq Items \X Items
              /\ \A i, j : <<i, j>> \in Order[q] <=>
                     q \in Ordered /\ Precedes(i, j, Listed(q)) /\ from[q][i] = from[q][j]

OrdersKnown == \A q \in Queues : OrderOf(q)

LEMMA OrdersAre == FlushInv => OrdersKnown
BY OrderIs DEF OrdersKnown, OrderOf

LEMMA OrderNext ==
    ASSUME NEW q \in Queues, OrderOf(q)'
    PROVE  /\ Order'[q] \subseteq Items \X Items
           /\ \A i, j : <<i, j>> \in Order'[q] <=>
                  q \in Ordered /\ Precedes(i, j, Listed(q))' /\ from'[q][i] = from'[q][j]
<1>1. Order'[q] \subseteq Items \X Items
  BY DEF OrderOf
<1>2. \A i, j : <<i, j>> \in Order'[q] =>
                  q \in Ordered /\ Precedes(i, j, Listed(q))' /\ from'[q][i] = from'[q][j]
  BY DEF OrderOf
<1>3. \A i, j : q \in Ordered /\ Precedes(i, j, Listed(q))' /\ from'[q][i] = from'[q][j]
            => <<i, j>> \in Order'[q]
  BY DEF OrderOf
<1> QED  BY <1>1, <1>2, <1>3

LEMMA ListedHas ==
    ASSUME MailInv, NEW q \in Queues
    PROVE  /\ \A c \in Contexts : ToSet(pending[q][c]) \subseteq ToSet(Listed(q))
           /\ \A e \in EMTs : FlushesQueue(e, q) => ToSet(call[e].list) \subseteq ToSet(Listed(q))
           /\ ToSet(Listed(q)) \subseteq Items
<1> DEFINE f == InFlush(q)  a == Reverse(pending[q]["R0"])  b == Reverse(pending[q]["RC"])
           d == Reverse(pending[q]["R3"])
<1>1. FlushInv
  BY MailIs
<1>2. /\ f \in Seq(Items) /\ a \in Seq(Items) /\ b \in Seq(Items) /\ d \in Seq(Items)
      /\ ToSet(a) = ToSet(pending[q]["R0"]) /\ ToSet(b) = ToSet(pending[q]["RC"])
      /\ ToSet(d) = ToSet(pending[q]["R3"]) /\ Listed(q) \in Seq(Items)
  BY <1>1, ListedParts
<1>3. Listed(q) = f \o a \o b \o d
  BY DEF Listed
<1>4. \A e \in EMTs : FlushesQueue(e, q) => f = call[e].list
  BY <1>1, FlusherIs DEF FlushersKnown, FlusherOf
<1> HIDE DEF f, a, b, d
<1>5. ToSet(Listed(q)) = ToSet(f) \cup ToSet(a) \cup ToSet(b) \cup ToSet(d)
  BY <1>2, <1>3, Blocks DEF FourLists
<1>6. ToSet(Listed(q)) \subseteq Items
  BY <1>2, ElementsAre
<1>7. \A c \in Contexts : ToSet(pending[q][c]) \subseteq ToSet(Listed(q))
  BY <1>2, <1>5 DEF Contexts
<1>8. \A e \in EMTs : FlushesQueue(e, q) => ToSet(call[e].list) \subseteq ToSet(Listed(q))
  BY <1>4, <1>5
<1> QED  BY <1>6, <1>7, <1>8

LEMMA FreeSame ==
    ASSUME NEW q \in Queues, slot'[q] = slot[q], iFreeHead'[q] = iFreeHead[q], iFreeTail'[q] = iFreeTail[q]
    PROVE  FreeItems'[q] = FreeItems[q] /\ (RingOnce(q)' <=> RingOnce(q))
<1>1. FreeSlots(q)' = FreeSlots(q)
  BY DEF FreeSlots
<1>2. RingOnce(q)' <=> RingOnce(q)
  BY <1>1 DEF RingOnce
<1>3. FreeItems'[q] = FreeItems[q]
  BY <1>1 DEF FreeItems
<1> QED  BY <1>2, <1>3

LEMMA BoxSame ==
    ASSUME \A q \in Queues : FreeItems'[q] = FreeItems[q] /\ Waiting'[q] = Waiting[q] /\ Order'[q] = Order[q]
    PROVE  UNCHANGED Box!vars
<1>1. FreeItems' = FreeItems
  <2>1. FreeItems = [q \in Queues |-> FreeItems[q]] /\ FreeItems' = [q \in Queues |-> FreeItems'[q]]
    BY DEF FreeItems
  <2> QED  BY <2>1
<1>2. Waiting' = Waiting
  <2>1. Waiting = [q \in Queues |-> Waiting[q]] /\ Waiting' = [q \in Queues |-> Waiting'[q]]
    BY DEF Waiting
  <2> QED  BY <2>1
<1>3. Order' = Order
  <2>1. Order = [q \in Queues |-> Order[q]] /\ Order' = [q \in Queues |-> Order'[q]]
    BY DEF Order
  <2> QED  BY <2>1
<1> QED  BY <1>1, <1>2, <1>3 DEF Box!vars

\* A queue whose items are on other lists, each line in the same order.
LEMMA QueueKept ==
    ASSUME MailInv, FlushInv', NEW q \in Queues, FreeItems'[q] \subseteq FreeItems[q], RingOnce(q)',
           from'[q] = from[q], ToSet(Listed(q))' = ToSet(Listed(q)),
           \A i \in Items : ~Precedes(i, i, Listed(q))',
           q \in Ordered =>
               /\ \A i, j \in Items : from[q][i] = from[q][j] =>
                     (Precedes(i, j, Listed(q))' <=> Precedes(i, j, Listed(q)))
               /\ \A c \in Contexts : \A i \in ToSet(pending'[q][c]) : from[q][i] = c
    PROVE  QueueInv(q)' /\ Waiting'[q] = Waiting[q] /\ Order'[q] = Order[q]
<1>0. OrdersKnown'
  BY OrdersAre, PTL
<1>1. FlushInv /\ ListedOnce(q) /\ ListedFrom(q)
  BY MailIs
<1>2. ListedOnce(q)'
  BY <1>1 DEF ListedOnce
<1>3. ListedFrom(q)'
  BY <1>1 DEF ListedFrom
<1>4. Waiting'[q] = Waiting[q]
  BY DEF Waiting
<1>5. Order'[q] = Order[q]
  <2>1. /\ Order[q] \subseteq Items \X Items
        /\ \A i, j : <<i, j>> \in Order[q] <=>
              q \in Ordered /\ Precedes(i, j, Listed(q)) /\ from[q][i] = from[q][j]
    BY <1>1, OrderIs
  <2>2. OrderOf(q)'
    BY <1>0 DEF OrdersKnown
  <2>3. Order'[q] \subseteq Items \X Items
    BY <2>2, OrderNext
  <2>4. ASSUME NEW i \in Items, NEW j \in Items PROVE <<i, j>> \in Order'[q] => <<i, j>> \in Order[q]
    <3>1. <<i, j>> \in Order'[q] =>
              q \in Ordered /\ Precedes(i, j, Listed(q))' /\ from'[q][i] = from'[q][j]
      BY <2>2, OrderNext
    <3> QED  BY <2>1, <3>1
  <2>5. ASSUME NEW i \in Items, NEW j \in Items PROVE <<i, j>> \in Order[q] => <<i, j>> \in Order'[q]
    <3>1. q \in Ordered /\ Precedes(i, j, Listed(q))' /\ from'[q][i] = from'[q][j]
             => <<i, j>> \in Order'[q]
      BY <2>2, OrderNext
    <3> QED  BY <2>1, <3>1
  <2> QED  BY <2>1, <2>3, <2>4, <2>5
<1> QED  BY <1>2, <1>3, <1>4, <1>5 DEF QueueInv

LEMMA ListedSame ==
    ASSUME NEW q \in Queues, pending'[q] = pending[q], InFlush(q)' = InFlush(q)
    PROVE  Listed(q)' = Listed(q)
BY DEF Listed

\* A queue that a step leaves alone.
LEMMA QueueSame ==
    ASSUME MailInv, FlushInv', NEW q \in Queues, FreeItems'[q] \subseteq FreeItems[q], RingOnce(q)',
           from'[q] = from[q], pending'[q] = pending[q], InFlush(q)' = InFlush(q)
    PROVE  /\ QueueInv(q)' /\ Waiting'[q] = Waiting[q] /\ Order'[q] = Order[q]
           /\ Listed(q)' = Listed(q)
<1>1. FlushInv /\ RingOnce(q) /\ ListedOnce(q) /\ ListedFrom(q)
  BY MailIs
<1>2. Listed(q)' = Listed(q)
  BY ListedSame
<1>3. ToSet(Listed(q))' = ToSet(Listed(q))
  BY <1>2
<1>4. \A i, j : Precedes(i, j, Listed(q))' <=> Precedes(i, j, Listed(q))
  BY <1>2 DEF Precedes
<1>5. \A i \in Items : ~Precedes(i, i, Listed(q))'
  BY <1>1, <1>4 DEF ListedOnce
<1>6. q \in Ordered => \A c \in Contexts : \A i \in ToSet(pending'[q][c]) : from[q][i] = c
  BY <1>1 DEF ListedFrom
<1> QED  BY <1>2, <1>3, <1>4, <1>5, <1>6, QueueKept

\* The threads that do not take the step keep what they have.
LEMMA MailKept ==
    ASSUME MailInv, FlushInv', NEW t \in Threads,
           \A u \in Threads : u # t => call'[u] = call[u],
           \A q \in Queues : QueueInv(q)', ThreadInv(t)',
           \A q \in Queues : \A i : i \in FreeItems'[q] \/ i \in ToSet(Listed(q))' =>
               \/ i \in FreeItems[q] \/ i \in ToSet(Listed(q))
               \/ At(t, "push") /\ call[t].q = q /\ call[t].item = i,
           \A q \in Queues : \A i \in ToSet(Listed(q)) : from'[q][i] = from[q][i],
           At(t, "push")' => call'[t].item \in FreeItems[call'[t].q]
    PROVE  MailInv'
<1>1. /\ FlushInv /\ OwnItems /\ EMTs \subseteq Threads
      /\ \A u \in Threads : Own(u) /\ Inserts(u) /\ FlushList(u)
  BY MailIs, Constants
<1>2. \A u \in Threads : call[u].pc \in FlushPcs \cup {"alloc", "push"} => call[u].q \in Queues
  BY <1>1 DEF FlushInv, Control, HasItem, FlushControl
<1>3. ASSUME NEW u \in Threads, u # t PROVE ThreadInv(u)'
  <2>1. call'[u] = call[u] /\ Own(u) /\ Inserts(u) /\ FlushList(u)
    BY <1>1, <1>3
  <2>2. Own(u)'
    <3>1. ASSUME NEW q \in Queues, NEW i, At(u, "push"), call[u].q = q, call[u].item = i
          PROVE  i \notin FreeItems'[q] /\ i \notin ToSet(Listed(q))'
      <4>1. i \notin FreeItems[q] /\ i \notin ToSet(Listed(q))
        BY <2>1, <3>1 DEF Own
      <4>2. ~(At(t, "push") /\ call[t].q = q /\ call[t].item = i)
        BY <1>1, <1>3, <3>1 DEF OwnItems
      <4> QED  BY <4>1, <4>2
    <3>2. ASSUME NEW q \in Queues, NEW i, At(u, "push"), call'[u].q = q, call'[u].item = i
          PROVE  Own(u)'
      BY <2>1, <3>1, <3>2 DEF Own
    <3>3. At(u, "push") => call[u].q \in Queues
      BY <1>2 DEF At
    <3> QED  BY <2>1, <3>2, <3>3 DEF Own, At
  <2>3. Inserts(u)'
    BY <2>1 DEF Inserts
  <2>4. TakenFrom(u)'
    <3> SUFFICES ASSUME call[u].q \in Ordered, NEW i \in ToSet(call[u].list),
                        At(u, "takeRC") \/ At(u, "takeR0")
                 PROVE  /\ At(u, "takeRC") => from'[call[u].q][i] = "R3"
                        /\ At(u, "takeR0") => from'[call[u].q][i] \in {"R3", "RC"}
      BY <2>1 DEF TakenFrom, At
    <3>1. call[u].pc \in FlushPcs /\ u \in EMTs /\ call[u].q \in Queues
      BY <1>2, <2>1 DEF FlushList, FlushPcs, At
    <3>2. i \in ToSet(Listed(call[u].q))
      BY <3>1, ListedHas DEF FlushesQueue
    <3>3. from'[call[u].q][i] = from[call[u].q][i]
      BY <3>1, <3>2
    <3> QED  BY <2>1, <3>3 DEF FlushList, TakenFrom
  <2>5. FlushList(u)'
    BY <2>1, <2>4 DEF FlushList, At
  <2> QED  BY <2>2, <2>3, <2>5 DEF ThreadInv
<1>4. OwnItems'
  <2>1. ASSUME NEW u \in Threads, u # t, At(t, "push")', At(u, "push")', call'[t].q = call'[u].q,
               call'[t].item = call'[u].item
        PROVE  FALSE
    <3>1. At(u, "push") /\ call'[u] = call[u]
      BY <2>1 DEF At
    <3>2. call[u].item \notin FreeItems[call[u].q]
      BY <1>1, <3>1 DEF Own
    <3> QED  BY <2>1, <3>1, <3>2
  <2> SUFFICES ASSUME NEW u \in Threads, NEW v \in Threads, At(u, "push")', At(v, "push")',
                      call'[u].q = call'[v].q, call'[u].item = call'[v].item
               PROVE  u = v
    BY DEF OwnItems
  <2>2. CASE u # t /\ v # t
    <3>1. call'[u] = call[u] /\ call'[v] = call[v]
      BY <2>2
    <3> QED  BY <1>1, <3>1 DEF OwnItems, At
  <2> QED  BY <2>1, <2>2
<1> QED  BY <1>3, <1>4 DEF MailInv, MailParts

\* A step that leaves the queues alone.
LEMMA Quiet ==
    ASSUME MailInv, FlushInv', NEW t \in Threads, UNCHANGED <<ring, pending, from>>,
           \A u \in Threads : u # t => call'[u] = call[u],
           \A q \in Queues : TakenBy(t, q)' = TakenBy(t, q),
           ThreadInv(t)', ~At(t, "push")'
    PROVE  MailInv' /\ UNCHANGED Box!vars
<1>1. /\ slot' = slot /\ iFreeHead' = iFreeHead /\ iFreeTail' = iFreeTail
      /\ pending' = pending /\ from' = from
  BY DEF ring
<1>2. FlushInv /\ FlushList(t) /\ FlushList(t)'
  BY MailIs DEF ThreadInv
<1>3. (call[t].pc \in FlushPcs => t \in EMTs) /\ (call'[t].pc \in FlushPcs => t \in EMTs)
  BY <1>2 DEF FlushList
<1>4. ASSUME NEW q \in Queues
      PROVE  /\ QueueInv(q)' /\ FreeItems'[q] = FreeItems[q] /\ Waiting'[q] = Waiting[q]
             /\ Order'[q] = Order[q] /\ Listed(q)' = Listed(q)
  <2>1. FreeItems'[q] = FreeItems[q] /\ RingOnce(q)'
    BY <1>1, FreeSame, MailIs
  <2>2. InFlush(q)' = InFlush(q)
    BY <1>2, <1>3, InFlushKept
  <2> QED  BY <1>1, <2>1, <2>2, QueueSame
<1>5. UNCHANGED Box!vars
  BY <1>4, BoxSame
<1>6. \A q \in Queues : ToSet(Listed(q))' = ToSet(Listed(q))
  BY <1>4
<1>7. MailInv'
  BY <1>1, <1>4, <1>6, MailKept
<1> QED  BY <1>5, <1>7

\* A thread that neither pushes nor has anything of the lists.
LEMMA ThreadFree ==
    ASSUME NEW t \in Threads, call'[t].pc \notin FlushPcs \cup {"alloc", "push"}, call'[t].list = <<>>
    PROVE  ThreadInv(t)' /\ ~At(t, "push")' /\ \A q \in Queues : TakenBy(t, q)' = <<>>
<1>1. Own(t)' /\ Inserts(t)' /\ ~At(t, "push")'
  BY DEF Own, Inserts, At
<1>2. FlushList(t)'
  BY DEF FlushList, TakenFrom, At, FlushPcs
<1>3. \A q \in Queues : TakenBy(t, q)' = <<>>
  BY DEF TakenBy, FlushesQueue
<1> QED  BY <1>1, <1>2, <1>3 DEF ThreadInv

LEMMA NothingTaken ==
    ASSUME NEW t \in Threads, FlushList(t), call[t].pc \notin FlushPcs \ {"take"}
    PROVE  call[t].list = <<>> /\ \A q \in Queues : TakenBy(t, q) = <<>>
BY DEF FlushList, TakenBy

\* A step of a thread at the flags.
LEMMA QuietFlags ==
    ASSUME MailInv, FlushInv', NEW t \in Threads, UNCHANGED <<ring, pending, from>>,
           \A u \in Threads : u # t => call'[u] = call[u],
           call[t].pc \notin FlushPcs \ {"take"},
           call'[t].pc \notin FlushPcs \cup {"alloc", "push"},
           call'[t].list = <<>>
    PROVE  MailInv' /\ UNCHANGED Box!vars
<1>1. FlushList(t)
  BY MailIs
<1>2. \A q \in Queues : TakenBy(t, q) = <<>>
  BY <1>1, NothingTaken
<1>3. ThreadInv(t)' /\ ~At(t, "push")' /\ \A q \in Queues : TakenBy(t, q)' = <<>>
  BY ThreadFree
<1>4. \A q \in Queues : TakenBy(t, q)' = TakenBy(t, q)
  BY <1>2, <1>3
<1> QED  BY <1>3, <1>4, Quiet

-----------------------------------------------------------------------------
(* The steps that leave the queues alone.                                  *)

LEMMA IdleCall ==
    ASSUME TypeOK, NEW t \in Threads, Return(t)
    PROVE  /\ call'[t].pc = "idle" /\ call'[t].list = <<>>
           /\ \A u \in Threads : u # t => call'[u] = call[u]
<1>1. call'[t] = Idle /\ \A u \in Threads : u # t => call'[u] = call[u]
  BY IdleIs, Moves DEF Return
<1> QED  BY <1>1 DEF Idle

LEMMA FlushedCall ==
    ASSUME TypeOK, NEW e \in Threads, Flushed(e)
    PROVE  call'[e].pc \in {"idle", "walk"} /\ call'[e].list = <<>>
<1> DEFINE r == IF call[e].q \in Forced THEN [Idle EXCEPT !.pc = "walk", !.q = call[e].q + 1] ELSE Idle
<1>1. call \in [Threads -> Calls]
  BY CallIs
<1>2. call' = [call EXCEPT ![e] = r]
  BY DEF Flushed
<1>3. r.pc \in {"idle", "walk"} /\ r.list = <<>>
  BY DEF Idle
<1> HIDE DEF r
<1> QED  BY <1>1, <1>2, <1>3

LEMMA ReturnMail ==
    ASSUME MailInv, FlushInv', NEW t \in Threads, UNCHANGED <<ring, pending, from>>, Return(t),
           call[t].pc \notin FlushPcs
    PROVE  MailInv' /\ UNCHANGED Box!vars
<1>1. /\ call'[t].pc = "idle" /\ call'[t].list = <<>>
      /\ \A u \in Threads : u # t => call'[u] = call[u]
  BY IdleCall, MailIs
<1> QED  BY <1>1, QuietFlags DEF FlushPcs

LEMMA GotoMail ==
    ASSUME MailInv, FlushInv', NEW t \in Threads, UNCHANGED <<ring, pending, from>>,
           call[t].pc \notin FlushPcs, NEW label \in Pcs \ (FlushPcs \cup {"alloc", "push"}), Goto(t, label)
    PROVE  MailInv' /\ UNCHANGED Box!vars
<1>1. /\ call'[t].pc = label /\ call'[t].list = call[t].list
      /\ \A u \in Threads : u # t => call'[u] = call[u]
  BY GotoIs, MailIs
<1>2. call[t].list = <<>>
  BY MailIs DEF FlushList
<1> QED  BY <1>1, <1>2, QuietFlags

LEMMA ReadMail ==
    ASSUME MailInv, FlushInv', NEW t \in Threads, NEW q \in Queues, NEW c \in Contexts,
           UNCHANGED <<ring, pending, from>>, Read(t, q, c), ~Exhausted(q),
           call[t].pc \notin FlushPcs, c = "R3" \/ (q \in RZQueues /\ c \in RZContexts)
    PROVE  MailInv' /\ UNCHANGED Box!vars
<1> DEFINE r == [call[t] EXCEPT !.pc = "alloc", !.q = q, !.c = c, !.i = iFreeTail[q],
                                !.item = slot[q][iFreeTail[q]]]
<1>1. FlushInv /\ TypeOK /\ FlushList(t)
  BY MailIs
<1>2. call \in [Threads -> Calls] /\ call[t] \in Calls
  BY <1>1, CallIs
<1>3. r.pc = "alloc" /\ r.q = q /\ r.c = c /\ r.list = call[t].list
  BY <1>2 DEF Calls
<1>4. call' = [call EXCEPT ![t] = r]
  BY DEF Read
<1> HIDE DEF r
<1>5. call'[t] = r /\ \A u \in Threads : u # t => call'[u] = call[u]
  BY <1>2, <1>4
<1>6. call[t].list = <<>> /\ \A p \in Queues : TakenBy(t, p) = <<>>
  BY <1>1, NothingTaken
<1>7. \A p \in Queues : TakenBy(t, p)' = <<>>
  BY <1>3, <1>5 DEF TakenBy, FlushesQueue, FlushPcs
<1>8. ThreadInv(t)' /\ ~At(t, "push")'
  BY <1>3, <1>5, <1>6 DEF ThreadInv, Own, Inserts, FlushList, TakenFrom, At, FlushPcs
<1> QED  BY <1>5, <1>6, <1>7, <1>8, Quiet

LEMMA AllocMail ==
    ASSUME MailInv, FlushInv', NEW t \in Threads, NEW q \in Queues, NEW c \in Contexts,
           PDMQueueAlloc(t, q, c)
    PROVE  MailInv' /\ UNCHANGED Box!vars
BY ReadMail DEF PDMQueueAlloc, MayInsert, At, FlushPcs

LEMMA AllocAgainMail ==
    ASSUME MailInv, FlushInv', NEW t \in Threads, AllocAgain(t)
    PROVE  MailInv' /\ UNCHANGED Box!vars
<1>1. UNCHANGED <<ring, pending, from>> /\ call[t].pc \notin FlushPcs /\ call[t].pc = "alloc"
  BY DEF AllocAgain, At, FlushPcs
<1>2. CASE Exhausted(call[t].q)
  BY <1>1, <1>2, ReturnMail DEF AllocAgain
<1>3. CASE ~Exhausted(call[t].q)
  <2>1. FlushInv /\ Inserts(t)
    BY MailIs
  <2>2. call[t].q \in Queues /\ call[t].c \in Contexts
    BY <1>1, <2>1, Types DEF FlushInv, Control, HasItem, Calls
  <2>3. call[t].c = "R3" \/ (call[t].q \in RZQueues /\ call[t].c \in RZContexts)
    BY <1>1, <2>1 DEF Inserts
  <2> QED  BY <1>1, <1>3, <2>2, <2>3, ReadMail DEF AllocAgain
<1> QED  BY <1>2, <1>3

LEMMA FlagsMail ==
    ASSUME MailInv, FlushInv', NEW t \in Threads,
           \/ SetFF(t) \/ SetBit(t) \/ PDMR3QueueFlushAll(t) \/ ClearFF(t) \/ Activate(t)
           \/ Deactivate(t) \/ TestBit(t) \/ TestFF(t)
    PROVE  MailInv' /\ UNCHANGED Box!vars
<1>1. UNCHANGED <<ring, pending, from>> /\ call[t].pc \notin FlushPcs
  BY DEF SetFF, SetBit, PDMR3QueueFlushAll, ClearFF, Activate, Deactivate, TestBit, TestFF, At, FlushPcs
<1>2. \A label \in {"bit", "clearff", "activate", "clearbit", "testbit", "testff"} :
          label \in Pcs \ (FlushPcs \cup {"alloc", "push"})
  BY DEF Pcs, FlushPcs
<1>3. \/ Return(t)
      \/ \E label \in {"bit", "clearff", "activate", "clearbit", "testbit", "testff"} : Goto(t, label)
  BY DEF SetFF, SetBit, PDMR3QueueFlushAll, ClearFF, Activate, Deactivate, TestBit, TestFF
<1> QED  BY <1>1, <1>2, <1>3, ReturnMail, GotoMail

LEMMA ClearBitMail ==
    ASSUME MailInv, FlushInv', NEW e \in Threads, ClearBit(e)
    PROVE  MailInv' /\ UNCHANGED Box!vars
<1> DEFINE r == [call[e] EXCEPT !.pc = "walk", !.q = 1]
<1>1. call \in [Threads -> Calls] /\ call[e] \in Calls /\ FlushList(e)
  BY CallIs, MailIs
<1>2. r.pc = "walk" /\ r.list = call[e].list /\ call[e].list = <<>>
  BY <1>1 DEF Calls, FlushList, ClearBit, At, FlushPcs
<1>3. call' = [call EXCEPT ![e] = r]
  BY DEF ClearBit
<1> HIDE DEF r
<1>4. call'[e] = r /\ \A u \in Threads : u # e => call'[u] = call[u]
  BY <1>1, <1>3
<1>5. UNCHANGED <<ring, pending, from>> /\ call[e].pc \notin FlushPcs \ {"take"}
      /\ call'[e].pc \notin FlushPcs \cup {"alloc", "push"} /\ call'[e].list = <<>>
  BY <1>2, <1>4 DEF ClearBit, At, FlushPcs
<1> QED  BY <1>4, <1>5, QuietFlags

\* An EMT begins to flush a queue.
LEMMA BeginsMail ==
    ASSUME MailInv, FlushInv', NEW e \in EMTs, UNCHANGED <<ring, pending, from>>,
           \A u \in Threads : u # e => call'[u] = call[u],
           call[e].pc \notin FlushPcs, call'[e].pc = "take", call'[e].list = call[e].list
    PROVE  MailInv' /\ UNCHANGED Box!vars
<1>1. e \in Threads /\ FlushList(e)
  BY MailIs, Constants
<1>2. call[e].list = <<>> /\ \A p \in Queues : TakenBy(e, p) = <<>>
  BY <1>1, NothingTaken
<1>3. \A p \in Queues : TakenBy(e, p)' = <<>>
  BY <1>2 DEF TakenBy
<1>4. ThreadInv(e)' /\ ~At(e, "push")'
  BY <1>2 DEF ThreadInv, Own, Inserts, FlushList, TakenFrom, At, FlushPcs
<1> QED  BY <1>1, <1>2, <1>3, <1>4, Quiet

LEMMA WalkMail ==
    ASSUME MailInv, FlushInv', NEW e \in EMTs, Walk(e)
    PROVE  MailInv' /\ UNCHANGED Box!vars
<1>1. /\ e \in Threads /\ TypeOK /\ UNCHANGED <<ring, pending, from>> /\ call[e].pc \notin FlushPcs
      /\ FlushList(e) /\ "inactive" \in Pcs \ (FlushPcs \cup {"alloc", "push"}) /\ "take" \in Pcs
  BY MailIs, Constants DEF Walk, At, FlushPcs, Pcs
<1>2. CASE call[e].q \notin Forced
  BY <1>1, <1>2, GotoMail DEF Walk
<1>3. CASE call[e].q \in Forced /\ HasPending(call[e].q)
  <2>1. Goto(e, "take")
    BY <1>3 DEF Walk
  <2>2. /\ call'[e].pc = "take" /\ call'[e].list = call[e].list
        /\ \A u \in Threads : u # e => call'[u] = call[u]
    BY <1>1, <2>1, GotoIs
  <2> QED  BY <1>1, <2>2, BeginsMail
<1>4. CASE call[e].q \in Forced /\ ~HasPending(call[e].q)
  <2> DEFINE r == [call[e] EXCEPT !.pc = "walk", !.q = call[e].q + 1]
  <2>1. call \in [Threads -> Calls] /\ call[e] \in Calls
    BY <1>1, CallIs
  <2>2. r.pc = "walk" /\ r.list = call[e].list /\ call[e].list = <<>>
    BY <1>1, <2>1 DEF Calls, FlushList
  <2>3. call' = [call EXCEPT ![e] = r]
    BY <1>4 DEF Walk, NextQueue
  <2> HIDE DEF r
  <2>4. call'[e] = r /\ \A u \in Threads : u # e => call'[u] = call[u]
    BY <1>1, <2>1, <2>3
  <2>5. call'[e].pc \notin FlushPcs \cup {"alloc", "push"} /\ call'[e].list = <<>>
    BY <2>2, <2>4 DEF FlushPcs
  <2> QED  BY <1>1, <2>4, <2>5, QuietFlags
<1> QED  BY <1>2, <1>3, <1>4

LEMMA QueueTimerMail ==
    ASSUME MailInv, FlushInv', NEW e \in EMTs, NEW q \in Queues, pdmR3QueueTimer(e, q)
    PROVE  MailInv' /\ UNCHANGED Box!vars
<1> DEFINE r == [call[e] EXCEPT !.pc = "take", !.q = q]
<1>1. e \in Threads /\ call \in [Threads -> Calls] /\ call[e] \in Calls
  BY CallIs, MailIs, Constants
<1>2. r.pc = "take" /\ r.list = call[e].list
  BY <1>1 DEF Calls
<1>3. call' = [call EXCEPT ![e] = r]
  BY DEF pdmR3QueueTimer
<1> HIDE DEF r
<1>4. call'[e] = r /\ \A u \in Threads : u # e => call'[u] = call[u]
  BY <1>1, <1>3
<1>5. UNCHANGED <<ring, pending, from>> /\ call[e].pc \notin FlushPcs
  BY DEF pdmR3QueueTimer, At, FlushPcs
<1> QED  BY <1>2, <1>4, <1>5, BeginsMail

LEMMA EnoughMail ==
    ASSUME MailInv, FlushInv', NEW e \in EMTs, Enough(e)
    PROVE  MailInv' /\ UNCHANGED Box!vars
<1>1. /\ e \in Threads /\ TypeOK /\ UNCHANGED <<ring, pending, from>> /\ call[e].pc \in FlushPcs
      /\ call[e].q \in Fussy /\ FlushList(e) /\ "putback" \in Pcs
  BY MailIs, Constants DEF Enough, At, FlushPcs, Pcs
<1>2. /\ call'[e].pc = "putback" /\ call'[e].list = call[e].list /\ call'[e].q = call[e].q
      /\ \A u \in Threads : u # e => call'[u] = call[u]
  BY <1>1, GotoIs DEF Enough
<1>3. \A p \in Queues : TakenBy(e, p)' = TakenBy(e, p)
  BY <1>1, <1>2 DEF TakenBy, FlushesQueue, FlushPcs
<1>4. ThreadInv(e)' /\ ~At(e, "push")'
  BY <1>1, <1>2 DEF ThreadInv, Own, Inserts, FlushList, TakenFrom, At, FlushPcs
<1> QED  BY <1>1, <1>2, <1>3, <1>4, Quiet

LEMMA FeedDoneMail ==
    ASSUME MailInv, FlushInv', NEW e \in EMTs, FeedDone(e)
    PROVE  MailInv' /\ UNCHANGED Box!vars
<1>1. e \in Threads /\ TypeOK /\ UNCHANGED <<ring, pending, from>> /\ call[e].list = <<>> /\ Flushed(e)
  BY MailIs, Constants DEF FeedDone
<1>2. /\ call'[e].pc \in {"idle", "walk"} /\ call'[e].list = <<>>
      /\ \A u \in Threads : u # e => call'[u] = call[u]
  BY <1>1, FlushedCall, FlushedIs
<1>3. ThreadInv(e)' /\ ~At(e, "push")' /\ \A q \in Queues : TakenBy(e, q)' = <<>>
  BY <1>1, <1>2, ThreadFree DEF FlushPcs
<1>4. \A q \in Queues : TakenBy(e, q)' = TakenBy(e, q)
  BY <1>1, <1>3 DEF TakenBy
<1> QED  BY <1>1, <1>2, <1>3, <1>4, Quiet

-----------------------------------------------------------------------------
(* The ring.                                                               *)

\* The slots from a up to h.
Between(a, h) == {i \in Slots : IF a <= h THEN a <= i /\ i < h ELSE a <= i \/ i < h}

LEMMA FreeSlotsAre == \A q : FreeSlots(q) = Between(iFreeTail[q], iFreeHead[q])
BY DEF FreeSlots, Between

LEMMA Itself == ASSUME NEW n \in Nat, n > 0 PROVE n % n = 0
OBVIOUS

\* The last slot is followed by the first.
LEMMA AfterLast ==
    /\ (cItems + Slack) - 1 \in Nat /\ Slots = 0 .. (cItems + Slack) - 1
    /\ After((cItems + Slack) - 1) = 0
<1> DEFINE n == cItems + Slack
<1>1. n \in Nat /\ n > 0 /\ Slots = 0 .. n - 1
  BY Constants DEF Slots
<1>2. After(n - 1) = (n - 1 + 1) % n
  BY DEF After
<1> HIDE DEF n
<1>3. n - 1 \in Nat /\ n - 1 + 1 = n
  BY <1>1
<1>4. After(n - 1) = 0
  BY <1>1, <1>2, <1>3, Itself
<1>5. n - 1 \in Nat /\ Slots = 0 .. n - 1 /\ After(n - 1) = 0
  BY <1>1, <1>3, <1>4
<1> QED  BY <1>5 DEF n

LEMMA AfterCases ==
    ASSUME NEW i \in Slots
    PROVE  \E m \in Nat : /\ Slots = 0 .. m /\ i \in Nat /\ i <= m
                          /\ \/ i < m /\ After(i) = i + 1
                             \/ i = m /\ After(i) = 0
<1> DEFINE m == (cItems + Slack) - 1
<1>1. m \in Nat /\ Slots = 0 .. m /\ After(m) = 0
  BY AfterLast
<1>2. i < m => After(i) = i + 1
  BY AfterIs, Constants
<1> HIDE DEF m
<1>3. i \in Nat /\ i <= m
  BY <1>1
<1>4. (i < m /\ After(i) = i + 1) \/ (i = m /\ After(i) = 0)
  BY <1>1, <1>2, <1>3
<1> QED  BY <1>1, <1>3, <1>4

LEMMA SlotTaken ==
    ASSUME NEW a \in Slots, NEW h \in Slots, a # h
    PROVE  a \in Between(a, h) /\ Between(After(a), h) = Between(a, h) \ {a}
<1> DEFINE b == After(a)
<1>1. PICK m \in Nat : /\ Slots = 0 .. m /\ a \in Nat /\ a <= m
                       /\ (a < m /\ b = a + 1) \/ (a = m /\ b = 0)
  BY AfterCases
<1> HIDE DEF b
<1>2. h \in Nat /\ h <= m
  BY <1>1
<1>3. a \in Between(a, h)
  BY <1>1, <1>2 DEF Between
<1>4. ASSUME NEW i \in Slots PROVE i \in Between(b, h) <=> i \in Between(a, h) /\ i # a
  <2>1. i \in Nat /\ i <= m
    BY <1>1
  <2> QED  BY <1>1, <1>2, <2>1 DEF Between
<1>5. Between(b, h) \subseteq Slots /\ Between(a, h) \subseteq Slots
  BY DEF Between
<1> QED  BY <1>3, <1>4, <1>5 DEF b

LEMMA SlotFilled ==
    ASSUME NEW a \in Slots, NEW h \in Slots, After(h) # a
    PROVE  h \notin Between(a, h) /\ Between(a, After(h)) = Between(a, h) \cup {h}
<1> DEFINE b == After(h)
<1>1. PICK m \in Nat : /\ Slots = 0 .. m /\ h \in Nat /\ h <= m
                       /\ (h < m /\ b = h + 1) \/ (h = m /\ b = 0)
  BY AfterCases
<1>0. b # a
  OBVIOUS
<1> HIDE DEF b
<1>2. a \in Nat /\ a <= m
  BY <1>1
<1>3. h \notin Between(a, h)
  BY <1>1, <1>2 DEF Between
<1>4. ASSUME NEW i \in Slots PROVE i \in Between(a, b) <=> i \in Between(a, h) \/ i = h
  <2>1. i \in Nat /\ i <= m
    BY <1>1
  <2> QED  BY <1>0, <1>1, <1>2, <2>1 DEF Between
<1>5. Between(a, b) \subseteq Slots /\ Between(a, h) \subseteq Slots
  BY DEF Between
<1> QED  BY <1>3, <1>4, <1>5 DEF b

LEMMA SlotsFull ==
    ASSUME NEW h \in Slots PROVE Between(After(h), h) = Slots \ {h}
<1> DEFINE b == After(h)
<1>1. PICK m \in Nat : /\ Slots = 0 .. m /\ h \in Nat /\ h <= m
                       /\ (h < m /\ b = h + 1) \/ (h = m /\ b = 0)
  BY AfterCases
<1>2. m = cItems + Slack - 1 /\ m > 0
  <2>1. Slots = 0 .. cItems + Slack - 1 /\ cItems \in Nat \ {0} /\ Slack \in Nat \ {0}
    BY Constants DEF Slots
  <2> DEFINE n == cItems + Slack - 1
  <2>2. n \in Nat /\ n > 0 /\ Slots = 0 .. n
    BY <2>1
  <2> HIDE DEF n
  <2>3. 0 .. n = 0 .. m
    BY <1>1, <2>2
  <2>4. n \in 0 .. n /\ m \in 0 .. m
    BY <1>1, <2>2
  <2>5. n <= m /\ m <= n
    BY <1>1, <2>2, <2>3, <2>4
  <2>6. n = m
    BY <1>1, <2>2, <2>5
  <2> QED  BY <2>2, <2>6 DEF n
<1> HIDE DEF b
<1>4. ASSUME NEW i \in Slots PROVE i \in Between(b, h) <=> i # h
  <2>1. i \in Nat /\ i <= m
    BY <1>1
  <2> QED  BY <1>1, <1>2, <2>1 DEF Between
<1>5. Between(b, h) \subseteq Slots
  BY DEF Between
<1> QED  BY <1>4, <1>5 DEF b

LEMMA RingIs ==
    ASSUME FlushInv, NEW q \in Queues
    PROVE  /\ iFreeTail[q] \in Slots /\ iFreeHead[q] \in Slots
           /\ slot[q] \in [Slots -> Items \cup {None}]
BY DEF FlushInv, TypeOK

LEMMA AllocTakeMail ==
    ASSUME MailInv, FlushInv', NEW t \in Threads, AllocTake(t), StillThere(t)
    PROVE  MailInv' /\ Box!Alloc(call[t].q, call[t].item)
<1>1. /\ FlushInv /\ TypeOK /\ Own(t) /\ Inserts(t) /\ FlushList(t)
      /\ call \in [Threads -> Calls] /\ call[t] \in Calls /\ call[t].pc = "alloc"
      /\ iFreeTail \in [Queues -> Slots]
  BY MailIs, CallIs DEF AllocTake, At, TypeOK
<1>2. call[t].q \in Queues /\ call[t].item \in Items /\ call[t].i \in Slots
  BY <1>1 DEF FlushInv, Control, HasItem, Calls
<1>3. PICK q \in Queues, item \in Items, i \in Slots :
          call[t].q = q /\ call[t].item = item /\ call[t].i = i
  BY <1>2
<1>4. /\ iFreeTail[q] = i /\ iFreeHead[q] # i /\ slot[q][i] = item
      /\ iFreeTail' = [iFreeTail EXCEPT ![q] = After(i)]
      /\ slot' = slot /\ iFreeHead' = iFreeHead /\ pending' = pending /\ from' = from
  BY <1>3 DEF AllocTake, Taken, StillThere, Exhausted
<1> DEFINE r == [call[t] EXCEPT !.pc = "push", !.i = 0]
<1>5. /\ r.pc = "push" /\ r.q = call[t].q /\ r.item = call[t].item /\ r.c = call[t].c
      /\ r.list = call[t].list
  BY <1>1 DEF Calls
<1>6. call' = [call EXCEPT ![t] = r]
  BY DEF AllocTake
<1> HIDE DEF r
<1>7. call'[t] = r /\ \A u \in Threads : u # t => call'[u] = call[u]
  BY <1>1, <1>6
<1>8. /\ iFreeTail'[q] = After(i) /\ \A p \in Queues : p # q => iFreeTail'[p] = iFreeTail[p]
  BY <1>1, <1>4
<1>9. /\ FreeSlots(q) = Between(i, iFreeHead[q])
      /\ FreeSlots(q)' = Between(After(i), iFreeHead[q])
  BY <1>4, <1>8 DEF FreeSlots, Between
<1>10. i \in FreeSlots(q) /\ FreeSlots(q)' = FreeSlots(q) \ {i}
  BY <1>1, <1>4, <1>9, SlotTaken, RingIs
<1>11. RingOnce(q) /\ ListedOnce(q)
  BY MailIs
<1>12. RingOnce(q)'
  BY <1>4, <1>10, <1>11 DEF RingOnce
<1>13. FreeItems'[q] = FreeItems[q] \ {item} /\ item \in FreeItems[q]
  <2>1. FreeItems[q] = {slot[q][j] : j \in FreeSlots(q)} /\ FreeItems'[q] = {slot'[q][j] : j \in FreeSlots(q)'}
    BY DEF FreeItems
  <2>2. FreeItems'[q] = {slot[q][j] : j \in FreeSlots(q) \ {i}}
    BY <1>4, <1>10, <2>1
  <2>3. \A j \in FreeSlots(q) : slot[q][j] = item => j = i
    BY <1>4, <1>10, <1>11 DEF RingOnce
  <2> QED  BY <1>4, <1>10, <2>1, <2>2, <2>3
<1>14. \A p \in Queues : p # q => FreeItems'[p] = FreeItems[p] /\ RingOnce(p)'
  BY <1>4, <1>8, FreeSame, MailIs
<1>15. ASSUME NEW p \in Queues
       PROVE  QueueInv(p)' /\ Waiting'[p] = Waiting[p] /\ Order'[p] = Order[p] /\ Listed(p)' = Listed(p)
  <2>1. TakenBy(t, p) = <<>> /\ TakenBy(t, p)' = <<>>
    BY <1>1, <1>5, <1>7 DEF TakenBy, FlushesQueue, FlushPcs
  <2>2. call[t].pc \notin FlushPcs /\ call'[t].pc \notin FlushPcs
    BY <1>1, <1>5, <1>7 DEF FlushPcs
  <2>3. InFlush(p)' = InFlush(p)
    BY <1>1, <1>7, <2>1, <2>2, InFlushKept
  <2>4. FreeItems'[p] \subseteq FreeItems[p] /\ RingOnce(p)'
    BY <1>12, <1>13, <1>14
  <2> QED  BY <1>4, <2>3, <2>4, QueueSame
<1>16. item \notin FreeItems'[q] /\ item \notin ToSet(Listed(q))'
  <2>1. item \notin ToSet(Listed(q))
    BY <1>11, <1>13 DEF ListedOnce
  <2>2. ToSet(Listed(q))' = ToSet(Listed(q))
    BY <1>15
  <2> QED  BY <1>13, <2>1, <2>2
<1>17. ThreadInv(t)'
  <2>1. Own(t)'
    BY <1>3, <1>5, <1>7, <1>16 DEF Own
  <2>2. Inserts(t)'
    BY <1>1, <1>5, <1>7 DEF Inserts
  <2>3. FlushList(t)'
    BY <1>1, <1>5, <1>7 DEF FlushList, TakenFrom, At, FlushPcs
  <2> QED  BY <2>1, <2>2, <2>3 DEF ThreadInv
<1>18. MailInv'
  <2>1. \A p \in Queues : FreeItems'[p] \subseteq FreeItems[p] /\ ToSet(Listed(p))' = ToSet(Listed(p))
    BY <1>13, <1>14, <1>15
  <2>2. call'[t].item \in FreeItems[call'[t].q]
    BY <1>3, <1>5, <1>7, <1>13
  <2>3. \A p \in Queues : QueueInv(p)'
    BY <1>15
  <2>4. \A p \in Queues : \A j \in ToSet(Listed(p)) : from'[p][j] = from[p][j]
    BY <1>4
  <2> QED  BY <1>7, <1>17, <2>1, <2>2, <2>3, <2>4, MailKept
<1>19. Box!Alloc(q, item)
  <2>1. FreeItems = [p \in Queues |-> FreeItems[p]] /\ FreeItems' = [p \in Queues |-> FreeItems'[p]]
    BY DEF FreeItems
  <2>2. FreeItems' = [FreeItems EXCEPT ![q] = @ \ {item}]
    BY <1>13, <1>14, <2>1
  <2>3. Waiting' = Waiting
    <3>1. Waiting = [p \in Queues |-> Waiting[p]] /\ Waiting' = [p \in Queues |-> Waiting'[p]]
      BY DEF Waiting
    <3> QED  BY <1>15, <3>1
  <2>4. Order' = Order
    <3>1. Order = [p \in Queues |-> Order[p]] /\ Order' = [p \in Queues |-> Order'[p]]
      BY DEF Order
    <3> QED  BY <1>15, <3>1
  <2> QED  BY <1>13, <2>2, <2>3, <2>4 DEF Box!Alloc
<1> QED  BY <1>3, <1>18, <1>19

-----------------------------------------------------------------------------
(* Lists that are taken and put back.                                      *)

-----------------------------------------------------------------------------
(* Lists that are moved.                                                   *)

\* w has the elements of s, each once if s has, and those of a line in the
\* same order.
Reordered(s, w, q, g) ==
    /\ w \in Seq(Items)
    /\ ToSet(w) = ToSet(s)
    /\ \A i : Precedes(i, i, w) => Precedes(i, i, s)
    /\ q \in Ordered => \A i, j : g[i] = g[j] => (Precedes(i, j, w) <=> Precedes(i, j, s))

Distinct(X, Y, g) == \A i \in X, j \in Y : g[i] # g[j]

LEMMA EmptyList == <<>> \in Seq(Items) /\ ToSet(<<>>) = {} /\ \A i, j : ~Precedes(i, j, <<>>)
<1>1. <<>> \in Seq(Items)
  OBVIOUS
<1> QED  BY <1>1, EmptyIs, PrecedesEmpty

\* w is two lists, one after the other.
TwoLists(w, x, y) ==
    /\ w \in Seq(Items)
    /\ ToSet(w) = ToSet(x) \cup ToSet(y)
    /\ \A i, j : Precedes(i, j, w) <=>
         Precedes(i, j, x) \/ Precedes(i, j, y) \/ (i \in ToSet(x) /\ j \in ToSet(y))

LEMMA TwoBlocks ==
    ASSUME NEW x \in Seq(Items), NEW y \in Seq(Items) PROVE TwoLists(x \o y, x, y)
<1> DEFINE w == x \o y
<1>1. w \in Seq(Items) /\ ToSet(w) = ToSet(x) \cup ToSet(y)
  BY JoinIs
<1>2. \A i, j : Precedes(i, j, w) <=>
         (Precedes(i, j, x) \/ Precedes(i, j, y) \/ (i \in ToSet(x) /\ j \in ToSet(y)))
  BY PrecedesJoin
<1> HIDE DEF w
<1>3. TwoLists(w, x, y)
  BY <1>1, <1>2 DEF TwoLists
<1> QED  BY <1>3 DEF w

\* The last list is put before what was taken.
LEMMA TookLast ==
    ASSUME NEW f \in Seq(Items), NEW a \in Seq(Items), NEW b \in Seq(Items), NEW d \in Seq(Items),
           NEW q, NEW g, q \in Ordered => Distinct(ToSet(d), ToSet(f) \cup ToSet(a) \cup ToSet(b), g)
    PROVE  Reordered(f \o a \o b \o d, (d \o f) \o a \o b \o <<>>, q, g)
<1> DEFINE e == <<>>
           h == d \o f
           s == f \o a \o b \o d
           w == h \o a \o b \o e
<1>1. e \in Seq(Items) /\ ToSet(e) = {} /\ \A i, j : ~Precedes(i, j, e)
  BY EmptyList
<1>2. TwoLists(h, d, f)
  BY TwoBlocks
<1>3. FourLists(s, f, a, b, d)
  BY Blocks
<1>4. e \in Seq(Items) /\ h \in Seq(Items)
  BY <1>1, <1>2 DEF TwoLists
<1> HIDE DEF e, h, s
<1>5. FourLists(w, h, a, b, e)
  BY <1>4, Blocks
<1> HIDE DEF w
<1>6. w \in Seq(Items) /\ ToSet(w) = ToSet(s)
  BY <1>1, <1>2, <1>3, <1>5 DEF TwoLists, FourLists
<1>7. ASSUME NEW i, Precedes(i, i, w) PROVE Precedes(i, i, s)
  BY <1>1, <1>2, <1>3, <1>5, <1>7 DEF TwoLists, FourLists
<1>8. ASSUME q \in Ordered, NEW i, NEW j, g[i] = g[j] PROVE Precedes(i, j, w) <=> Precedes(i, j, s)
  BY <1>1, <1>2, <1>3, <1>5, <1>8 DEF TwoLists, FourLists, Distinct
<1>9. Reordered(s, w, q, g)
  BY <1>6, <1>7, <1>8 DEF Reordered
<1> QED  BY <1>9 DEF s, w, h, e

\* The last but one is.
LEMMA TookThird ==
    ASSUME NEW f \in Seq(Items), NEW a \in Seq(Items), NEW b \in Seq(Items), NEW d \in Seq(Items),
           NEW q, NEW g, q \in Ordered => Distinct(ToSet(b), ToSet(f) \cup ToSet(a), g)
    PROVE  Reordered(f \o a \o b \o d, (b \o f) \o a \o <<>> \o d, q, g)
<1> DEFINE e == <<>>
           h == b \o f
           s == f \o a \o b \o d
           w == h \o a \o e \o d
<1>1. e \in Seq(Items) /\ ToSet(e) = {} /\ \A i, j : ~Precedes(i, j, e)
  BY EmptyList
<1>2. TwoLists(h, b, f)
  BY TwoBlocks
<1>3. FourLists(s, f, a, b, d)
  BY Blocks
<1>4. e \in Seq(Items) /\ h \in Seq(Items)
  BY <1>1, <1>2 DEF TwoLists
<1> HIDE DEF e, h, s
<1>5. FourLists(w, h, a, e, d)
  BY <1>4, Blocks
<1> HIDE DEF w
<1>6. w \in Seq(Items) /\ ToSet(w) = ToSet(s)
  BY <1>1, <1>2, <1>3, <1>5 DEF TwoLists, FourLists
<1>7. ASSUME NEW i, Precedes(i, i, w) PROVE Precedes(i, i, s)
  BY <1>1, <1>2, <1>3, <1>5, <1>7 DEF TwoLists, FourLists
<1>8. ASSUME q \in Ordered, NEW i, NEW j, g[i] = g[j] PROVE Precedes(i, j, w) <=> Precedes(i, j, s)
  BY <1>1, <1>2, <1>3, <1>5, <1>8 DEF TwoLists, FourLists, Distinct
<1>9. Reordered(s, w, q, g)
  BY <1>6, <1>7, <1>8 DEF Reordered
<1> QED  BY <1>9 DEF s, w, h, e

\* The one after what was taken is.
LEMMA TookSecond ==
    ASSUME NEW f \in Seq(Items), NEW a \in Seq(Items), NEW b \in Seq(Items), NEW d \in Seq(Items),
           NEW q, NEW g, q \in Ordered => Distinct(ToSet(a), ToSet(f), g)
    PROVE  Reordered(f \o a \o b \o d, (a \o f) \o <<>> \o b \o d, q, g)
<1> DEFINE e == <<>>
           h == a \o f
           s == f \o a \o b \o d
           w == h \o e \o b \o d
<1>1. e \in Seq(Items) /\ ToSet(e) = {} /\ \A i, j : ~Precedes(i, j, e)
  BY EmptyList
<1>2. TwoLists(h, a, f)
  BY TwoBlocks
<1>3. FourLists(s, f, a, b, d)
  BY Blocks
<1>4. e \in Seq(Items) /\ h \in Seq(Items)
  BY <1>1, <1>2 DEF TwoLists
<1> HIDE DEF e, h, s
<1>5. FourLists(w, h, e, b, d)
  BY <1>4, Blocks
<1> HIDE DEF w
<1>6. w \in Seq(Items) /\ ToSet(w) = ToSet(s)
  BY <1>1, <1>2, <1>3, <1>5 DEF TwoLists, FourLists
<1>7. ASSUME NEW i, Precedes(i, i, w) PROVE Precedes(i, i, s)
  BY <1>1, <1>2, <1>3, <1>5, <1>7 DEF TwoLists, FourLists
<1>8. ASSUME q \in Ordered, NEW i, NEW j, g[i] = g[j] PROVE Precedes(i, j, w) <=> Precedes(i, j, s)
  BY <1>1, <1>2, <1>3, <1>5, <1>8 DEF TwoLists, FourLists, Distinct
<1>9. Reordered(s, w, q, g)
  BY <1>6, <1>7, <1>8 DEF Reordered
<1> QED  BY <1>9 DEF s, w, h, e

\* The last list is linked to the end of what was taken.
LEMMA LinkedLast ==
    ASSUME NEW f \in Seq(Items), NEW a \in Seq(Items), NEW b \in Seq(Items), NEW d \in Seq(Items),
           NEW q, NEW g, q \in Ordered => Distinct(ToSet(d), ToSet(a) \cup ToSet(b), g)
    PROVE  Reordered(f \o a \o b \o d, (f \o d) \o a \o b \o <<>>, q, g)
<1> DEFINE e == <<>>
           h == f \o d
           s == f \o a \o b \o d
           w == h \o a \o b \o e
<1>1. e \in Seq(Items) /\ ToSet(e) = {} /\ \A i, j : ~Precedes(i, j, e)
  BY EmptyList
<1>2. TwoLists(h, f, d)
  BY TwoBlocks
<1>3. FourLists(s, f, a, b, d)
  BY Blocks
<1>4. e \in Seq(Items) /\ h \in Seq(Items)
  BY <1>1, <1>2 DEF TwoLists
<1> HIDE DEF e, h, s
<1>5. FourLists(w, h, a, b, e)
  BY <1>4, Blocks
<1> HIDE DEF w
<1>6. w \in Seq(Items) /\ ToSet(w) = ToSet(s)
  BY <1>1, <1>2, <1>3, <1>5 DEF TwoLists, FourLists
<1>7. ASSUME NEW i, Precedes(i, i, w) PROVE Precedes(i, i, s)
  BY <1>1, <1>2, <1>3, <1>5, <1>7 DEF TwoLists, FourLists
<1>8. ASSUME q \in Ordered, NEW i, NEW j, g[i] = g[j] PROVE Precedes(i, j, w) <=> Precedes(i, j, s)
  BY <1>1, <1>2, <1>3, <1>5, <1>8 DEF TwoLists, FourLists, Distinct
<1>9. Reordered(s, w, q, g)
  BY <1>6, <1>7, <1>8 DEF Reordered
<1> QED  BY <1>9 DEF s, w, h, e

\* What was taken becomes the last list.
LEMMA PutLast ==
    ASSUME NEW f \in Seq(Items), NEW a \in Seq(Items), NEW b \in Seq(Items),
           NEW q, NEW g, q \in Ordered => Distinct(ToSet(f), ToSet(a) \cup ToSet(b), g)
    PROVE  Reordered(f \o a \o b \o <<>>, <<>> \o a \o b \o f, q, g)
<1> DEFINE e == <<>>
           s == f \o a \o b \o e
           w == e \o a \o b \o f
<1>1. e \in Seq(Items) /\ ToSet(e) = {} /\ \A i, j : ~Precedes(i, j, e)
  BY EmptyList
<1>2. e \in Seq(Items)
  BY <1>1
<1> HIDE DEF e
<1>3. FourLists(s, f, a, b, e) /\ FourLists(w, e, a, b, f)
  BY <1>2, Blocks
<1> HIDE DEF s, w
<1>6. w \in Seq(Items) /\ ToSet(w) = ToSet(s)
  BY <1>1, <1>3 DEF FourLists
<1>7. ASSUME NEW i, Precedes(i, i, w) PROVE Precedes(i, i, s)
  BY <1>1, <1>3, <1>7 DEF FourLists
<1>8. ASSUME q \in Ordered, NEW i, NEW j, g[i] = g[j] PROVE Precedes(i, j, w) <=> Precedes(i, j, s)
  BY <1>1, <1>3, <1>8 DEF FourLists, Distinct
<1>9. Reordered(s, w, q, g)
  BY <1>6, <1>7, <1>8 DEF Reordered
<1> QED  BY <1>9 DEF s, w, e

LEMMA ReverseEmpty == Reverse(<<>>) = <<>>
BY DEF Reverse

-----------------------------------------------------------------------------
(* The steps of a flush.                                                   *)

\* The lists of one queue are rearranged.
LEMMA Relisted ==
    ASSUME MailInv, FlushInv', NEW e \in EMTs, NEW q \in Queues, UNCHANGED <<ring, from>>,
           \A u \in Threads : u # e => call'[u] = call[u],
           \A p \in Queues : p # q => pending'[p] = pending[p] /\ TakenBy(e, p)' = TakenBy(e, p),
           Reordered(Listed(q), Listed(q)', q, from[q]),
           q \in Ordered => \A c \in Contexts : \A i \in ToSet(pending'[q][c]) : from[q][i] = c,
           ThreadInv(e)', ~At(e, "push")'
    PROVE  MailInv' /\ UNCHANGED Box!vars
<1>1. slot' = slot /\ iFreeHead' = iFreeHead /\ iFreeTail' = iFreeTail /\ from' = from
  BY DEF ring
<1>2. FlushInv /\ e \in Threads
  BY MailIs, Constants
<1>3. \A p \in Queues : FreeItems'[p] = FreeItems[p] /\ RingOnce(p)'
  BY <1>1, FreeSame, MailIs
<1>4. ASSUME NEW p \in Queues, p # q
      PROVE  /\ QueueInv(p)' /\ Waiting'[p] = Waiting[p] /\ Order'[p] = Order[p]
             /\ ToSet(Listed(p))' = ToSet(Listed(p))
  <2>1. InFlush(p)' = InFlush(p)
    BY <1>2, <1>4, InFlushKept
  <2>2. FreeItems'[p] \subseteq FreeItems[p] /\ from'[p] = from[p]
    BY <1>1, <1>3
  <2>3. Listed(p)' = Listed(p)
    BY <1>4, <2>1, ListedSame
  <2> QED  BY <1>3, <1>4, <2>1, <2>2, <2>3, QueueSame
<1>5. /\ QueueInv(q)' /\ Waiting'[q] = Waiting[q] /\ Order'[q] = Order[q]
      /\ ToSet(Listed(q))' = ToSet(Listed(q))
  <2>1. ToSet(Listed(q))' = ToSet(Listed(q))
    BY DEF Reordered
  <2>2. ListedOnce(q)
    BY MailIs
  <2>3. \A i \in Items : ~Precedes(i, i, Listed(q))'
    BY <2>2 DEF Reordered, ListedOnce
  <2>4. q \in Ordered => \A i, j \in Items : from[q][i] = from[q][j] =>
            (Precedes(i, j, Listed(q))' <=> Precedes(i, j, Listed(q)))
    BY DEF Reordered
  <2>5. FreeItems'[q] \subseteq FreeItems[q] /\ from'[q] = from[q]
    BY <1>1, <1>3
  <2> QED  BY <1>3, <2>1, <2>3, <2>4, <2>5, QueueKept
<1>6. \A p \in Queues : /\ QueueInv(p)' /\ ToSet(Listed(p))' = ToSet(Listed(p))
                        /\ FreeItems'[p] = FreeItems[p] /\ Waiting'[p] = Waiting[p] /\ Order'[p] = Order[p]
  BY <1>3, <1>4, <1>5
<1>7. UNCHANGED Box!vars
  BY <1>6, BoxSame
<1>8. \A p \in Queues : QueueInv(p)'
  BY <1>6
<1>9. \A p \in Queues : \A i : i \in FreeItems'[p] \/ i \in ToSet(Listed(p))' =>
                               i \in FreeItems[p] \/ i \in ToSet(Listed(p))
  BY <1>6
<1>10. \A p \in Queues : \A i \in ToSet(Listed(p)) : from'[p][i] = from[p][i]
  BY <1>1
<1>11. MailInv'
  BY <1>2, <1>8, <1>9, <1>10, MailKept
<1> QED  BY <1>7, <1>11

\* Before and after a list is taken.
LEMMA TookLists ==
    ASSUME MailInv, FlushInv', NEW e \in EMTs, NEW q \in Queues, call[e].q = q,
           call[e].pc \in FlushPcs, NEW c \in Contexts, NEW label \in FlushPcs, Took(e, c, label)
    PROVE  /\ \A u \in Threads : u # e => call'[u] = call[u]
           /\ call'[e].pc = label /\ call'[e].q = q
           /\ call'[e].list = Reverse(pending[q][c]) \o call[e].list
           /\ pending'[q][c] = <<>>
           /\ \A d \in Contexts : d # c => pending'[q][d] = pending[q][d]
           /\ \A p \in Queues : p # q => pending'[p] = pending[p] /\ TakenBy(e, p)' = TakenBy(e, p)
           /\ InFlush(q) = call[e].list /\ InFlush(q)' = call'[e].list
           /\ UNCHANGED <<ring, from>>
<1>1. e \in Threads /\ FlushInv /\ TypeOK
  BY MailIs, Constants
<1> DEFINE l == Reverse(pending[q][c]) \o call[e].list
<1>2. call[e].list \in Seq(Items) /\ Reverse(pending[q][c]) \in Seq(Items) /\ label \in Pcs
  BY <1>1, ListedParts, FlushQueue DEF Pcs
<1>3. l \in Seq(Items) /\ Flush(e, label, l)
  BY <1>2 DEF Took
<1> HIDE DEF l
<1>4. /\ \A u \in Threads : u # e => call'[u] = call[u]
      /\ call'[e].pc = label /\ call'[e].q = q /\ call'[e].list = l
  BY <1>1, <1>2, <1>3, FlushIs
<1>5. pending' = [pending EXCEPT ![q][c] = <<>>] /\ UNCHANGED <<ring, from>>
  BY DEF Took
<1>6. pending \in [Queues -> [Contexts -> Seq(Items)]]
  BY <1>1 DEF TypeOK
<1>7. /\ pending'[q][c] = <<>>
      /\ \A d \in Contexts : d # c => pending'[q][d] = pending[q][d]
      /\ \A p \in Queues : p # q => pending'[p] = pending[p]
  BY <1>5, <1>6
<1>8. \A p \in Queues : p # q => TakenBy(e, p)' = TakenBy(e, p)
  BY <1>4 DEF TakenBy, FlushesQueue
<1>9. FlushesQueue(e, q) /\ InFlush(q) = call[e].list
  BY <1>1, FlusherIs DEF FlushesQueue, FlushersKnown, FlusherOf
<1>10. InFlush(q)' = call'[e].list
  <2>1. FlushersKnown'
    BY FlusherIs, PTL
  <2>2. FlushesQueue(e, q)'
    BY <1>4 DEF FlushesQueue
  <2>3. FlusherOf(q)'
    BY <2>1 DEF FlushersKnown
  <2> QED  BY <2>2, <2>3 DEF FlusherOf
<1> QED  BY <1>4, <1>5, <1>7, <1>8, <1>9, <1>10 DEF l

\* The thread that has taken a list.
LEMMA TookThread ==
    ASSUME NEW e \in EMTs, call'[e].pc \in {"takeRC", "takeR0", "feed"}, TakenFrom(e)'
    PROVE  ThreadInv(e)' /\ ~At(e, "push")'
BY DEF ThreadInv, Own, Inserts, FlushList, At, FlushPcs

\* In a queue that is kept in order each list is of its context's items.
LEMMA ListsOf ==
    ASSUME MailInv, NEW q \in Queues, q \in Ordered
    PROVE  \A c \in Contexts : \A i \in ToSet(pending[q][c]) : from[q][i] = c
BY MailIs DEF ListedFrom

\* The four lists of a queue.
LEMMA ListedBlocks ==
    ASSUME FlushInv, NEW q \in Queues
    PROVE  /\ Listed(q) = InFlush(q) \o Reverse(pending[q]["R0"]) \o Reverse(pending[q]["RC"])
                                     \o Reverse(pending[q]["R3"])
           /\ InFlush(q) \in Seq(Items)
           /\ Reverse(pending[q]["R0"]) \in Seq(Items) /\ Reverse(pending[q]["RC"]) \in Seq(Items)
           /\ Reverse(pending[q]["R3"]) \in Seq(Items)
           /\ ToSet(Reverse(pending[q]["R0"])) = ToSet(pending[q]["R0"])
           /\ ToSet(Reverse(pending[q]["RC"])) = ToSet(pending[q]["RC"])
           /\ ToSet(Reverse(pending[q]["R3"])) = ToSet(pending[q]["R3"])
           /\ "R3" \in Contexts /\ "RC" \in Contexts /\ "R0" \in Contexts
BY ListedParts DEF Listed

LEMMA TakeR3Mail ==
    ASSUME MailInv, FlushInv', NEW e \in EMTs, TakeR3(e)
    PROVE  MailInv' /\ UNCHANGED Box!vars
<1>1. /\ e \in Threads /\ FlushInv /\ FlushList(e) /\ call[e].pc = "take" /\ call[e].pc \in FlushPcs
      /\ "takeRC" \in FlushPcs /\ Took(e, "R3", "takeRC") /\ "R3" \in Contexts
  BY MailIs, Constants DEF TakeR3, At, FlushPcs
<1>2. call[e].q \in Queues
  BY <1>1, FlushQueue
<1>3. PICK q \in Queues : call[e].q = q
  BY <1>2
<1>4. /\ \A u \in Threads : u # e => call'[u] = call[u]
      /\ call'[e].pc = "takeRC" /\ call'[e].q = q
      /\ call'[e].list = Reverse(pending[q]["R3"]) \o call[e].list
      /\ pending'[q]["R3"] = <<>>
      /\ \A d \in Contexts : d # "R3" => pending'[q][d] = pending[q][d]
      /\ \A p \in Queues : p # q => pending'[p] = pending[p] /\ TakenBy(e, p)' = TakenBy(e, p)
      /\ InFlush(q) = call[e].list /\ InFlush(q)' = call'[e].list
      /\ UNCHANGED <<ring, from>>
  BY <1>1, <1>3, TookLists
<1>5. call[e].list = <<>>
  BY <1>1 DEF FlushList
<1> DEFINE f == InFlush(q)  a == Reverse(pending[q]["R0"])  b == Reverse(pending[q]["RC"])
           d == Reverse(pending[q]["R3"])
<1>6. /\ Listed(q) = f \o a \o b \o d
      /\ f \in Seq(Items) /\ a \in Seq(Items) /\ b \in Seq(Items) /\ d \in Seq(Items)
      /\ ToSet(a) = ToSet(pending[q]["R0"]) /\ ToSet(b) = ToSet(pending[q]["RC"])
      /\ ToSet(d) = ToSet(pending[q]["R3"])
      /\ "R3" \in Contexts /\ "RC" \in Contexts /\ "R0" \in Contexts
  BY <1>1, ListedBlocks
<1>7. Listed(q)' = (d \o f) \o a \o b \o <<>>
  BY <1>4, <1>6, ReverseEmpty DEF Listed
<1>8. f = <<>> /\ call'[e].list = d \o f
  BY <1>4, <1>5
<1> HIDE DEF f, a, b, d
<1>9. ToSet(f) = {}
  BY <1>8, EmptyIs
<1>10. q \in Ordered => \A c \in Contexts : \A i \in ToSet(pending[q][c]) : from[q][i] = c
  BY ListsOf
<1>11. q \in Ordered => Distinct(ToSet(d), ToSet(f) \cup ToSet(a) \cup ToSet(b), from[q])
  BY <1>6, <1>9, <1>10 DEF Distinct
<1>12. Reordered(Listed(q), Listed(q)', q, from[q])
  <2>1. Reordered(f \o a \o b \o d, (d \o f) \o a \o b \o <<>>, q, from[q])
    BY <1>6, <1>11, TookLast
  <2> QED  BY <1>6, <1>7, <2>1
<1>13. TakenFrom(e)'
  <2>0. TwoLists(d \o f, d, f)
    BY <1>6, TwoBlocks
  <2>1. ToSet(call'[e].list) = ToSet(d) \cup ToSet(f)
    BY <1>8, <2>0 DEF TwoLists
  <2>2. q \in Ordered => \A i \in ToSet(call'[e].list) : from[q][i] = "R3"
    BY <1>6, <1>9, <1>10, <2>1
  <2>3. from' = from
    BY <1>4
  <2> QED  BY <1>4, <2>2, <2>3 DEF TakenFrom, At
<1>14. q \in Ordered => \A c \in Contexts : \A i \in ToSet(pending'[q][c]) : from[q][i] = c
  BY <1>4, <1>10, EmptyIs
<1> QED  BY <1>4, <1>12, <1>13, <1>14, TookThread, Relisted

LEMMA TakeRCMail ==
    ASSUME MailInv, FlushInv', NEW e \in EMTs, TakeRC(e)
    PROVE  MailInv' /\ UNCHANGED Box!vars
<1>1. /\ e \in Threads /\ FlushInv /\ FlushList(e) /\ call[e].pc = "takeRC" /\ call[e].pc \in FlushPcs
      /\ "takeR0" \in FlushPcs /\ Took(e, "RC", "takeR0") /\ "RC" \in Contexts
  BY MailIs, Constants DEF TakeRC, At, FlushPcs, Contexts
<1>2. call[e].q \in Queues
  BY <1>1, FlushQueue
<1>3. PICK q \in Queues : call[e].q = q
  BY <1>2
<1>4. /\ \A u \in Threads : u # e => call'[u] = call[u]
      /\ call'[e].pc = "takeR0" /\ call'[e].q = q
      /\ call'[e].list = Reverse(pending[q]["RC"]) \o call[e].list
      /\ pending'[q]["RC"] = <<>>
      /\ \A d \in Contexts : d # "RC" => pending'[q][d] = pending[q][d]
      /\ \A p \in Queues : p # q => pending'[p] = pending[p] /\ TakenBy(e, p)' = TakenBy(e, p)
      /\ InFlush(q) = call[e].list /\ InFlush(q)' = call'[e].list
      /\ UNCHANGED <<ring, from>>
  BY <1>1, <1>3, TookLists
<1>5. q \in Ordered => \A i \in ToSet(call[e].list) : from[q][i] = "R3"
  BY <1>1, <1>3 DEF FlushList, TakenFrom, At
<1> DEFINE f == InFlush(q)  a == Reverse(pending[q]["R0"])  b == Reverse(pending[q]["RC"])
           d == Reverse(pending[q]["R3"])
<1>6. /\ Listed(q) = f \o a \o b \o d
      /\ f \in Seq(Items) /\ a \in Seq(Items) /\ b \in Seq(Items) /\ d \in Seq(Items)
      /\ ToSet(a) = ToSet(pending[q]["R0"]) /\ ToSet(b) = ToSet(pending[q]["RC"])
      /\ ToSet(d) = ToSet(pending[q]["R3"])
      /\ "R3" \in Contexts /\ "RC" \in Contexts /\ "R0" \in Contexts
  BY <1>1, ListedBlocks
<1>7. Listed(q)' = (b \o f) \o a \o <<>> \o d
  BY <1>4, <1>6, ReverseEmpty DEF Listed
<1>8. f = call[e].list /\ call'[e].list = b \o f
  BY <1>4
<1> HIDE DEF f, a, b, d
<1>9. q \in Ordered => \A i \in ToSet(f) : from[q][i] = "R3"
  BY <1>5, <1>8
<1>10. q \in Ordered => \A c \in Contexts : \A i \in ToSet(pending[q][c]) : from[q][i] = c
  BY ListsOf
<1>11. q \in Ordered => Distinct(ToSet(b), ToSet(f) \cup ToSet(a), from[q])
  BY <1>6, <1>9, <1>10 DEF Distinct
<1>12. Reordered(Listed(q), Listed(q)', q, from[q])
  <2>1. Reordered(f \o a \o b \o d, (b \o f) \o a \o <<>> \o d, q, from[q])
    BY <1>6, <1>11, TookThird
  <2> QED  BY <1>6, <1>7, <2>1
<1>13. TakenFrom(e)'
  <2>0. TwoLists(b \o f, b, f)
    BY <1>6, TwoBlocks
  <2>1. ToSet(call'[e].list) = ToSet(b) \cup ToSet(f)
    BY <1>8, <2>0 DEF TwoLists
  <2>2. q \in Ordered => \A i \in ToSet(call'[e].list) : from[q][i] \in {"R3", "RC"}
    BY <1>6, <1>9, <1>10, <2>1
  <2>3. from' = from
    BY <1>4
  <2> QED  BY <1>4, <2>2, <2>3 DEF TakenFrom, At
<1>14. q \in Ordered => \A c \in Contexts : \A i \in ToSet(pending'[q][c]) : from[q][i] = c
  BY <1>4, <1>10, EmptyIs
<1> QED  BY <1>4, <1>12, <1>13, <1>14, TookThread, Relisted

LEMMA TakeR0Mail ==
    ASSUME MailInv, FlushInv', NEW e \in EMTs, TakeR0(e)
    PROVE  MailInv' /\ UNCHANGED Box!vars
<1>1. /\ e \in Threads /\ FlushInv /\ FlushList(e) /\ call[e].pc = "takeR0" /\ call[e].pc \in FlushPcs
      /\ "feed" \in FlushPcs /\ Took(e, "R0", "feed") /\ "R0" \in Contexts
  BY MailIs, Constants DEF TakeR0, At, FlushPcs, Contexts
<1>2. call[e].q \in Queues
  BY <1>1, FlushQueue
<1>3. PICK q \in Queues : call[e].q = q
  BY <1>2
<1>4. /\ \A u \in Threads : u # e => call'[u] = call[u]
      /\ call'[e].pc = "feed" /\ call'[e].q = q
      /\ call'[e].list = Reverse(pending[q]["R0"]) \o call[e].list
      /\ pending'[q]["R0"] = <<>>
      /\ \A d \in Contexts : d # "R0" => pending'[q][d] = pending[q][d]
      /\ \A p \in Queues : p # q => pending'[p] = pending[p] /\ TakenBy(e, p)' = TakenBy(e, p)
      /\ InFlush(q) = call[e].list /\ InFlush(q)' = call'[e].list
      /\ UNCHANGED <<ring, from>>
  BY <1>1, <1>3, TookLists
<1>5. q \in Ordered => \A i \in ToSet(call[e].list) : from[q][i] \in {"R3", "RC"}
  BY <1>1, <1>3 DEF FlushList, TakenFrom, At
<1> DEFINE f == InFlush(q)  a == Reverse(pending[q]["R0"])  b == Reverse(pending[q]["RC"])
           d == Reverse(pending[q]["R3"])
<1>6. /\ Listed(q) = f \o a \o b \o d
      /\ f \in Seq(Items) /\ a \in Seq(Items) /\ b \in Seq(Items) /\ d \in Seq(Items)
      /\ ToSet(a) = ToSet(pending[q]["R0"]) /\ ToSet(b) = ToSet(pending[q]["RC"])
      /\ ToSet(d) = ToSet(pending[q]["R3"])
      /\ "R3" \in Contexts /\ "RC" \in Contexts /\ "R0" \in Contexts
  BY <1>1, ListedBlocks
<1>7. Listed(q)' = (a \o f) \o <<>> \o b \o d
  BY <1>4, <1>6, ReverseEmpty DEF Listed
<1>8. f = call[e].list /\ call'[e].list = a \o f
  BY <1>4
<1> HIDE DEF f, a, b, d
<1>9. q \in Ordered => \A i \in ToSet(f) : from[q][i] \in {"R3", "RC"}
  BY <1>5, <1>8
<1>10. q \in Ordered => \A c \in Contexts : \A i \in ToSet(pending[q][c]) : from[q][i] = c
  BY ListsOf
<1>11. q \in Ordered => Distinct(ToSet(a), ToSet(f), from[q])
  BY <1>6, <1>9, <1>10 DEF Distinct
<1>12. Reordered(Listed(q), Listed(q)', q, from[q])
  <2>1. Reordered(f \o a \o b \o d, (a \o f) \o <<>> \o b \o d, q, from[q])
    BY <1>6, <1>11, TookSecond
  <2> QED  BY <1>6, <1>7, <2>1
<1>13. TakenFrom(e)'
  BY <1>4 DEF TakenFrom, At
<1>14. q \in Ordered => \A c \in Contexts : \A i \in ToSet(pending'[q][c]) : from[q][i] = c
  BY <1>4, <1>10, EmptyIs
<1> QED  BY <1>4, <1>12, <1>13, <1>14, TookThread, Relisted

\* In a queue kept in order whose consumer refuses items only ring-3 inserts.
LEMMA OnlyR3 ==
    ASSUME MailInv, NEW q \in Queues, q \in Ordered, q \in Fussy
    PROVE  /\ \A i \in ToSet(Listed(q)) : from[q][i] = "R3"
           /\ ToSet(pending[q]["R0"]) = {} /\ ToSet(pending[q]["RC"]) = {}
<1>1. q \notin RZQueues /\ ListedFrom(q)
  BY MailIs DEF Ordered
<1>2. \A i \in ToSet(Listed(q)) : from[q][i] = "R3"
  BY <1>1 DEF ListedFrom
<1>3. \A c \in Contexts : ToSet(pending[q][c]) \subseteq ToSet(Listed(q))
  BY ListedHas
<1>4. \A c \in Contexts : c # "R3" => ToSet(pending[q][c]) = {}
  BY <1>2, <1>3, ListsOf
<1> QED  BY <1>2, <1>4 DEF Contexts

LEMMA PutBackMail ==
    ASSUME MailInv, FlushInv', NEW e \in EMTs, PutBack(e)
    PROVE  MailInv' /\ UNCHANGED Box!vars
<1>1. /\ e \in Threads /\ FlushInv /\ TypeOK /\ FlushList(e) /\ call[e].pc = "putback" /\ call[e].pc \in FlushPcs
      /\ UNCHANGED <<ring, from>> /\ Flushed(e) /\ EMTs \subseteq Threads
  BY MailIs, Constants DEF PutBack, At, FlushPcs
<1>2. call[e].q \in Queues
  BY <1>1, FlushQueue
<1>3. PICK q \in Queues : call[e].q = q
  BY <1>2
<1>4. q \in Fussy /\ pending[q]["R3"] = <<>> /\ pending' = [pending EXCEPT ![q]["R3"] = Reverse(call[e].list)]
  BY <1>1, <1>3 DEF PutBack, FlushList, At
<1>5. /\ call'[e].pc \in {"idle", "walk"} /\ call'[e].list = <<>>
      /\ \A u \in Threads : u # e => call'[u] = call[u]
  BY <1>1, FlushedCall, FlushedIs
<1>6. pending \in [Queues -> [Contexts -> Seq(Items)]]
  BY <1>1 DEF TypeOK
<1>7. /\ pending'[q]["R3"] = Reverse(call[e].list)
      /\ \A d \in Contexts : d # "R3" => pending'[q][d] = pending[q][d]
      /\ \A p \in Queues : p # q => pending'[p] = pending[p]
  BY <1>4, <1>6, Constants
<1>8. FlushesQueue(e, q) /\ FlusherOf(q)
  BY <1>1, <1>3, FlusherIs DEF FlushesQueue, FlushersKnown
<1>9. InFlush(q) = call[e].list
  BY <1>8 DEF FlusherOf
<1>10. InFlush(q)' = <<>>
  <2>1. FlushersKnown'
    BY FlusherIs, PTL
  <2>2. FlusherOf(q)'
    BY <2>1 DEF FlushersKnown
  <2>3. ~FlushesQueue(e, q)'
    BY <1>5 DEF FlushesQueue, FlushPcs
  <2>4. ASSUME NEW u \in EMTs, u # e PROVE ~FlushesQueue(u, q)'
    <3>1. call'[u] = call[u]
      BY <1>1, <1>5, <2>4
    <3>2. ~FlushesQueue(u, q)
      BY <1>8, <2>4 DEF FlusherOf
    <3> QED  BY <3>1, <3>2 DEF FlushesQueue
  <2>5. \A u \in EMTs : ~FlushesQueue(u, q)'
    BY <2>3, <2>4
  <2> QED  BY <2>2, <2>5 DEF FlusherOf
<1> DEFINE f == InFlush(q)  a == Reverse(pending[q]["R0"])  b == Reverse(pending[q]["RC"])
<1>11. /\ Listed(q) = f \o a \o b \o Reverse(pending[q]["R3"])
       /\ f \in Seq(Items) /\ a \in Seq(Items) /\ b \in Seq(Items)
       /\ ToSet(a) = ToSet(pending[q]["R0"]) /\ ToSet(b) = ToSet(pending[q]["RC"])
       /\ "R3" \in Contexts /\ "RC" \in Contexts /\ "R0" \in Contexts
  BY <1>1, ListedBlocks
<1>12. Listed(q) = f \o a \o b \o <<>>
  BY <1>4, <1>11, ReverseEmpty
<1>13. Reverse(Reverse(f)) = f /\ ToSet(Reverse(f)) = ToSet(f)
  BY <1>11, PrecedesReverse
<1>14. pending'[q]["R3"] = Reverse(f)
  BY <1>7, <1>9
<1>15. Listed(q)' = <<>> \o a \o b \o f
  <2>1. Listed(q)' = InFlush(q)' \o Reverse(pending'[q]["R0"]) \o Reverse(pending'[q]["RC"])
                                 \o Reverse(pending'[q]["R3"])
    BY DEF Listed
  <2>2. Reverse(pending'[q]["R3"]) = f
    BY <1>13, <1>14
  <2>3. pending'[q]["R0"] = pending[q]["R0"] /\ pending'[q]["RC"] = pending[q]["RC"]
    BY <1>7, <1>11
  <2> QED  BY <1>10, <2>1, <2>2, <2>3
<1> HIDE DEF f, a, b
<1>16. ASSUME q \in Ordered
       PROVE  ToSet(a) = {} /\ ToSet(b) = {} /\ \A i \in ToSet(f) : from[q][i] = "R3"
  <2>1. /\ \A i \in ToSet(Listed(q)) : from[q][i] = "R3"
        /\ ToSet(pending[q]["R0"]) = {} /\ ToSet(pending[q]["RC"]) = {}
    BY <1>4, <1>16, OnlyR3
  <2>2. ToSet(f) \subseteq ToSet(Listed(q))
    BY <1>8, <1>9, ListedHas DEF f
  <2> QED  BY <1>11, <2>1, <2>2
<1>17. Reordered(Listed(q), Listed(q)', q, from[q])
  <2>1. q \in Ordered => Distinct(ToSet(f), ToSet(a) \cup ToSet(b), from[q])
    BY <1>16 DEF Distinct
  <2>2. Reordered(f \o a \o b \o <<>>, <<>> \o a \o b \o f, q, from[q])
    BY <1>11, <2>1, PutLast
  <2> QED  BY <1>12, <1>15, <2>2
<1>18. q \in Ordered => \A c \in Contexts : \A i \in ToSet(pending'[q][c]) : from[q][i] = c
  <2>1. q \in Ordered => \A i \in ToSet(pending'[q]["R3"]) : from[q][i] = "R3"
    BY <1>13, <1>14, <1>16
  <2>2. q \in Ordered => \A c \in Contexts : c # "R3" => \A i \in ToSet(pending'[q][c]) : from[q][i] = c
    BY <1>7, ListsOf
  <2> QED  BY <2>1, <2>2
<1>19. ThreadInv(e)' /\ ~At(e, "push")' /\ \A p \in Queues : TakenBy(e, p)' = <<>>
  BY <1>1, <1>5, ThreadFree DEF FlushPcs
<1>20. \A p \in Queues : p # q => TakenBy(e, p)' = TakenBy(e, p)
  BY <1>3, <1>19 DEF TakenBy, FlushesQueue
<1> QED  BY <1>1, <1>5, <1>7, <1>17, <1>18, <1>19, <1>20, Relisted

LEMMA PutBackJoinMail ==
    ASSUME MailInv, FlushInv', NEW e \in EMTs, PutBackJoin(e)
    PROVE  MailInv' /\ UNCHANGED Box!vars
<1>1. /\ e \in Threads /\ FlushInv /\ TypeOK /\ FlushList(e) /\ call[e].pc = "putback" /\ call[e].pc \in FlushPcs
      /\ UNCHANGED <<ring, from>> /\ "putback" \in Pcs
  BY MailIs, Constants DEF PutBackJoin, At, FlushPcs, Pcs
<1>2. call[e].q \in Queues
  BY <1>1, FlushQueue
<1>3. PICK q \in Queues : call[e].q = q
  BY <1>2
<1> DEFINE l == call[e].list \o Reverse(pending[q]["R3"])
<1>4. q \in Fussy /\ pending' = [pending EXCEPT ![q]["R3"] = <<>>] /\ Flush(e, "putback", l)
  BY <1>1, <1>3 DEF PutBackJoin, FlushList, At, Joined
<1>5. call[e].list \in Seq(Items) /\ Reverse(pending[q]["R3"]) \in Seq(Items)
  BY <1>1, ListedParts, FlushQueue
<1>6. l \in Seq(Items)
  BY <1>5
<1> HIDE DEF l
<1>7. /\ \A u \in Threads : u # e => call'[u] = call[u]
      /\ call'[e].pc = "putback" /\ call'[e].q = q /\ call'[e].list = l
  BY <1>1, <1>3, <1>4, <1>6, FlushIs
<1>8. pending \in [Queues -> [Contexts -> Seq(Items)]]
  BY <1>1 DEF TypeOK
<1>9. /\ pending'[q]["R3"] = <<>>
      /\ \A d \in Contexts : d # "R3" => pending'[q][d] = pending[q][d]
      /\ \A p \in Queues : p # q => pending'[p] = pending[p]
  BY <1>4, <1>8, Constants
<1>10. FlushesQueue(e, q) /\ InFlush(q) = call[e].list
  BY <1>1, <1>3, FlusherIs DEF FlushesQueue, FlushersKnown, FlusherOf
<1>11. InFlush(q)' = l
  <2>1. FlushersKnown'
    BY FlusherIs, PTL
  <2>2. FlusherOf(q)'
    BY <2>1 DEF FlushersKnown
  <2>3. FlushesQueue(e, q)'
    BY <1>7 DEF FlushesQueue, FlushPcs
  <2> QED  BY <1>7, <2>2, <2>3 DEF FlusherOf
<1> DEFINE f == InFlush(q)  a == Reverse(pending[q]["R0"])  b == Reverse(pending[q]["RC"])
           d == Reverse(pending[q]["R3"])
<1>12. /\ Listed(q) = f \o a \o b \o d
       /\ f \in Seq(Items) /\ a \in Seq(Items) /\ b \in Seq(Items) /\ d \in Seq(Items)
       /\ ToSet(a) = ToSet(pending[q]["R0"]) /\ ToSet(b) = ToSet(pending[q]["RC"])
       /\ "R3" \in Contexts /\ "RC" \in Contexts /\ "R0" \in Contexts
  BY <1>1, ListedBlocks
<1>13. l = f \o d
  BY <1>10 DEF l
<1>14. Listed(q)' = (f \o d) \o a \o b \o <<>>
  <2>1. Listed(q)' = InFlush(q)' \o Reverse(pending'[q]["R0"]) \o Reverse(pending'[q]["RC"])
                                 \o Reverse(pending'[q]["R3"])
    BY DEF Listed
  <2>2. pending'[q]["R0"] = pending[q]["R0"] /\ pending'[q]["RC"] = pending[q]["RC"]
    BY <1>9, <1>12
  <2>3. Reverse(pending'[q]["R3"]) = <<>>
    BY <1>9, ReverseEmpty
  <2> QED  BY <1>11, <1>13, <2>1, <2>2, <2>3
<1> HIDE DEF f, a, b, d
<1>15. q \in Ordered => Distinct(ToSet(d), ToSet(a) \cup ToSet(b), from[q])
  BY <1>4, <1>12, OnlyR3 DEF Distinct
<1>16. Reordered(Listed(q), Listed(q)', q, from[q])
  <2>1. Reordered(f \o a \o b \o d, (f \o d) \o a \o b \o <<>>, q, from[q])
    BY <1>12, <1>15, LinkedLast
  <2> QED  BY <1>12, <1>14, <2>1
<1>17. q \in Ordered => \A c \in Contexts : \A i \in ToSet(pending'[q][c]) : from[q][i] = c
  <2>1. ToSet(pending'[q]["R3"]) = {}
    BY <1>9, EmptyIs
  <2>2. q \in Ordered => \A c \in Contexts : c # "R3" => \A i \in ToSet(pending'[q][c]) : from[q][i] = c
    BY <1>9, ListsOf
  <2> QED  BY <2>1, <2>2
<1>18. ThreadInv(e)' /\ ~At(e, "push")'
  BY <1>1, <1>3, <1>4, <1>7 DEF ThreadInv, Own, Inserts, FlushList, TakenFrom, At, FlushPcs
<1>19. \A p \in Queues : p # q => TakenBy(e, p)' = TakenBy(e, p)
  BY <1>3, <1>7 DEF TakenBy, FlushesQueue
<1> QED  BY <1>1, <1>7, <1>9, <1>16, <1>17, <1>18, <1>19, Relisted

-----------------------------------------------------------------------------
(* The push.                                                               *)

-----------------------------------------------------------------------------
(* An item is pushed.                                                      *)

\* r is s with x at its end.
OneMore(s, r, x) ==
    /\ ToSet(r) = ToSet(s) \cup {x}
    /\ \A i, j : Precedes(i, j, r) <=> Precedes(i, j, s) \/ (i \in ToSet(s) /\ j = x)

\* w has one more element than s, that follows all those of its line.
Grown(s, w, x, q, g, c) ==
    /\ w \in Seq(Items)
    /\ ToSet(w) = ToSet(s) \cup {x}
    /\ \A i : Precedes(i, i, w) => Precedes(i, i, s)
    /\ \A i, j : i # x /\ j # x => (Precedes(i, j, w) <=> Precedes(i, j, s))
    /\ q \in Ordered => \A i \in ToSet(s) : g[i] = c => Precedes(i, x, w) /\ ~Precedes(x, i, w)

Own3(a, b, d, g) == /\ \A i \in ToSet(a) : g[i] = "R0"
                    /\ \A i \in ToSet(b) : g[i] = "RC"
                    /\ \A i \in ToSet(d) : g[i] = "R3"

LEMMA PushedReverse ==
    ASSUME NEW s \in Seq(Items), NEW x \in Items
    PROVE  Reverse(<<x>> \o s) \in Seq(Items) /\ OneMore(Reverse(s), Reverse(<<x>> \o s), x)
<1> DEFINE p == <<x>> \o s
           r == Reverse(s)
           w == Reverse(p)
<1>1. /\ p \in Seq(Items) /\ ToSet(p) = {x} \cup ToSet(s)
      /\ \A i, j : Precedes(i, j, p) <=> (Precedes(i, j, s) \/ (i = x /\ j \in ToSet(s)))
  BY PushIs, PrecedesPush
<1>2. ToSet(r) = ToSet(s) /\ \A i, j : Precedes(i, j, r) <=> Precedes(j, i, s)
  BY PrecedesReverse
<1> HIDE DEF p, r
<1>3. w \in Seq(Items) /\ ToSet(w) = ToSet(p) /\ \A i, j : Precedes(i, j, w) <=> Precedes(j, i, p)
  BY <1>1, PrecedesReverse
<1> HIDE DEF w
<1>4. OneMore(r, w, x)
  BY <1>1, <1>2, <1>3 DEF OneMore
<1> QED  BY <1>3, <1>4 DEF p, r, w

LEMMA PushedR0 ==
    ASSUME NEW f \in Seq(Items), NEW a \in Seq(Items), NEW b \in Seq(Items), NEW d \in Seq(Items),
           NEW r \in Seq(Items), NEW x \in Items, OneMore(a, r, x), NEW q, NEW g,
           x \notin ToSet(f \o a \o b \o d), q \in Ordered => Own3(a, b, d, g)
    PROVE  Grown(f \o a \o b \o d, f \o r \o b \o d, x, q, g, "R0")
<1> DEFINE s == f \o a \o b \o d
           w == f \o r \o b \o d
<1>1. FourLists(s, f, a, b, d) /\ FourLists(w, f, r, b, d)
  BY Blocks
<1>2. x \notin ToSet(s)
  OBVIOUS
<1> HIDE DEF s, w
<1>3. w \in Seq(Items) /\ ToSet(w) = ToSet(s) \cup {x}
  BY <1>1 DEF FourLists, OneMore
<1>4. ASSUME NEW i, Precedes(i, i, w) PROVE Precedes(i, i, s)
  BY <1>1, <1>2, <1>4 DEF FourLists, OneMore
<1>5. ASSUME NEW i, NEW j, i # x, j # x PROVE Precedes(i, j, w) <=> Precedes(i, j, s)
  BY <1>1, <1>2, <1>5 DEF FourLists, OneMore
<1>6. ASSUME q \in Ordered, NEW i \in ToSet(s), g[i] = "R0" PROVE Precedes(i, x, w)
  BY <1>1, <1>2, <1>6 DEF FourLists, OneMore, Own3
<1>7. ASSUME q \in Ordered, NEW i \in ToSet(s), g[i] = "R0" PROVE ~Precedes(x, i, w)
  BY <1>1, <1>2, <1>7, PrecedesIn DEF FourLists, OneMore, Own3
<1>8. Grown(s, w, x, q, g, "R0")
  BY <1>3, <1>4, <1>5, <1>6, <1>7 DEF Grown
<1> QED  BY <1>8 DEF s, w

LEMMA PushedRC ==
    ASSUME NEW f \in Seq(Items), NEW a \in Seq(Items), NEW b \in Seq(Items), NEW d \in Seq(Items),
           NEW r \in Seq(Items), NEW x \in Items, OneMore(b, r, x), NEW q, NEW g,
           x \notin ToSet(f \o a \o b \o d), q \in Ordered => Own3(a, b, d, g)
    PROVE  Grown(f \o a \o b \o d, f \o a \o r \o d, x, q, g, "RC")
<1> DEFINE s == f \o a \o b \o d
           w == f \o a \o r \o d
<1>1. FourLists(s, f, a, b, d) /\ FourLists(w, f, a, r, d)
  BY Blocks
<1>2. x \notin ToSet(s)
  OBVIOUS
<1> HIDE DEF s, w
<1>3. w \in Seq(Items) /\ ToSet(w) = ToSet(s) \cup {x}
  BY <1>1 DEF FourLists, OneMore
<1>4. ASSUME NEW i, Precedes(i, i, w) PROVE Precedes(i, i, s)
  BY <1>1, <1>2, <1>4 DEF FourLists, OneMore
<1>5. ASSUME NEW i, NEW j, i # x, j # x PROVE Precedes(i, j, w) <=> Precedes(i, j, s)
  BY <1>1, <1>2, <1>5 DEF FourLists, OneMore
<1>6. ASSUME q \in Ordered, NEW i \in ToSet(s), g[i] = "RC" PROVE Precedes(i, x, w)
  BY <1>1, <1>2, <1>6 DEF FourLists, OneMore, Own3
<1>7. ASSUME q \in Ordered, NEW i \in ToSet(s), g[i] = "RC" PROVE ~Precedes(x, i, w)
  BY <1>1, <1>2, <1>7, PrecedesIn DEF FourLists, OneMore, Own3
<1>8. Grown(s, w, x, q, g, "RC")
  BY <1>3, <1>4, <1>5, <1>6, <1>7 DEF Grown
<1> QED  BY <1>8 DEF s, w

LEMMA PushedR3 ==
    ASSUME NEW f \in Seq(Items), NEW a \in Seq(Items), NEW b \in Seq(Items), NEW d \in Seq(Items),
           NEW r \in Seq(Items), NEW x \in Items, OneMore(d, r, x), NEW q, NEW g,
           x \notin ToSet(f \o a \o b \o d), q \in Ordered => Own3(a, b, d, g)
    PROVE  Grown(f \o a \o b \o d, f \o a \o b \o r, x, q, g, "R3")
<1> DEFINE s == f \o a \o b \o d
           w == f \o a \o b \o r
<1>1. FourLists(s, f, a, b, d) /\ FourLists(w, f, a, b, r)
  BY Blocks
<1>2. x \notin ToSet(s)
  OBVIOUS
<1> HIDE DEF s, w
<1>3. w \in Seq(Items) /\ ToSet(w) = ToSet(s) \cup {x}
  BY <1>1 DEF FourLists, OneMore
<1>4. ASSUME NEW i, Precedes(i, i, w) PROVE Precedes(i, i, s)
  BY <1>1, <1>2, <1>4 DEF FourLists, OneMore
<1>5. ASSUME NEW i, NEW j, i # x, j # x PROVE Precedes(i, j, w) <=> Precedes(i, j, s)
  BY <1>1, <1>2, <1>5 DEF FourLists, OneMore
<1>6. ASSUME q \in Ordered, NEW i \in ToSet(s), g[i] = "R3" PROVE Precedes(i, x, w)
  BY <1>1, <1>2, <1>6 DEF FourLists, OneMore, Own3
<1>7. ASSUME q \in Ordered, NEW i \in ToSet(s), g[i] = "R3" PROVE ~Precedes(x, i, w)
  BY <1>1, <1>2, <1>7, PrecedesIn DEF FourLists, OneMore, Own3
<1>8. Grown(s, w, x, q, g, "R3")
  BY <1>3, <1>4, <1>5, <1>6, <1>7 DEF Grown
<1> QED  BY <1>8 DEF s, w

\* Before and after an item is pushed.
LEMMA PushLists ==
    ASSUME MailInv, FlushInv', NEW t \in Threads, Push(t), NEW q \in Queues, NEW c \in Contexts,
           NEW x \in Items, call[t].q = q, call[t].c = c, call[t].item = x
    PROVE  /\ \A u \in Threads : u # t => call'[u] = call[u]
           /\ call'[t].pc \in {"ff", "idle"} /\ call'[t].list = <<>>
           /\ pending'[q][c] = <<x>> \o pending[q][c]
           /\ \A d \in Contexts : d # c => pending'[q][d] = pending[q][d]
           /\ \A p \in Queues : p # q => pending'[p] = pending[p] /\ from'[p] = from[p]
           /\ from'[q][x] = c /\ \A i \in Items : i # x => from'[q][i] = from[q][i]
           /\ UNCHANGED ring
           /\ \A p \in Queues : InFlush(p)' = InFlush(p)
<1>1. FlushInv /\ TypeOK /\ FlushList(t) /\ call[t].pc = "push" /\ call \in [Threads -> Calls]
  BY MailIs, CallIs DEF Push, At
<1> DEFINE r == IF call[t].q \in Forced THEN [Idle EXCEPT !.pc = "ff"] ELSE Idle
<1>2. r.pc \in {"ff", "idle"} /\ r.list = <<>>
  BY DEF Idle
<1>3. call' = [call EXCEPT ![t] = r]
  BY DEF Push, AfterPush
<1> HIDE DEF r
<1>4. call'[t] = r /\ \A u \in Threads : u # t => call'[u] = call[u]
  BY <1>1, <1>3
<1>5. pending \in [Queues -> [Contexts -> Seq(Items)]] /\ from \in [Queues -> [Items -> Contexts]]
  BY <1>1 DEF TypeOK
<1>6. /\ pending' = [pending EXCEPT ![q][c] = <<x>> \o @]
      /\ from' = [from EXCEPT ![q][x] = c] /\ UNCHANGED ring
  BY DEF Push
<1>7. /\ pending'[q][c] = <<x>> \o pending[q][c]
      /\ \A d \in Contexts : d # c => pending'[q][d] = pending[q][d]
      /\ \A p \in Queues : p # q => pending'[p] = pending[p]
  BY <1>5, <1>6
<1>8. /\ from'[q][x] = c /\ \A i \in Items : i # x => from'[q][i] = from[q][i]
      /\ \A p \in Queues : p # q => from'[p] = from[p]
  BY <1>5, <1>6
<1>9. \A p \in Queues : TakenBy(t, p) = <<>> /\ TakenBy(t, p)' = <<>>
  BY <1>1, <1>2, <1>4 DEF TakenBy, FlushesQueue, FlushPcs
<1>10. call[t].pc \notin FlushPcs /\ call'[t].pc \notin FlushPcs
  BY <1>1, <1>2, <1>4 DEF FlushPcs
<1>11. ASSUME NEW p \in Queues PROVE InFlush(p)' = InFlush(p)
  BY <1>1, <1>4, <1>9, <1>10, InFlushKept
<1> QED  BY <1>2, <1>4, <1>6, <1>7, <1>8, <1>11

LEMMA PushGrows ==
    ASSUME MailInv, FlushInv', NEW t \in Threads, Push(t), NEW q \in Queues, NEW c \in Contexts,
           NEW x \in Items, call[t].q = q, call[t].c = c, call[t].item = x
    PROVE  x \notin ToSet(Listed(q)) /\ Grown(Listed(q), Listed(q)', x, q, from[q], c)
<1>1. FlushInv /\ Own(t) /\ At(t, "push")
  BY MailIs DEF Push
<1>2. /\ pending'[q][c] = <<x>> \o pending[q][c]
      /\ \A d \in Contexts : d # c => pending'[q][d] = pending[q][d]
      /\ InFlush(q)' = InFlush(q)
  BY PushLists
<1>3. x \notin ToSet(Listed(q))
  BY <1>1 DEF Own
<1> DEFINE f == InFlush(q)  a == Reverse(pending[q]["R0"])  b == Reverse(pending[q]["RC"])
           d == Reverse(pending[q]["R3"])  r == Reverse(<<x>> \o pending[q][c])
<1>4. /\ Listed(q) = f \o a \o b \o d
      /\ f \in Seq(Items) /\ a \in Seq(Items) /\ b \in Seq(Items) /\ d \in Seq(Items)
      /\ ToSet(a) = ToSet(pending[q]["R0"]) /\ ToSet(b) = ToSet(pending[q]["RC"])
      /\ ToSet(d) = ToSet(pending[q]["R3"])
      /\ "R3" \in Contexts /\ "RC" \in Contexts /\ "R0" \in Contexts
  BY <1>1, ListedBlocks
<1>5. r \in Seq(Items) /\ OneMore(Reverse(pending[q][c]), r, x)
  <2>1. pending[q][c] \in Seq(Items)
    BY <1>1, ListedParts
  <2> QED  BY <2>1, PushedReverse
<1>6. Listed(q)' = InFlush(q)' \o Reverse(pending'[q]["R0"]) \o Reverse(pending'[q]["RC"])
                               \o Reverse(pending'[q]["R3"])
  BY DEF Listed
<1>7. c = "R0" => Listed(q)' = f \o r \o b \o d
  BY <1>2, <1>4, <1>6
<1>8. c = "RC" => Listed(q)' = f \o a \o r \o d
  BY <1>2, <1>4, <1>6
<1>9. c = "R3" => Listed(q)' = f \o a \o b \o r
  BY <1>2, <1>4, <1>6
<1>10. /\ c = "R0" => OneMore(a, r, x)
       /\ c = "RC" => OneMore(b, r, x)
       /\ c = "R3" => OneMore(d, r, x)
  BY <1>5
<1> HIDE DEF f, a, b, d, r
<1>11. q \in Ordered => Own3(a, b, d, from[q])
  BY <1>4, ListsOf DEF Own3
<1>12. x \notin ToSet(f \o a \o b \o d)
  BY <1>3, <1>4
<1>13. CASE c = "R0"
  <2>1. Grown(f \o a \o b \o d, f \o r \o b \o d, x, q, from[q], "R0")
    BY <1>4, <1>5, <1>10, <1>11, <1>12, <1>13, PushedR0
  <2> QED  BY <1>3, <1>4, <1>7, <1>13, <2>1
<1>14. CASE c = "RC"
  <2>1. Grown(f \o a \o b \o d, f \o a \o r \o d, x, q, from[q], "RC")
    BY <1>4, <1>5, <1>10, <1>11, <1>12, <1>14, PushedRC
  <2> QED  BY <1>3, <1>4, <1>8, <1>14, <2>1
<1>15. CASE c = "R3"
  <2>1. Grown(f \o a \o b \o d, f \o a \o b \o r, x, q, from[q], "R3")
    BY <1>4, <1>5, <1>10, <1>11, <1>12, <1>15, PushedR3
  <2> QED  BY <1>3, <1>4, <1>9, <1>15, <2>1
<1> QED  BY <1>13, <1>14, <1>15 DEF Contexts

LEMMA PushMail ==
    ASSUME MailInv, FlushInv', NEW t \in Threads, Push(t)
    PROVE  MailInv' /\ Box!Insert(call[t].q, call[t].c, call[t].item)
<1>1. /\ FlushInv /\ Own(t) /\ Inserts(t) /\ At(t, "push") /\ call[t].pc = "push"
      /\ call[t].q \in Queues /\ call[t].c \in Contexts /\ call[t].item \in Items
  BY MailIs, PushedIs DEF Push, At
<1>2. PICK q \in Queues, c \in Contexts, x \in Items : call[t].q = q /\ call[t].c = c /\ call[t].item = x
  BY <1>1
<1>3. /\ \A u \in Threads : u # t => call'[u] = call[u]
      /\ call'[t].pc \in {"ff", "idle"} /\ call'[t].list = <<>>
      /\ pending'[q][c] = <<x>> \o pending[q][c]
      /\ \A d \in Contexts : d # c => pending'[q][d] = pending[q][d]
      /\ \A p \in Queues : p # q => pending'[p] = pending[p] /\ from'[p] = from[p]
      /\ from'[q][x] = c /\ \A i \in Items : i # x => from'[q][i] = from[q][i]
      /\ UNCHANGED ring
      /\ \A p \in Queues : InFlush(p)' = InFlush(p)
  BY <1>2, PushLists
<1>4. x \notin ToSet(Listed(q)) /\ Grown(Listed(q), Listed(q)', x, q, from[q], c)
  BY <1>2, PushGrows
<1> DEFINE L == ToSet(Listed(q))
<1>5. /\ ToSet(Listed(q))' = L \cup {x} /\ L \subseteq Items
      /\ \A i : Precedes(i, i, Listed(q))' => Precedes(i, i, Listed(q))
      /\ \A i, j : i # x /\ j # x => (Precedes(i, j, Listed(q))' <=> Precedes(i, j, Listed(q)))
      /\ q \in Ordered => \A i \in L : from[q][i] = c =>
             Precedes(i, x, Listed(q))' /\ ~Precedes(x, i, Listed(q))'
  BY <1>4, ListedHas DEF Grown
<1>6. x \notin FreeItems[q] /\ c \in Lines /\ (q \notin RZQueues => c = "R3")
  BY <1>1, <1>2 DEF Own, Inserts, Lines
<1>7. \A p \in Queues : FreeItems'[p] = FreeItems[p] /\ RingOnce(p)'
  BY <1>3, FreeSame, MailIs DEF ring
<1>8. \A i \in L : i \in Items /\ i # x /\ from'[q][i] = from[q][i]
  BY <1>3, <1>4, <1>5
<1>9. ListedOnce(q) /\ ListedFrom(q)
  BY MailIs
<1>10. ListedOnce(q)'
  <2>1. \A i \in Items : ~Precedes(i, i, Listed(q))'
    BY <1>5, <1>9 DEF ListedOnce
  <2>2. \A i \in ToSet(Listed(q))' : i \notin FreeItems'[q]
    BY <1>5, <1>6, <1>7, <1>9 DEF ListedOnce
  <2> QED  BY <2>1, <2>2 DEF ListedOnce
<1>11. ListedFrom(q)'
  <2>1. ASSUME NEW i \in ToSet(Listed(q))'
        PROVE  from'[q][i] \in Lines /\ (q \notin RZQueues => from'[q][i] = "R3")
    BY <1>3, <1>5, <1>6, <1>8, <1>9, <2>1 DEF ListedFrom
  <2>2. ASSUME q \in Ordered, NEW d \in Contexts, NEW i \in ToSet(pending'[q][d]) PROVE from'[q][i] = d
    <3>1. CASE d # c
      <4>1. i \in ToSet(pending[q][d]) /\ from[q][i] = d
        BY <1>3, <2>2, <3>1, ListsOf
      <4>2. i \in L
        BY <4>1, ListedHas
      <4> QED  BY <1>8, <4>1, <4>2
    <3>2. CASE d = c /\ i # x
      <4>1. pending[q][c] \in Seq(Items)
        BY <1>1, ListedParts
      <4>2. i \in ToSet(pending[q][c])
        <5>1. ToSet(<<x>> \o pending[q][c]) = {x} \cup ToSet(pending[q][c])
          BY <4>1, PushIs
        <5>2. i \in ToSet(pending'[q][c])
          BY <2>2, <3>2
        <5>3. pending'[q][c] = <<x>> \o pending[q][c]
          BY <1>3
        <5> HIDE DEF L
        <5>4. i \in {x} \cup ToSet(pending[q][c])
          BY <5>1, <5>2, <5>3
        <5> QED  BY <3>2, <5>4
      <4>3. from[q][i] = c /\ i \in L
        BY <2>2, <4>2, ListsOf, ListedHas
      <4> QED  BY <1>8, <3>2, <4>3
    <3>3. CASE d = c /\ i = x
      BY <1>3, <3>3
    <3> QED  BY <3>1, <3>2, <3>3
  <2> QED  BY <2>1, <2>2 DEF ListedFrom
<1>12. QueueInv(q)'
  BY <1>7, <1>10, <1>11 DEF QueueInv
<1>13. ASSUME NEW p \in Queues, p # q
       PROVE  QueueInv(p)' /\ Waiting'[p] = Waiting[p] /\ Order'[p] = Order[p] /\ Listed(p)' = Listed(p)
  <2>1. FreeItems'[p] \subseteq FreeItems[p] /\ RingOnce(p)'
    BY <1>7
  <2> QED  BY <1>3, <1>13, <2>1, QueueSame
<1>14. MailInv'
  <2>1. ThreadInv(t)' /\ ~At(t, "push")'
    BY <1>3, ThreadFree DEF FlushPcs
  <2>2. \A p \in Queues : QueueInv(p)'
    BY <1>12, <1>13
  <2>3. ASSUME NEW p \in Queues, NEW i, i \in FreeItems'[p] \/ i \in ToSet(Listed(p))'
        PROVE  \/ i \in FreeItems[p] \/ i \in ToSet(Listed(p))
               \/ At(t, "push") /\ call[t].q = p /\ call[t].item = i
    <3>1. CASE p = q
      BY <1>1, <1>2, <1>5, <1>7, <2>3, <3>1
    <3>2. CASE p # q
      <4>1. ToSet(Listed(p))' = ToSet(Listed(p))
        BY <1>13, <3>2
      <4> QED  BY <1>7, <2>3, <4>1
    <3> QED  BY <3>1, <3>2
  <2>4. ASSUME NEW p \in Queues, NEW i \in ToSet(Listed(p)) PROVE from'[p][i] = from[p][i]
    BY <1>3, <1>8
  <2> QED  BY <1>3, <2>1, <2>2, <2>3, <2>4, MailKept
<1>15. /\ Waiting'[q][c] = Waiting[q][c] \cup {x}
       /\ \A l \in Lines : l # c => Waiting'[q][l] = Waiting[q][l]
  <2>1. \A l \in Lines : /\ Waiting[q][l] = {i \in ToSet(Listed(q)) : from[q][i] = l}
                         /\ Waiting'[q][l] = {i \in ToSet(Listed(q))' : from'[q][i] = l}
    BY DEF Waiting
  <2>2. \A l \in Lines : Waiting'[q][l] = {i \in L \cup {x} : from'[q][i] = l}
    <3>1. ToSet(Listed(q))' = L \cup {x}
      BY <1>5
    <3> HIDE DEF L
    <3> QED  BY <2>1, <3>1
  <2>3. \A l \in Lines : Waiting[q][l] = {i \in L : from[q][i] = l}
    BY <2>1
  <2> HIDE DEF L
  <2>4. from'[q][x] = c /\ c \in Lines
    BY <1>3, <1>6
  <2>5. \A l \in Lines, i \in L : from'[q][i] = l <=> from[q][i] = l
    BY <1>8 DEF L
  <2>6. ASSUME NEW l \in Lines, l # c PROVE Waiting'[q][l] = Waiting[q][l]
    <3>1. Waiting'[q][l] = {i \in L \cup {x} : from'[q][i] = l} /\ Waiting[q][l] = {i \in L : from[q][i] = l}
      BY <2>2, <2>3
    <3>2. \A i : i \in Waiting'[q][l] => i \in Waiting[q][l]
      BY <2>4, <2>5, <2>6, <3>1
    <3>3. \A i : i \in Waiting[q][l] => i \in Waiting'[q][l]
      BY <2>5, <3>1
    <3> QED  BY <3>1, <3>2, <3>3
  <2>7. Waiting'[q][c] = {i \in L \cup {x} : from'[q][i] = c} /\ Waiting[q][c] = {i \in L : from[q][i] = c}
    BY <2>2, <2>3, <2>4
  <2>8. \A i : i \in Waiting'[q][c] <=> i \in Waiting[q][c] \cup {x}
    BY <2>4, <2>5, <2>7
  <2>9. Waiting'[q][c] = Waiting[q][c] \cup {x}
    BY <2>8
  <2> QED  BY <2>6, <2>9
<1>16. Order'[q] = IF q \in Ordered THEN Order[q] \cup (Waiting[q][c] \X {x}) ELSE Order[q]
  <2>1. /\ Order[q] \subseteq Items \X Items
        /\ \A i, j : <<i, j>> \in Order[q] <=>
              q \in Ordered /\ Precedes(i, j, Listed(q)) /\ from[q][i] = from[q][j]
    BY <1>1, OrderIs
  <2>2. OrdersKnown'
    BY OrdersAre, PTL
  <2>3. OrderOf(q)'
    BY <2>2 DEF OrdersKnown
  <2>4. /\ Order'[q] \subseteq Items \X Items
        /\ \A i, j : <<i, j>> \in Order'[q] <=>
              q \in Ordered /\ Precedes(i, j, Listed(q))' /\ from'[q][i] = from'[q][j]
    BY <2>3, OrderNext
  <2>5. CASE q \notin Ordered
    BY <2>1, <2>4, <2>5
  <2>6. CASE q \in Ordered
    <3>1. Waiting[q][c] = {i \in L : from[q][i] = c}
      BY <1>6 DEF Waiting
    <3>2. Waiting[q][c] \X {x} \subseteq Items \X Items
      BY <1>5, <3>1
    <3>3. \A i, j : Precedes(i, j, Listed(q)) => i \in L /\ j \in L
      BY <1>1, ListedParts, PrecedesIn
    <3>4. \A i, j : Precedes(i, j, Listed(q))' => i \in L \cup {x} /\ j \in L \cup {x}
      <4>1. Listed(q)' \in Seq(Items)
        BY <1>4 DEF Grown
      <4>2. \A i, j : Precedes(i, j, Listed(q))' => i \in ToSet(Listed(q))' /\ j \in ToSet(Listed(q))'
        BY <4>1, PrecedesIn
      <4> QED  BY <1>5, <4>2
    <3>5. ASSUME NEW i \in Items, NEW j \in Items
          PROVE  <<i, j>> \in Order'[q] <=> <<i, j>> \in Order[q] \/ (i \in Waiting[q][c] /\ j = x)
      <4>1. CASE i # x /\ j # x
        <5>1. from'[q][i] = from[q][i] /\ from'[q][j] = from[q][j]
          BY <1>3, <4>1
        <5> QED  BY <1>5, <2>1, <2>4, <4>1, <5>1
      <4>2. CASE i # x /\ j = x
        <5>1. from'[q][i] = from[q][i] /\ from'[q][j] = c
          BY <1>3, <4>2
        <5>2. <<i, j>> \notin Order[q]
          BY <1>4, <2>1, <3>3, <4>2
        <5>3. <<i, j>> \in Order'[q] => i \in L /\ from[q][i] = c
          BY <2>4, <3>4, <4>2, <5>1
        <5>4. i \in L /\ from[q][i] = c => <<i, j>> \in Order'[q]
          BY <1>5, <2>4, <2>6, <4>2, <5>1
        <5> QED  BY <3>1, <4>2, <5>2, <5>3, <5>4
      <4>3. CASE i = x
        <5>1. <<i, j>> \notin Order[q] /\ i \notin Waiting[q][c]
          BY <1>4, <2>1, <3>1, <3>3, <4>3
        <5>2. ASSUME <<i, j>> \in Order'[q] PROVE FALSE
          <6>1. Precedes(x, j, Listed(q))' /\ from'[q][j] = c /\ j \in L \cup {x}
            BY <1>3, <2>4, <3>4, <4>3, <5>2
          <6>2. CASE j = x
            BY <1>4, <1>5, <3>3, <6>1, <6>2
          <6>3. CASE j \in L
            <7>1. from[q][j] = c
              BY <1>8, <6>1, <6>3
            <7> QED  BY <1>5, <2>6, <6>1, <6>3, <7>1
          <6> QED  BY <6>1, <6>2, <6>3
        <5> QED  BY <5>1, <5>2
      <4> QED  BY <4>1, <4>2, <4>3
    <3>6. \A i, j : <<i, j>> \in Waiting[q][c] \X {x} <=> i \in Waiting[q][c] /\ j = x
      OBVIOUS
    <3> QED  BY <2>1, <2>4, <2>6, <3>2, <3>5, <3>6
  <2> QED  BY <2>5, <2>6
<1>17. Box!Insert(q, c, x)
  <2>1. x \in Box!Held(q)
    <3>1. \A l \in Lines : x \notin Waiting[q][l]
      BY <1>4 DEF Waiting
    <3> QED  BY <1>6, <3>1 DEF Box!Held
  <2>2. FreeItems' = FreeItems
    <3>1. FreeItems = [p \in Queues |-> FreeItems[p]] /\ FreeItems' = [p \in Queues |-> FreeItems'[p]]
      BY DEF FreeItems
    <3> QED  BY <1>7, <3>1
  <2>3. Waiting' = [Waiting EXCEPT ![q][c] = @ \cup {x}]
    <3>1. /\ Waiting = [p \in Queues |-> [l \in Lines |-> Waiting[p][l]]]
          /\ Waiting' = [p \in Queues |-> [l \in Lines |-> Waiting'[p][l]]]
      BY DEF Waiting
    <3>2. \A p \in Queues : p # q => Waiting'[p] = Waiting[p]
      BY <1>13
    <3> HIDE DEF L
    <3> QED  BY <1>6, <1>15, <3>1, <3>2
  <2>4. Order' = IF q \in Ordered THEN [Order EXCEPT ![q] = @ \cup (Waiting[q][c] \X {x})] ELSE Order
    <3>1. Order = [p \in Queues |-> Order[p]] /\ Order' = [p \in Queues |-> Order'[p]]
      BY DEF Order
    <3>2. \A p \in Queues : p # q => Order'[p] = Order[p]
      BY <1>13
    <3> QED  BY <1>16, <3>1, <3>2
  <2> QED  BY <2>1, <2>2, <2>3, <2>4 DEF Box!Insert
<1> QED  BY <1>2, <1>14, <1>17

-----------------------------------------------------------------------------
(* The consumer gets an item, which goes back into the ring.               *)

\* While an item is in use the ring has a slot to put it back in.
LEMMA RoomLeft ==
    ASSUME FlushInv, NEW q \in Queues, RingOnce(q), NEW x \in Items, x \notin FreeItems[q]
    PROVE  After(iFreeHead[q]) # iFreeTail[q]
<1> SUFFICES ASSUME After(iFreeHead[q]) = iFreeTail[q] PROVE FALSE
  OBVIOUS
<1> DEFINE h == iFreeHead[q]
           S == Slots \ {h}
           T == Items \ {x}
           f == [i \in S |-> slot[q][i]]
<1>1. FreeSlots(q) = S /\ h \in Slots
  <2>1. h \in Slots
    BY RingIs
  <2> QED  BY <2>1, SlotsFull, FreeSlotsAre
<1>2. \A i \in S : slot[q][i] \in Items /\ slot[q][i] # x
  <2>1. FreeItems[q] = {slot[q][i] : i \in FreeSlots(q)}
    BY DEF FreeItems
  <2> QED  BY <1>1, <2>1 DEF RingOnce
<1>3. f \in [S -> T]
  BY <1>2
<1>4. IsFiniteSet(S) /\ Cardinality(S) = cItems + Slack - 1
  <2> DEFINE n == (cItems + Slack) - 1
  <2>1. n \in Nat /\ Slots = 0 .. n
    BY AfterLast
  <2>2. n \in Int /\ 0 \in Int /\ ~(0 > n)
    BY <2>1
  <2> HIDE DEF n
  <2>3. IsFiniteSet(0 .. n) /\ Cardinality(0 .. n) = n - 0 + 1
    BY <2>2, FS_Interval
  <2>4. IsFiniteSet(Slots) /\ Cardinality(Slots) = n + 1
    BY <2>1, <2>3
  <2>5. IsFiniteSet(S) /\ Cardinality(S) = Cardinality(Slots) - 1
    BY <1>1, <2>4, FS_RemoveElement
  <2>6. Cardinality(S) = n
    BY <2>1, <2>4, <2>5
  <2>7. n = cItems + Slack - 1
    BY Constants DEF n
  <2> QED  BY <2>5, <2>6, <2>7
<1>5. IsFiniteSet(T) /\ Cardinality(T) = cItems - 1
  <2>1. 1 \in Int /\ cItems \in Int /\ ~(1 > cItems) /\ cItems - 1 + 1 = cItems
    BY Constants
  <2>2. IsFiniteSet(Items) /\ Cardinality(Items) = cItems
    BY <2>1, FS_Interval DEF Items
  <2> QED  BY <2>2, FS_RemoveElement
<1>6. Cardinality(T) < Cardinality(S)
  BY <1>4, <1>5, Constants
<1> HIDE DEF S, T
<1>7. PICK i \in S, j \in S : i # j /\ f[i] = f[j]
  <2> HIDE DEF f
  <2> QED  BY <1>3, <1>4, <1>5, <1>6, FS_PigeonHole
<1>8. slot[q][i] = slot[q][j]
  BY <1>7
<1> QED  BY <1>1, <1>7, <1>8 DEF RingOnce

\* u is w without its first element.
Popped(w, u, x) ==
    /\ u \in Seq(Items) /\ ToSet(w) = {x} \cup ToSet(u)
    /\ \A i, j : Precedes(i, j, w) <=> (Precedes(i, j, u) \/ (i = x /\ j \in ToSet(u)))

LEMMA FirstPopped ==
    ASSUME NEW f \in Seq(Items), NEW a \in Seq(Items), NEW b \in Seq(Items), NEW d \in Seq(Items),
           f # <<>>
    PROVE  Popped(f \o a \o b \o d, Tail(f) \o a \o b \o d, Head(f))
<1> DEFINE g == Tail(f)  x == Head(f)  w == f \o a \o b \o d  u == g \o a \o b \o d
<1>1. /\ x \in Items /\ g \in Seq(Items) /\ ToSet(f) = {x} \cup ToSet(g)
      /\ \A i, j : Precedes(i, j, f) <=> (Precedes(i, j, g) \/ (i = x /\ j \in ToSet(g)))
  BY PrecedesPop
<1> HIDE DEF g, x
<1>2. FourLists(w, f, a, b, d) /\ FourLists(u, g, a, b, d)
  BY <1>1, Blocks
<1> HIDE DEF w, u
<1>3. u \in Seq(Items) /\ ToSet(w) = {x} \cup ToSet(u)
  BY <1>1, <1>2 DEF FourLists
<1>4. ASSUME NEW i, NEW j, Precedes(i, j, w) PROVE Precedes(i, j, u) \/ (i = x /\ j \in ToSet(u))
  BY <1>1, <1>2, <1>4 DEF FourLists
<1>5. ASSUME NEW i, NEW j, Precedes(i, j, u) PROVE Precedes(i, j, w)
  BY <1>1, <1>2, <1>5 DEF FourLists
<1>6. ASSUME NEW j \in ToSet(u) PROVE Precedes(x, j, w)
  BY <1>1, <1>2 DEF FourLists
<1>7. Popped(w, u, x)
  BY <1>3, <1>4, <1>5, <1>6 DEF Popped
<1> QED  BY <1>7 DEF w, u, g, x

\* Before and after the consumer gets the oldest item.
LEMMA FeedLists ==
    ASSUME MailInv, FlushInv', NEW e \in EMTs, Feed(e), NEW q \in Queues, call[e].q = q,
           NEW x, x = Head(call[e].list)
    PROVE  /\ x \in Items /\ x \in ToSet(Listed(q))
           /\ \A u \in Threads : u # e => call'[u] = call[u]
           /\ call'[e].pc = "feed"
           /\ pending' = pending /\ from' = from
           /\ \A p \in Queues : p # q => Listed(p)' = Listed(p) /\ InFlush(p)' = InFlush(p)
           /\ Popped(Listed(q), Listed(q)', x)
<1>1. /\ e \in Threads /\ FlushInv /\ TypeOK /\ call[e].pc = "feed" /\ call[e].pc \in FlushPcs
      /\ "feed" \in Pcs /\ call[e].list # <<>> /\ pending' = pending /\ from' = from
  BY MailIs, Constants DEF Feed, At, FlushPcs, Pcs
<1>2. PICK f : f = call[e].list
  OBVIOUS
<1>3. f \in Seq(Items) /\ f # <<>> /\ x = Head(f)
  <2>1. call[e].list \in Seq(Items)
    BY <1>1, FlushQueue
  <2> QED  BY <1>1, <1>2, <2>1
<1>4. Head(f) \in Items /\ Tail(f) \in Seq(Items)
  BY <1>3, HeadTail
<1>5. Flush(e, "feed", Tail(f))
  BY <1>2 DEF Feed
<1>6. /\ \A u \in Threads : u # e => call'[u] = call[u]
      /\ call'[e].pc = "feed" /\ call'[e].q = q /\ call'[e].list = Tail(f)
  BY <1>1, <1>4, <1>5, FlushIs
<1>7. FlushesQueue(e, q) /\ InFlush(q) = f
  BY <1>1, <1>2, FlusherIs DEF FlushesQueue, FlushersKnown, FlusherOf
<1>8. InFlush(q)' = Tail(f)
  <2>1. FlushersKnown'
    BY FlusherIs, PTL
  <2>2. FlushesQueue(e, q)'
    BY <1>1, <1>6 DEF FlushesQueue
  <2>3. FlusherOf(q)'
    BY <2>1 DEF FlushersKnown
  <2> QED  BY <1>6, <2>2, <2>3 DEF FlusherOf
<1>9. ASSUME NEW p \in Queues, p # q PROVE InFlush(p)' = InFlush(p) /\ Listed(p)' = Listed(p)
  <2>1. TakenBy(e, p)' = TakenBy(e, p)
    BY <1>6, <1>9 DEF TakenBy, FlushesQueue
  <2>2. InFlush(p)' = InFlush(p)
    BY <1>1, <1>6, <2>1, InFlushKept
  <2> QED  BY <1>1, <2>2, ListedSame
<1> DEFINE a == Reverse(pending[q]["R0"])  b == Reverse(pending[q]["RC"])
           d == Reverse(pending[q]["R3"])
<1>10. /\ Listed(q) = f \o a \o b \o d
       /\ a \in Seq(Items) /\ b \in Seq(Items) /\ d \in Seq(Items)
  BY <1>1, <1>7, ListedBlocks
<1>11. Listed(q)' = Tail(f) \o a \o b \o d
  BY <1>1, <1>8 DEF Listed
<1> HIDE DEF a, b, d
<1>12. Popped(Listed(q), Listed(q)', x)
  <2>1. Popped(f \o a \o b \o d, Tail(f) \o a \o b \o d, Head(f))
    BY <1>3, <1>10, FirstPopped
  <2> QED  BY <1>3, <1>10, <1>11, <2>1
<1>13. x \in ToSet(Listed(q))
  BY <1>12 DEF Popped
<1> QED  BY <1>1, <1>3, <1>4, <1>6, <1>9, <1>12, <1>13

\* Before and after an item is put back in the ring.
LEMMA FeedRing ==
    ASSUME MailInv, NEW e \in EMTs, Feed(e), NEW q \in Queues, call[e].q = q,
           NEW x \in Items, x = Head(call[e].list), x \notin FreeItems[q]
    PROVE  /\ RingOnce(q)' /\ FreeItems'[q] = FreeItems[q] \cup {x}
           /\ \A p \in Queues : p # q => FreeItems'[p] = FreeItems[p] /\ RingOnce(p)'
<1>1. FlushInv /\ TypeOK /\ RingOnce(q)
  BY MailIs
<1>2. PICK h : h = iFreeHead[q]
  OBVIOUS
<1>3. h \in Slots /\ iFreeTail[q] \in Slots /\ After(h) # iFreeTail[q] /\ slot[q] \in [Slots -> Items \cup {None}]
  BY <1>1, <1>2, RingIs, RoomLeft
<1>4. /\ slot' = [slot EXCEPT ![q][h] = x] /\ iFreeHead' = [iFreeHead EXCEPT ![q] = After(h)]
      /\ iFreeTail' = iFreeTail
  BY <1>2 DEF Feed, Free
<1>5. slot \in [Queues -> [Slots -> Items \cup {None}]] /\ iFreeHead \in [Queues -> Slots]
  BY <1>1 DEF TypeOK
<1>6. /\ slot'[q][h] = x /\ iFreeHead'[q] = After(h) /\ iFreeTail'[q] = iFreeTail[q]
      /\ \A j \in Slots : j # h => slot'[q][j] = slot[q][j]
      /\ \A p \in Queues : p # q => slot'[p] = slot[p] /\ iFreeHead'[p] = iFreeHead[p] /\ iFreeTail'[p] = iFreeTail[p]
  BY <1>3, <1>4, <1>5
<1>7. /\ FreeSlots(q) = Between(iFreeTail[q], h)
      /\ FreeSlots(q)' = Between(iFreeTail[q], After(h))
  BY <1>2, <1>6 DEF FreeSlots, Between
<1>8. h \notin FreeSlots(q) /\ FreeSlots(q)' = FreeSlots(q) \cup {h} /\ FreeSlots(q) \subseteq Slots
  BY <1>3, <1>7, SlotFilled DEF Between
<1>9. \A j \in FreeSlots(q) : slot'[q][j] = slot[q][j] /\ slot[q][j] # x /\ slot[q][j] \in Items
  <2>1. FreeItems[q] = {slot[q][j] : j \in FreeSlots(q)}
    BY DEF FreeItems
  <2> QED  BY <1>1, <1>6, <1>8, <2>1 DEF RingOnce
<1>10. RingOnce(q)'
  <2>1. \A j \in FreeSlots(q)' : slot'[q][j] \in Items
    BY <1>6, <1>8, <1>9
  <2>2. \A i, j \in FreeSlots(q)' : slot'[q][i] = slot'[q][j] => i = j
    BY <1>1, <1>6, <1>8, <1>9 DEF RingOnce
  <2> QED  BY <2>1, <2>2 DEF RingOnce
<1>11. FreeItems'[q] = FreeItems[q] \cup {x}
  <2>1. FreeItems[q] = {slot[q][j] : j \in FreeSlots(q)} /\ FreeItems'[q] = {slot'[q][j] : j \in FreeSlots(q)'}
    BY DEF FreeItems
  <2>2. FreeItems'[q] = {slot'[q][j] : j \in FreeSlots(q)} \cup {slot'[q][h]}
    BY <1>8, <2>1
  <2> QED  BY <1>6, <1>9, <2>1, <2>2
<1>12. \A p \in Queues : p # q => FreeItems'[p] = FreeItems[p] /\ RingOnce(p)'
  BY <1>6, FreeSame, MailIs
<1> QED  BY <1>10, <1>11, <1>12

LEMMA FeedMail ==
    ASSUME MailInv, FlushInv', NEW e \in EMTs, Feed(e)
    PROVE  /\ MailInv' /\ call[e].q \in Queues /\ Head(call[e].list) \in Items
           /\ \E l \in Lines : Box!Deliver(call[e].q, l, Head(call[e].list))
<1>1. e \in Threads /\ FlushInv /\ TypeOK /\ call[e].q \in Queues
  <2>1. e \in Threads /\ FlushInv /\ TypeOK /\ call[e].pc \in FlushPcs
    BY MailIs, Constants DEF Feed, At, FlushPcs
  <2> QED  BY <2>1, FlushQueue
<1>q. PICK q \in Queues : call[e].q = q
  BY <1>1
<1>2. PICK x : call[e].q = q /\ x = Head(call[e].list)
  BY <1>q
<1>3. /\ x \in Items /\ x \in ToSet(Listed(q))
      /\ \A u \in Threads : u # e => call'[u] = call[u]
      /\ call'[e].pc = "feed"
      /\ pending' = pending /\ from' = from
      /\ \A p \in Queues : p # q => Listed(p)' = Listed(p) /\ InFlush(p)' = InFlush(p)
      /\ Popped(Listed(q), Listed(q)', x)
  BY <1>2, FeedLists
<1>4. ListedOnce(q) /\ ListedFrom(q)
  BY MailIs
<1>5. x \notin FreeItems[q]
  BY <1>3, <1>4 DEF ListedOnce
<1>6. /\ RingOnce(q)' /\ FreeItems'[q] = FreeItems[q] \cup {x}
      /\ \A p \in Queues : p # q => FreeItems'[p] = FreeItems[p] /\ RingOnce(p)'
  BY <1>2, <1>3, <1>5, FeedRing
<1> DEFINE L == ToSet(Listed(q))  l == from[q][x]
<1>7. /\ Listed(q)' \in Seq(Items) /\ L = {x} \cup ToSet(Listed(q))'
      /\ \A i, j : Precedes(i, j, Listed(q)) <=>
             (Precedes(i, j, Listed(q))' \/ (i = x /\ j \in ToSet(Listed(q))'))
  BY <1>3 DEF Popped
<1>8. x \notin ToSet(Listed(q))'
  BY <1>3, <1>4, <1>7 DEF ListedOnce
<1>9. ToSet(Listed(q))' = L \ {x}
  BY <1>7, <1>8
<1>10. l \in Lines
  BY <1>3, <1>4 DEF ListedFrom
<1>11. QueueInv(q)'
  <2>1. \A i \in Items : ~Precedes(i, i, Listed(q))'
    BY <1>4, <1>7 DEF ListedOnce
  <2>2. \A i \in ToSet(Listed(q))' : i \notin FreeItems'[q]
    BY <1>4, <1>6, <1>9 DEF ListedOnce
  <2>3. \A i \in ToSet(Listed(q))' : from'[q][i] \in Lines /\ (q \notin RZQueues => from'[q][i] = "R3")
    BY <1>3, <1>4, <1>9 DEF ListedFrom
  <2>4. q \in Ordered => \A c \in Contexts : \A i \in ToSet(pending'[q][c]) : from'[q][i] = c
    BY <1>3, ListsOf
  <2>5. ListedOnce(q)'
    BY <2>1, <2>2 DEF ListedOnce
  <2>6. ListedFrom(q)'
    BY <2>3, <2>4 DEF ListedFrom
  <2> QED  BY <1>6, <2>5, <2>6 DEF QueueInv
<1>12. ASSUME NEW p \in Queues, p # q
       PROVE  QueueInv(p)' /\ Waiting'[p] = Waiting[p] /\ Order'[p] = Order[p]
  <2>1. FreeItems'[p] \subseteq FreeItems[p] /\ RingOnce(p)'
    BY <1>6, <1>12
  <2>2. InFlush(p)' = InFlush(p) /\ from'[p] = from[p] /\ pending'[p] = pending[p]
    BY <1>3, <1>12
  <2> QED  BY <2>1, <2>2, QueueSame
<1>13. MailInv'
  <2>1. ThreadInv(e)' /\ ~At(e, "push")'
    BY <1>3 DEF ThreadInv, Own, Inserts, FlushList, TakenFrom, At, FlushPcs
  <2>2. \A p \in Queues : QueueInv(p)'
    BY <1>11, <1>12
  <2>3. ASSUME NEW p \in Queues, NEW i, i \in FreeItems'[p] \/ i \in ToSet(Listed(p))'
        PROVE  i \in FreeItems[p] \/ i \in ToSet(Listed(p))
    <3>1. CASE p = q
      BY <1>3, <1>6, <1>9, <2>3, <3>1
    <3>2. CASE p # q
      <4>1. FreeItems'[p] = FreeItems[p] /\ ToSet(Listed(p))' = ToSet(Listed(p))
        BY <1>3, <1>6, <3>2
      <4> QED  BY <2>3, <4>1
    <3> QED  BY <3>1, <3>2
  <2>4. \A p \in Queues : \A i \in ToSet(Listed(p)) : from'[p][i] = from[p][i]
    BY <1>3
  <2> QED  BY <1>1, <1>3, <2>1, <2>2, <2>3, <2>4, MailKept
<1>14. \A c \in Lines : Waiting[q][c] = {i \in L : from[q][i] = c}
  BY DEF Waiting
<1>15. \A c \in Lines : Waiting'[q][c] = {i \in L \ {x} : from[q][i] = c}
  <2>1. \A c \in Lines : Waiting'[q][c] = {i \in ToSet(Listed(q))' : from'[q][i] = c}
    BY DEF Waiting
  <2>2. from' = from /\ ToSet(Listed(q))' = L \ {x}
    BY <1>3, <1>9
  <2> HIDE DEF L
  <2> QED  BY <2>1, <2>2
<1>16. x \in L
  BY <1>3
<1>17. /\ \A i, j : <<i, j>> \in Order[q] <=>
              q \in Ordered /\ Precedes(i, j, Listed(q)) /\ from[q][i] = from[q][j]
       /\ \A i, j : <<i, j>> \in Order'[q] <=>
              q \in Ordered /\ Precedes(i, j, Listed(q))' /\ from[q][i] = from[q][j]
       /\ Order[q] \subseteq Items \X Items /\ Order'[q] \subseteq Items \X Items
  <2>1. OrdersKnown'
    BY <1>1, OrdersAre, PTL
  <2>2. OrderOf(q)'
    BY <2>1 DEF OrdersKnown
  <2> QED  BY <1>1, <1>3, <2>2, OrderIs, OrderNext
<1>18. \A i, j : Precedes(i, j, Listed(q))' => i \in L \ {x} /\ j \in L \ {x}
  <2>1. \A i, j : Precedes(i, j, Listed(q))' => i \in ToSet(Listed(q))' /\ j \in ToSet(Listed(q))'
    BY <1>7, PrecedesIn
  <2> QED  BY <1>9, <2>1
<1> HIDE DEF L
<1>19. x \in Waiting[q][l] /\ \A j \in Waiting[q][l] : <<j, x>> \notin Order[q]
  <2>1. x \in Waiting[q][l]
    BY <1>10, <1>14, <1>16
  <2>2. \A j : ~Precedes(j, x, Listed(q))
    BY <1>7, <1>8, <1>18
  <2> QED  BY <1>17, <2>1, <2>2
<1>20. Waiting'[q][l] = Waiting[q][l] \ {x} /\ \A c \in Lines : c # l => Waiting'[q][c] = Waiting[q][c]
  <2>1. from[q][x] = l
    OBVIOUS
  <2> HIDE DEF l
  <2>2. /\ Waiting'[q][l] = {i \in L \ {x} : from[q][i] = l}
        /\ Waiting[q][l] = {i \in L : from[q][i] = l}
    BY <1>10, <1>14, <1>15
  <2>3. \A i : i \in Waiting'[q][l] <=> i \in Waiting[q][l] \ {x}
    BY <2>2
  <2>4. ASSUME NEW c \in Lines, c # l PROVE Waiting'[q][c] = Waiting[q][c]
    <3>1. /\ Waiting'[q][c] = {i \in L \ {x} : from[q][i] = c}
          /\ Waiting[q][c] = {i \in L : from[q][i] = c}
      BY <1>14, <1>15
    <3>2. \A i : i \in Waiting'[q][c] <=> i \in Waiting[q][c]
      BY <2>1, <2>4, <3>1
    <3> QED  BY <3>1, <3>2
  <2>5. Waiting'[q][l] = Waiting[q][l] \ {x}
    BY <2>3
  <2> QED  BY <2>4, <2>5
<1>21. Order'[q] = Order[q] \ ({x} \X Waiting[q][l])
  <2>1. ASSUME NEW i \in Items, NEW j \in Items, <<i, j>> \in Order'[q]
        PROVE  <<i, j>> \in Order[q] /\ ~(i = x /\ j \in Waiting[q][l])
    <3>1. q \in Ordered /\ Precedes(i, j, Listed(q))' /\ from[q][i] = from[q][j]
      BY <1>17, <2>1
    <3> QED  BY <1>7, <1>17, <1>18, <3>1
  <2>2. ASSUME NEW i \in Items, NEW j \in Items, <<i, j>> \in Order[q], ~(i = x /\ j \in Waiting[q][l])
        PROVE  <<i, j>> \in Order'[q]
    <3>1. q \in Ordered /\ Precedes(i, j, Listed(q)) /\ from[q][i] = from[q][j]
      BY <1>17, <2>2
    <3>2. ASSUME i = x, j \in ToSet(Listed(q))' PROVE FALSE
      <4>1. j \in L /\ from[q][j] = l
        BY <1>9, <3>1, <3>2
      <4>2. j \in Waiting[q][l]
        BY <1>10, <1>14, <4>1
      <4> QED  BY <2>2, <3>2, <4>2
    <3>3. Precedes(i, j, Listed(q))'
      BY <1>7, <3>1, <3>2
    <3> QED  BY <1>17, <3>1, <3>3
  <2>3. \A i, j : <<i, j>> \in {x} \X Waiting[q][l] <=> i = x /\ j \in Waiting[q][l]
    OBVIOUS
  <2>4. \A i \in Items, j \in Items : <<i, j>> \in Order'[q] <=> <<i, j>> \in Order[q] \ ({x} \X Waiting[q][l])
    BY <2>1, <2>2, <2>3
  <2> QED  BY <1>17, <2>4
<1>22. Box!Deliver(q, l, x)
  <2>1. FreeItems' = [FreeItems EXCEPT ![q] = @ \cup {x}]
    <3>1. FreeItems = [p \in Queues |-> FreeItems[p]] /\ FreeItems' = [p \in Queues |-> FreeItems'[p]]
      BY DEF FreeItems
    <3> QED  BY <1>6, <3>1
  <2>2. Waiting' = [Waiting EXCEPT ![q][l] = @ \ {x}]
    <3>1. /\ Waiting = [p \in Queues |-> [c \in Lines |-> Waiting[p][c]]]
          /\ Waiting' = [p \in Queues |-> [c \in Lines |-> Waiting'[p][c]]]
      BY DEF Waiting
    <3>2. \A p \in Queues : p # q => Waiting'[p] = Waiting[p]
      BY <1>12
    <3> HIDE DEF l
    <3> QED  BY <1>10, <1>20, <3>1, <3>2
  <2>3. Order' = [Order EXCEPT ![q] = @ \ ({x} \X Waiting[q][l])]
    <3>1. Order = [p \in Queues |-> Order[p]] /\ Order' = [p \in Queues |-> Order'[p]]
      BY DEF Order
    <3>2. \A p \in Queues : p # q => Order'[p] = Order[p]
      BY <1>12
    <3> HIDE DEF l
    <3> QED  BY <1>21, <3>1, <3>2
  <2> QED  BY <1>19, <2>1, <2>2, <2>3 DEF Box!Deliver
<1>23. \E k \in Lines : Box!Deliver(q, k, x)
  BY <1>10, <1>22
<1> QED  BY <1>2, <1>3, <1>13, <1>23

-----------------------------------------------------------------------------
(* The queues implement the mailboxes.                                     *)

LEMMA MailInit == Init => MailInv /\ Box!Init
<1> SUFFICES ASSUME Init PROVE MailInv /\ Box!Init
  OBVIOUS
<1>1. FlushInv /\ FlushersKnown
  BY FlushInvInit, FlusherIs
<1>2. /\ slot = [q \in Queues |-> [i \in Slots |-> IF i < cItems THEN i + 1 ELSE None]]
      /\ iFreeHead = [q \in Queues |-> cItems] /\ iFreeTail = [q \in Queues |-> 0]
      /\ pending = [q \in Queues |-> [c \in Contexts |-> <<>>]]
      /\ call = [t \in Threads |-> Idle]
  BY DEF Init
<1>3. \A t \in Threads : call[t].pc = "idle" /\ call[t].list = <<>>
  BY <1>2 DEF Idle
<1>4. \A t \in Threads : ThreadInv(t)
  <2>1. ToSet(<<>>) = {}
    BY EmptyIs
  <2> QED  BY <1>3, <2>1 DEF ThreadInv, Own, Inserts, FlushList, TakenFrom, At, FlushPcs
<1>5. OwnItems
  BY <1>3 DEF OwnItems, At
<1>6. ASSUME NEW q \in Queues PROVE RingOnce(q) /\ FreeItems[q] = Items
  <2>1. /\ cItems \in Nat /\ 0 <= cItems /\ Slots \subseteq Nat /\ Items = 1 .. cItems
        /\ \A i \in Items : i - 1 \in Slots /\ i - 1 < cItems /\ i - 1 + 1 = i
    <3>1. cItems \in Nat /\ Slack \in Nat /\ Slack > 0
      BY Constants
    <3>2. Slots = 0 .. (cItems + Slack) - 1
      BY AfterLast
    <3> QED  BY <3>1, <3>2 DEF Items
  <2>2. FreeSlots(q) = {i \in Slots : i < cItems}
    <3>1. iFreeTail[q] = 0 /\ iFreeHead[q] = cItems
      BY <1>2
    <3>2. FreeSlots(q) = Between(0, cItems)
      BY <3>1, FreeSlotsAre
    <3>3. ASSUME NEW i \in Slots PROVE i \in Between(0, cItems) <=> i < cItems
      BY <2>1 DEF Between
    <3>4. Between(0, cItems) \subseteq Slots
      BY DEF Between
    <3> QED  BY <3>2, <3>3, <3>4
  <2>3. \A i \in FreeSlots(q) : slot[q][i] = i + 1 /\ i + 1 \in Items
    <3>1. ASSUME NEW i \in FreeSlots(q) PROVE slot[q][i] = i + 1 /\ i + 1 \in Items
      <4>1. i \in Slots /\ i < cItems /\ i \in Nat
        BY <2>1, <2>2
      <4>2. slot[q][i] = IF i < cItems THEN i + 1 ELSE None
        BY <1>2, <4>1
      <4> QED  BY <2>1, <4>1, <4>2
    <3> QED  BY <3>1
  <2>4. RingOnce(q)
    <3>1. FreeSlots(q) \subseteq Nat
      BY <2>1, <2>2
    <3> QED  BY <2>3, <3>1 DEF RingOnce
  <2>5. FreeItems[q] = {slot[q][i] : i \in FreeSlots(q)}
    BY DEF FreeItems
  <2>6. \A x \in Items : x - 1 \in FreeSlots(q) /\ slot[q][x - 1] = x
    BY <1>2, <2>1, <2>2
  <2> QED  BY <2>3, <2>4, <2>5, <2>6
<1>7. ASSUME NEW q \in Queues PROVE Listed(q) = <<>>
  <2>1. \A e \in EMTs : ~FlushesQueue(e, q)
    BY <1>3, Constants DEF FlushesQueue, FlushPcs
  <2>2. InFlush(q) = <<>>
    BY <1>1, <2>1 DEF FlushersKnown, FlusherOf
  <2>3. pending[q]["R0"] = <<>> /\ pending[q]["RC"] = <<>> /\ pending[q]["R3"] = <<>>
    BY <1>2 DEF Contexts
  <2>4. Listed(q) = <<>> \o <<>> \o <<>> \o <<>>
    BY <2>2, <2>3, ReverseEmpty DEF Listed
  <2> QED  BY <2>4
<1>8. ASSUME NEW q \in Queues PROVE QueueInv(q)
  <2>1. ToSet(Listed(q)) = {} /\ \A i, j : ~Precedes(i, j, Listed(q))
    BY <1>7, EmptyIs, PrecedesEmpty
  <2>2. \A c \in Contexts : ToSet(pending[q][c]) = {}
    BY <1>2, EmptyIs
  <2> QED  BY <1>6, <2>1, <2>2 DEF QueueInv, ListedOnce, ListedFrom
<1>9. MailInv
  BY <1>1, <1>4, <1>5, <1>8 DEF MailInv, MailParts
<1>10. FreeItems = [q \in Queues |-> Items]
  <2>1. FreeItems = [q \in Queues |-> FreeItems[q]]
    BY DEF FreeItems
  <2> QED  BY <1>6, <2>1
<1>11. Waiting = [q \in Queues |-> [c \in Lines |-> {}]]
  <2>1. \A q \in Queues : ToSet(Listed(q)) = {}
    BY <1>7, EmptyIs
  <2> QED  BY <2>1 DEF Waiting
<1>12. Order = [q \in Queues |-> {}]
  <2>1. Order = [q \in Queues |-> Order[q]]
    BY DEF Order
  <2>2. ASSUME NEW q \in Queues PROVE Order[q] = {}
    <3>1. \A i, j : ~Precedes(i, j, Listed(q))
      BY <1>7, PrecedesEmpty
    <3>2. Order[q] \subseteq Items \X Items /\ \A i, j : <<i, j>> \notin Order[q]
      BY <1>1, <3>1, OrderIs
    <3> QED  BY <3>2
  <2> QED  BY <2>1, <2>2
<1> QED  BY <1>9, <1>10, <1>11, <1>12 DEF Box!Init

LEMMA StutterMail == ASSUME MailInv, FlushInv', UNCHANGED vars PROVE MailInv' /\ UNCHANGED Box!vars
<1>1. /\ slot' = slot /\ iFreeHead' = iFreeHead /\ iFreeTail' = iFreeTail /\ pending' = pending
      /\ call' = call /\ from' = from
  BY DEF vars
<1>2. \A q \in Queues : FreeItems'[q] = FreeItems[q] /\ RingOnce(q)'
  BY <1>1, FreeSame, MailIs
<1>3. ASSUME NEW q \in Queues PROVE InFlush(q)' = InFlush(q)
  BY <1>1 DEF InFlush, FlushesQueue
<1>4. ASSUME NEW q \in Queues
      PROVE  QueueInv(q)' /\ Waiting'[q] = Waiting[q] /\ Order'[q] = Order[q] /\ Listed(q)' = Listed(q)
  BY <1>1, <1>2, <1>3, QueueSame
<1>5. UNCHANGED Box!vars
  BY <1>2, <1>4, BoxSame
<1>6. ASSUME NEW t \in Threads PROVE ThreadInv(t)'
  <2>1. Own(t) /\ Inserts(t) /\ FlushList(t)
    BY MailIs
  <2>2. Own(t)'
    <3>1. ASSUME call[t].pc = "push"
          PROVE  call[t].q \in Queues
      BY <3>1, MailIs, CallIs DEF FlushInv, Control, HasItem, Calls
    <3> QED  BY <1>1, <1>2, <1>4, <2>1, <3>1 DEF Own, At
  <2>3. Inserts(t)' /\ FlushList(t)'
    BY <1>1, <2>1 DEF Inserts, FlushList, TakenFrom, At
  <2> QED  BY <2>2, <2>3 DEF ThreadInv
<1>7. OwnItems'
  BY <1>1, MailIs DEF OwnItems, At
<1> QED  BY <1>4, <1>5, <1>6, <1>7 DEF MailInv, MailParts

LEMMA InsertingMail ==
    ASSUME MailInv, FlushInv', NEW t \in Inserters, Inserting(t), AllocTake(t) => StillThere(t)
    PROVE  MailInv' /\ [Box!Next]_(Box!vars)
<1>1. t \in Threads
  BY Constants
<1>2. CASE \E q \in Queues, c \in Contexts : PDMQueueAlloc(t, q, c)
  BY <1>1, <1>2, AllocMail
<1>3. CASE AllocTake(t)
  <2>1. MailInv' /\ Box!Alloc(call[t].q, call[t].item)
    BY <1>1, <1>3, AllocTakeMail
  <2>2. call[t].q \in Queues /\ call[t].item \in Items
    BY <1>1, <1>3, MailIs, CallIs DEF AllocTake, At, FlushInv, Control, HasItem, Calls
  <2> QED  BY <2>1, <2>2 DEF Box!Next
<1>4. CASE AllocAgain(t)
  BY <1>1, <1>4, AllocAgainMail
<1>5. CASE Push(t)
  <2>1. MailInv' /\ Box!Insert(call[t].q, call[t].c, call[t].item)
    BY <1>1, <1>5, PushMail
  <2>2. /\ call[t].q \in Queues /\ call[t].item \in Items /\ call[t].c \in Lines
    <3>1. /\ call[t].pc = "push" /\ call[t].q \in Queues /\ call[t].item \in Items /\ Inserts(t)
      BY <1>1, <1>5, MailIs, PushedIs DEF Push, At
    <3> QED  BY <3>1 DEF Inserts, Lines
  <2> QED  BY <2>1, <2>2 DEF Box!Next
<1>6. CASE SetFF(t) \/ SetBit(t)
  BY <1>1, <1>6, FlagsMail
<1> QED  BY <1>2, <1>3, <1>4, <1>5, <1>6 DEF Inserting

LEMMA FlushingMail ==
    ASSUME MailInv, FlushInv', NEW e \in EMTs, Flushing(e)
    PROVE  MailInv' /\ [Box!Next]_(Box!vars)
<1>1. e \in Threads
  BY Constants
<1>2. CASE \/ PDMR3QueueFlushAll(e) \/ ClearFF(e) \/ Activate(e)
           \/ Deactivate(e) \/ TestBit(e) \/ TestFF(e)
  BY <1>1, <1>2, FlagsMail
<1>3. CASE ClearBit(e)
  BY <1>1, <1>3, ClearBitMail
<1>4. CASE Walk(e) \/ \E q \in Queues : pdmR3QueueTimer(e, q)
  BY <1>4, WalkMail, QueueTimerMail
<1>5. CASE TakeR3(e) \/ TakeRC(e) \/ TakeR0(e)
  BY <1>5, TakeR3Mail, TakeRCMail, TakeR0Mail
<1>6. CASE Feed(e)
  BY <1>6, FeedMail DEF Box!Next
<1>7. CASE Enough(e) \/ FeedDone(e) \/ PutBack(e) \/ PutBackJoin(e)
  BY <1>7, EnoughMail, FeedDoneMail, PutBackMail, PutBackJoinMail
<1> QED  BY <1>2, <1>3, <1>4, <1>5, <1>6, <1>7 DEF Flushing

LEMMA MailStep ==
    MailInv /\ [Next]_vars /\ [\A t \in Inserters : AllocTake(t) => StillThere(t)]_vars
        => MailInv' /\ [Box!Next]_(Box!vars)
<1> SUFFICES ASSUME MailInv, [Next]_vars,
                    [\A t \in Inserters : AllocTake(t) => StillThere(t)]_vars
             PROVE  MailInv' /\ [Box!Next]_(Box!vars)
  OBVIOUS
<1>1. FlushInv'
  BY FlushInvStep, MailIs
<1>2. CASE UNCHANGED vars
  BY <1>1, <1>2, StutterMail
<1>3. ASSUME Next, \A t \in Inserters : AllocTake(t) => StillThere(t)
      PROVE  MailInv' /\ [Box!Next]_(Box!vars)
  BY <1>1, <1>3, InsertingMail, FlushingMail DEF Next
<1> QED  BY <1>2, <1>3

\* While no index comes round the ring under a thread that allocates, every item is
\* in the ring once, on one list once, or with the one thread that inserts it.
THEOREM MailInvCorrect == Spec /\ NeverStale => []MailInv
<1>1. Init => MailInv
  BY MailInit
<1>2. MailInv /\ [Next]_vars /\ [\A t \in Inserters : AllocTake(t) => StillThere(t)]_vars => MailInv'
  BY MailStep
<1> QED  BY <1>1, <1>2, PTL DEF Spec, NeverStale

\* What PDMQueueAlloc returns is nobody else's until PDMQueueInsert has it, if no
\* index comes round; the index is all that can break it.
THEOREM AllocatedIsMineCorrect == Spec /\ NeverStale => []AllocatedIsMine
<1>1. MailInv => AllocatedIsMine
  <2> SUFFICES ASSUME MailInv, NEW t \in Threads, At(t, "push")
               PROVE  /\ call[t].item \notin FreeItems[call[t].q] \cup ToSet(Listed(call[t].q))
                      /\ \A u \in Threads \ {t} :
                             At(u, "push") => <<call[u].q, call[u].item>> # <<call[t].q, call[t].item>>
    BY DEF AllocatedIsMine
  <2>1. Own(t) /\ OwnItems
    BY MailIs
  <2>2. call[t].item \notin FreeItems[call[t].q] \cup ToSet(Listed(call[t].q))
    BY <2>1 DEF Own
  <2>3. ASSUME NEW u \in Threads \ {t}, At(u, "push"), <<call[u].q, call[u].item>> = <<call[t].q, call[t].item>>
        PROVE  FALSE
    <3>1. call[u].q = call[t].q /\ call[u].item = call[t].item
      BY <2>3
    <3> QED  BY <2>1, <2>3, <3>1 DEF OwnItems
  <2> QED  BY <2>2, <2>3
<1> QED  BY <1>1, MailInvCorrect, PTL

\* PDMQueueAlloc, PDMQueueInsert and pdmR3QueueFlush make each queue a mailbox: an
\* item inserted is consumed once, the items of a context in the order of their
\* inserts, and one that is in use is given to nobody, if no index ever comes
\* round the ring while a thread of PDMQueueAlloc stands between reading the item
\* at iFreeTail and moving it.
THEOREM MailboxImplemented == Spec /\ NeverStale => ImplementsMailbox
<1>1. Init => MailInv /\ Box!Init
  BY MailInit
<1>2. MailInv /\ [Next]_vars /\ [\A t \in Inserters : AllocTake(t) => StillThere(t)]_vars
          => MailInv' /\ [Box!Next]_(Box!vars)
  BY MailStep
<1> QED  BY <1>1, <1>2, PTL DEF Spec, NeverStale, ImplementsMailbox, Box!Spec

-----------------------------------------------------------------------------
(* Allocations that are made one at a time.                                *)

\* No two threads allocate from one queue at once, as where a device has one item
\* at a time on its way (DevLsiLogicSCSI.cpp:987).
AllocsAlone == \A t, u \in Threads :
    At(t, "alloc") /\ At(u, "alloc") /\ call[t].q = call[u].q => t = u

\* Nothing has changed for a thread since it read the index and the item.
StillReading(t) == At(t, "alloc") => StillThere(t) /\ Taken(t)

ReadingInv == MailInv /\ \A t \in Threads : StillReading(t)

LEMMA ReadingIs ==
    ASSUME NEW t \in Threads
    PROVE  /\ StillReading(t) <=> (call[t].pc = "alloc" =>
                  /\ iFreeTail[call[t].q] # iFreeHead[call[t].q]
                  /\ slot[call[t].q][call[t].i] = call[t].item
                  /\ iFreeTail[call[t].q] = call[t].i)
           /\ StillReading(t)' <=> (call'[t].pc = "alloc" =>
                  /\ iFreeTail'[call'[t].q] # iFreeHead'[call'[t].q]
                  /\ slot'[call'[t].q][call'[t].i] = call'[t].item
                  /\ iFreeTail'[call'[t].q] = call'[t].i)
BY DEF StillReading, StillThere, Exhausted, Taken, At

\* A thread's call is replaced by one that does not allocate.
LEMMA ReadingKept ==
    ASSUME ReadingInv, NEW t \in Threads, NEW r, call' = [call EXCEPT ![t] = r],
           r.pc # "alloc", UNCHANGED ring
    PROVE  \A u \in Threads : StillReading(u)'
<1>1. call \in [Threads -> Calls]
  BY MailIs, CallIs DEF ReadingInv
<1>2. call'[t] = r /\ \A u \in Threads : u # t => call'[u] = call[u]
  BY <1>1
<1>3. iFreeTail' = iFreeTail /\ iFreeHead' = iFreeHead /\ slot' = slot
  BY DEF ring
<1>4. ASSUME NEW u \in Threads PROVE StillReading(u)'
  <2>1. StillReading(u)
    BY DEF ReadingInv
  <2> QED  BY <1>2, <1>3, <2>1, ReadingIs
<1> QED  BY <1>4

LEMMA GotoReading ==
    ASSUME ReadingInv, NEW t \in Threads, NEW label, Goto(t, label), label # "alloc", UNCHANGED ring
    PROVE  \A u \in Threads : StillReading(u)'
<1> DEFINE r == [call[t] EXCEPT !.pc = label]
<1>1. call \in [Threads -> Calls]
  BY MailIs, CallIs DEF ReadingInv
<1>2. r.pc = label
  BY <1>1 DEF Calls
<1>3. call' = [call EXCEPT ![t] = r]
  BY <1>1 DEF Goto
<1> HIDE DEF r
<1> QED  BY <1>2, <1>3, ReadingKept

LEMMA ReturnReading ==
    ASSUME ReadingInv, NEW t \in Threads, Return(t), UNCHANGED ring
    PROVE  \A u \in Threads : StillReading(u)'
<1>1. Idle.pc # "alloc"
  BY DEF Idle
<1> QED  BY <1>1, ReadingKept DEF Return

LEMMA FlushReading ==
    ASSUME ReadingInv, NEW t \in Threads, NEW label, NEW l, Flush(t, label, l), label # "alloc", UNCHANGED ring
    PROVE  \A u \in Threads : StillReading(u)'
<1> DEFINE r == [call[t] EXCEPT !.pc = label, !.list = l]
<1>1. call \in [Threads -> Calls]
  BY MailIs, CallIs DEF ReadingInv
<1>2. r.pc = label
  BY <1>1 DEF Calls
<1>3. call' = [call EXCEPT ![t] = r]
  BY <1>1 DEF Flush
<1> HIDE DEF r
<1> QED  BY <1>2, <1>3, ReadingKept

LEMMA FlushedReading ==
    ASSUME ReadingInv, NEW t \in Threads, Flushed(t), UNCHANGED ring
    PROVE  \A u \in Threads : StillReading(u)'
<1> DEFINE r == IF call[t].q \in Forced THEN [Idle EXCEPT !.pc = "walk", !.q = call[t].q + 1] ELSE Idle
<1>1. r.pc # "alloc"
  BY DEF Idle
<1>2. call' = [call EXCEPT ![t] = r]
  BY DEF Flushed
<1> HIDE DEF r
<1> QED  BY <1>1, <1>2, ReadingKept

LEMMA PushReading ==
    ASSUME ReadingInv, NEW t \in Threads, Push(t)
    PROVE  \A u \in Threads : StillReading(u)'
<1> DEFINE r == IF call[t].q \in Forced THEN [Idle EXCEPT !.pc = "ff"] ELSE Idle
<1>1. r.pc # "alloc"
  BY DEF Idle
<1>2. call' = [call EXCEPT ![t] = r] /\ UNCHANGED ring
  BY DEF Push, AfterPush
<1> HIDE DEF r
<1> QED  BY <1>1, <1>2, ReadingKept

\* Somebody reads the index and the item.
LEMMA ReadReading ==
    ASSUME ReadingInv, NEW t \in Threads, NEW q \in Queues, NEW c \in Contexts,
           ~Exhausted(q), Read(t, q, c), UNCHANGED ring
    PROVE  \A u \in Threads : StillReading(u)'
<1> DEFINE i == iFreeTail[q]
           r == [call[t] EXCEPT !.pc = "alloc", !.q = q, !.c = c, !.i = i, !.item = slot[q][i]]
<1>1. call \in [Threads -> Calls]
  BY MailIs, CallIs DEF ReadingInv
<1>2. r.q = q /\ r.i = iFreeTail[q] /\ r.item = slot[q][iFreeTail[q]]
  BY <1>1 DEF Calls
<1>3. call' = [call EXCEPT ![t] = r]
  BY DEF Read
<1> HIDE DEF r, i
<1>4. call'[t] = r /\ \A u \in Threads : u # t => call'[u] = call[u]
  BY <1>1, <1>3
<1>5. iFreeTail' = iFreeTail /\ iFreeHead' = iFreeHead /\ slot' = slot /\ iFreeTail[q] # iFreeHead[q]
  BY DEF ring, Exhausted
<1>6. ASSUME NEW u \in Threads, u # t PROVE StillReading(u)'
  <2>1. StillReading(u)
    BY DEF ReadingInv
  <2> QED  BY <1>4, <1>5, <1>6, <2>1, ReadingIs
<1>7. StillReading(t)'
  BY <1>2, <1>4, <1>5, ReadingIs
<1> QED  BY <1>6, <1>7

\* Nobody else stands at the queue whose index is moved.
LEMMA AllocTakeReading ==
    ASSUME ReadingInv, AllocsAlone, NEW t \in Threads, AllocTake(t)
    PROVE  \A u \in Threads : StillReading(u)'
<1> DEFINE r == [call[t] EXCEPT !.pc = "push", !.i = 0]
<1>1. /\ call \in [Threads -> Calls] /\ iFreeTail \in [Queues -> Slots]
      /\ call[t].pc = "alloc"
  BY MailIs, CallIs DEF ReadingInv, TypeOK, AllocTake, At
<1>2. r.pc = "push"
  BY <1>1 DEF Calls
<1>3. call' = [call EXCEPT ![t] = r]
  BY DEF AllocTake
<1> HIDE DEF r
<1>4. call'[t] = r /\ \A u \in Threads : u # t => call'[u] = call[u]
  BY <1>1, <1>3
<1>5. /\ iFreeTail' = [iFreeTail EXCEPT ![call[t].q] = After(call[t].i)]
      /\ slot' = slot /\ iFreeHead' = iFreeHead
  BY DEF AllocTake
<1>6. \A q : q # call[t].q => iFreeTail'[q] = iFreeTail[q]
  BY <1>1, <1>5
<1>7. ASSUME NEW u \in Threads, u # t PROVE StillReading(u)'
  <2>1. StillReading(u)
    BY DEF ReadingInv
  <2>2. call[u].pc = "alloc" => call[u].q # call[t].q
    BY <1>1, <1>7 DEF AllocsAlone, At
  <2> QED  BY <1>4, <1>5, <1>6, <1>7, <2>1, <2>2, ReadingIs
<1>8. StillReading(t)'
  BY <1>2, <1>4, ReadingIs
<1> QED  BY <1>7, <1>8

\* An item is put back elsewhere in the ring, which is not full then.
LEMMA FeedReading ==
    ASSUME ReadingInv, FlushInv', NEW e \in EMTs, Feed(e)
    PROVE  \A u \in Threads : StillReading(u)'
<1>1. e \in Threads /\ FlushInv /\ TypeOK /\ call[e].q \in Queues /\ MailInv
  <2>1. MailInv /\ e \in Threads /\ FlushInv /\ TypeOK /\ call[e].pc \in FlushPcs
    BY MailIs, Constants DEF ReadingInv, Feed, At, FlushPcs
  <2> QED  BY <2>1, FlushQueue
<1>q. PICK q \in Queues : call[e].q = q
  BY <1>1
<1>2. PICK x : call[e].q = q /\ x = Head(call[e].list)
  BY <1>q
<1>3. /\ x \in Items /\ x \in ToSet(Listed(q)) /\ call'[e].pc = "feed"
      /\ \A u \in Threads : u # e => call'[u] = call[u]
  BY <1>1, <1>2, FeedLists
<1>4. PICK h : h = iFreeHead[q]
  OBVIOUS
<1>5. h \in Slots /\ After(h) # iFreeTail[q]
  <2>1. x \notin FreeItems[q] /\ RingOnce(q)
    BY <1>1, <1>3, MailIs DEF ListedOnce
  <2> QED  BY <1>1, <1>3, <1>4, <2>1, RingIs, RoomLeft
<1>6. /\ slot' = [slot EXCEPT ![q][h] = x] /\ iFreeHead' = [iFreeHead EXCEPT ![q] = After(h)]
      /\ iFreeTail' = iFreeTail
  BY <1>2, <1>4 DEF Feed, Free
<1>7. slot \in [Queues -> [Slots -> Items \cup {None}]] /\ iFreeHead \in [Queues -> Slots]
  BY <1>1 DEF TypeOK
<1>8. /\ \A i \in Slots : i # h => slot'[q][i] = slot[q][i]
      /\ \A p : p # q => slot'[p] = slot[p] /\ iFreeHead'[p] = iFreeHead[p]
      /\ iFreeHead'[q] = After(h)
  BY <1>5, <1>6, <1>7
<1>9. ASSUME NEW u \in Threads, u # e PROVE StillReading(u)'
  <2>1. StillReading(u) /\ call'[u] = call[u]
    BY <1>3, <1>9 DEF ReadingInv
  <2>2. CASE call[u].q # q
    BY <1>6, <1>8, <2>1, <2>2, ReadingIs
  <2>3. CASE call[u].q = q /\ call[u].pc = "alloc"
    <3>1. /\ iFreeTail[q] # h /\ slot[q][call[u].i] = call[u].item /\ iFreeTail[q] = call[u].i
      BY <1>4, <2>1, <2>3, ReadingIs
    <3>2. call[u].i \in Slots
      BY <1>1, CallIs DEF Calls
    <3>3. slot'[q][call[u].i] = call[u].item /\ iFreeTail'[q] # iFreeHead'[q] /\ iFreeTail'[q] = call[u].i
      BY <1>5, <1>6, <1>8, <3>1, <3>2
    <3> QED  BY <2>1, <2>3, <3>3, ReadingIs
  <2>4. CASE call[u].pc # "alloc"
    BY <2>1, <2>4, ReadingIs
  <2> QED  BY <2>2, <2>3, <2>4
<1>10. StillReading(e)'
  BY <1>1, <1>3, ReadingIs
<1> QED  BY <1>9, <1>10

LEMMA InsertingReading ==
    ASSUME ReadingInv, AllocsAlone, NEW t \in Inserters, Inserting(t)
    PROVE  \A u \in Threads : StillReading(u)'
<1>1. t \in Threads /\ FlushInv /\ TypeOK /\ call \in [Threads -> Calls]
  BY Constants, MailIs, CallIs DEF ReadingInv
<1>2. ASSUME NEW q \in Queues, NEW c \in Contexts, PDMQueueAlloc(t, q, c)
      PROVE  \A u \in Threads : StillReading(u)'
  BY <1>1, <1>2, ReadReading DEF PDMQueueAlloc
<1>3. CASE AllocTake(t)
  BY <1>1, <1>3, AllocTakeReading
<1>4. CASE AllocAgain(t)
  <2>1. call[t].q \in Queues /\ call[t].c \in Contexts
    BY <1>1, <1>4 DEF AllocAgain, At, FlushInv, Control, HasItem, Calls
  <2>2. CASE Exhausted(call[t].q)
    BY <1>1, <1>4, <2>2, ReturnReading DEF AllocAgain
  <2>3. CASE ~Exhausted(call[t].q)
    BY <1>1, <1>4, <2>1, <2>3, ReadReading DEF AllocAgain
  <2> QED  BY <2>2, <2>3
<1>5. CASE Push(t)
  BY <1>1, <1>5, PushReading
<1>6. CASE SetFF(t)
  BY <1>1, <1>6, GotoReading DEF SetFF
<1>7. CASE SetBit(t)
  BY <1>1, <1>7, ReturnReading DEF SetBit
<1> QED  BY <1>2, <1>3, <1>4, <1>5, <1>6, <1>7 DEF Inserting

\* The calls of a thread that only walk on.
LEMMA WalkReading ==
    ASSUME ReadingInv, NEW t \in Threads, NEW label, NEW n, label # "alloc", UNCHANGED ring,
           call' = [call EXCEPT ![t] = [@ EXCEPT !.pc = label, !.q = n]]
    PROVE  \A u \in Threads : StillReading(u)'
<1> DEFINE r == [call[t] EXCEPT !.pc = label, !.q = n]
<1>1. call \in [Threads -> Calls]
  BY MailIs, CallIs DEF ReadingInv
<1>2. r.pc = label
  BY <1>1 DEF Calls
<1>3. call' = [call EXCEPT ![t] = r]
  OBVIOUS
<1> HIDE DEF r
<1> QED  BY <1>2, <1>3, ReadingKept

LEMMA FlushingReading ==
    ASSUME ReadingInv, FlushInv', NEW e \in EMTs, Flushing(e)
    PROVE  \A u \in Threads : StillReading(u)'
<1>1. e \in Threads
  BY Constants
<1>2. CASE PDMR3QueueFlushAll(e)
  BY <1>1, <1>2, GotoReading DEF PDMR3QueueFlushAll
<1>3. CASE ClearFF(e)
  BY <1>1, <1>3, GotoReading DEF ClearFF
<1>4. CASE Activate(e)
  BY <1>1, <1>4, GotoReading, ReturnReading DEF Activate
<1>5. CASE ClearBit(e)
  BY <1>1, <1>5, WalkReading DEF ClearBit
<1>6. CASE Walk(e)
  <2>1. UNCHANGED ring
    BY <1>6 DEF Walk
  <2>2. Goto(e, "inactive") \/ Goto(e, "take") \/ NextQueue(e)
    BY <1>6 DEF Walk
  <2> QED  BY <1>1, <2>1, <2>2, GotoReading, WalkReading DEF NextQueue
<1>7. CASE Deactivate(e)
  BY <1>1, <1>7, GotoReading DEF Deactivate
<1>8. CASE TestBit(e)
  <2>1. Goto(e, "clearff") \/ Goto(e, "testff")
    BY <1>8 DEF TestBit
  <2>2. UNCHANGED ring
    BY <1>8 DEF TestBit
  <2> QED  BY <1>1, <2>1, <2>2, GotoReading
<1>9. CASE TestFF(e)
  BY <1>1, <1>9, GotoReading, ReturnReading DEF TestFF
<1>10. ASSUME NEW q \in Queues, pdmR3QueueTimer(e, q) PROVE \A u \in Threads : StillReading(u)'
  BY <1>1, <1>10, WalkReading DEF pdmR3QueueTimer
<1>11. CASE TakeR3(e)
  BY <1>1, <1>11, FlushReading DEF TakeR3, Took
<1>12. CASE TakeRC(e)
  BY <1>1, <1>12, FlushReading DEF TakeRC, Took
<1>13. CASE TakeR0(e)
  BY <1>1, <1>13, FlushReading DEF TakeR0, Took
<1>14. CASE Feed(e)
  BY <1>14, FeedReading
<1>15. CASE Enough(e)
  BY <1>1, <1>15, GotoReading DEF Enough
<1>16. CASE FeedDone(e)
  BY <1>1, <1>16, FlushedReading DEF FeedDone
<1>17. CASE PutBack(e)
  BY <1>1, <1>17, FlushedReading DEF PutBack
<1>18. CASE PutBackJoin(e)
  BY <1>1, <1>18, FlushReading DEF PutBackJoin
<1> QED  BY <1>2, <1>3, <1>4, <1>5, <1>6, <1>7, <1>8, <1>9, <1>10, <1>11, <1>12, <1>13, <1>14,
            <1>15, <1>16, <1>17, <1>18 DEF Flushing

LEMMA NothingStale == ReadingInv => \A t \in Inserters : AllocTake(t) => StillThere(t)
BY Constants DEF ReadingInv, StillReading, AllocTake

LEMMA ReadingStep == ReadingInv /\ AllocsAlone /\ [Next]_vars => ReadingInv'
<1> SUFFICES ASSUME ReadingInv, AllocsAlone, [Next]_vars PROVE ReadingInv'
  OBVIOUS
<1>1. MailInv /\ FlushInv /\ [\A t \in Inserters : AllocTake(t) => StillThere(t)]_vars
  BY NothingStale, MailIs DEF ReadingInv
<1>2. MailInv' /\ FlushInv'
  BY <1>1, MailStep, FlushInvStep
<1>3. CASE UNCHANGED vars
  <2>1. \A u \in Threads : StillReading(u)'
    BY <1>3, ReadingIs DEF ReadingInv, vars
  <2> QED  BY <1>2, <2>1 DEF ReadingInv
<1>4. CASE Next
  <2>1. \A u \in Threads : StillReading(u)'
    BY <1>2, <1>4, InsertingReading, FlushingReading DEF Next
  <2> QED  BY <1>2, <2>1 DEF ReadingInv
<1> QED  BY <1>3, <1>4

\* While each queue's allocations are made one at a time the index and the item that
\* PDMQueueAlloc reads are those it takes.
THEOREM ReadingInvCorrect == Spec /\ []AllocsAlone => []ReadingInv /\ NeverStale
<1>1. Init => ReadingInv
  <2>1. Init => \A t \in Threads : ~At(t, "alloc")
    BY DEF Init, Idle, At
  <2> QED  BY <2>1, MailInit DEF ReadingInv, StillReading
<1>2. ReadingInv /\ AllocsAlone /\ [Next]_vars => ReadingInv'
  BY ReadingStep
<1>3. ReadingInv => [\A t \in Inserters : AllocTake(t) => StillThere(t)]_vars
  BY NothingStale
<1> QED  BY <1>1, <1>2, <1>3, PTL DEF Spec, NeverStale

\* A queue whose allocations are made one at a time is a mailbox, however many items,
\* inserts, queues and threads there are and however often the index comes round.
THEOREM MailboxAlone == Spec /\ []AllocsAlone => ImplementsMailbox /\ []AllocatedIsMine
<1> QED  BY ReadingInvCorrect, MailboxImplemented, AllocatedIsMineCorrect, PTL
=============================================================================
