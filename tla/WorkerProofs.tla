---------------------------- MODULE WorkerProofs ----------------------------
(***************************************************************************)
(* Proofs about the queue of worker writes: for any number of slices, keys, *)
(* calls, drains, generations and faults, an answer tells what became of   *)
(* its write, and only the holder of a claim writes under it.              *)
(***************************************************************************)
EXTENDS MCWorkerQueue, TLAPS, FiniteSetTheorems

-----------------------------------------------------------------------------
(* The inductive invariant *)

Locking == {"apply", "sync", "persist", "commit", "remove"}
Step == [pc : {"idle", "gate", "refuse", "enqueue", "link"} \cup Locking,
         key : Keys \cup {NoKey}, gen : Gens, owed : BOOLEAN]

QueueShape ==
    /\ slice \in [Slices -> Slice] /\ receipt \in [Keys -> Receipt \cup {NoReceipt}]
    /\ stamped \subseteq Slices /\ lapsed \subseteq Slices
    /\ reserved \in {"none", "live", "dead"} /\ faults \in 0..MaxFaults
    /\ act \in [Procs -> Step]
    /\ issued \in [Slices -> SUBSET Gens] /\ token \in [Keys -> 0..MaxGen]
    /\ accepted \subseteq Keys /\ torn \subseteq Keys /\ denied \subseteq Keys
    /\ times \in [Keys -> Nat]

\* Every write to the note, its receipts and the queue's head is of the process
\* that holds the plan's lock.
LockIsHeld == /\ holder \in Procs \cup {"none"}
              /\ \A p \in Procs : act[p].pc \in Locking <=> holder = p

\* A key has one ticket, of a generation that its token had been issued by.
TicketsHold ==
    /\ queue \in Seq(Ticket) /\ Len(queue) <= QueueMax
    /\ \A i, j \in DOMAIN queue : queue[i].key = queue[j].key => i = j
    /\ \A i \in DOMAIN queue : LET t == queue[i] IN
          token[t.key] # 0 /\ token[t.key] <= t.gen /\ t.gen <= slice[Of[t.key]].gen

\* A claim is of an open slice, and evidence of a write that reached the note.
SliceHolds(s) ==
    /\ \A g \in issued[s] : g <= slice[s].gen
    /\ Terminal(s) => ~slice[s].claimed
    /\ slice[s].evidence # NoKey => times[slice[s].evidence] > 0

\* What a step in progress relies on: under the lock it keeps the claim it has
\* checked, and the ticket is removed when the receipt is there.
StepHolds(p) == LET k == act[p].key IN
    /\ act[p].pc # "idle" => k \in Keys /\ token[k] # 0
    /\ act[p].pc = "link" => token[k] <= act[p].gen /\ act[p].gen <= slice[Of[k]].gen
    /\ act[p].pc = "persist" => HasClaim(k) /\ (times[k] = 0 \/ k \in torn)
    /\ act[p].pc = "commit" => times[k] > 0
    /\ act[p].pc = "remove" => receipt[k].status = "committed"

\* The token's claim may still live.
Open(k) == ~Terminal(Of[k]) /\ token[k] = slice[Of[k]].gen
Committing(k) == \E p \in Procs : act[p].pc = "commit" /\ act[p].key = k
LeavesTrace(k) == Act[k] \in {"progress", "block", "complete"}

\* A key before and after it is sent; while its token can live, a write that
\* reached the note has its receipt or a process that is about to commit it.
KeyHolds(k) ==
    /\ token[k] <= slice[Of[k]].gen
    /\ token[k] = 0 => times[k] = 0 /\ receipt[k] = NoReceipt /\ k \notin accepted
    /\ receipt[k].status = "pending" /\ LeavesTrace(k) => receipt[k].slice.evidence = k
    /\ receipt[k].status = "committed" /\ LeavesTrace(k) => times[k] > 0
    /\ k \in accepted /\ Open(k) => IsQueued(k) \/ receipt[k].status = "committed"
    /\ k \notin torn => times[k] <= 1
    /\ k \notin torn /\ times[k] > 0 /\ Open(k) =>
          receipt[k].status = "committed" \/ Committing(k)

WorkerInv ==
    /\ QueueShape /\ LockIsHeld /\ TicketsHold
    /\ \A s \in Slices : SliceHolds(s)
    /\ \A p \in Procs : StepHolds(p)
    /\ \A k \in Keys : KeyHolds(k)

-----------------------------------------------------------------------------
(* The queue *)

\* A set of positions that is not empty has a first one.
LEMMA LeastNat ==
    ASSUME NEW S \in SUBSET Nat, S # {}
    PROVE  \E x \in S : \A y \in S : x <= y
<1> DEFINE R == StrictSubsetOrdering(Nat)
           T == {0..x : x \in S}
<1>1. IsWellFoundedOn(R, FiniteSubsetsOf(Nat))
  BY FS_StrictSubsetOrderingWellFounded
<1>2. T \subseteq FiniteSubsetsOf(Nat) /\ T # {}
  <2>1. ASSUME NEW x \in S PROVE 0..x \in FiniteSubsetsOf(Nat)
    <3>1. IsFiniteSet(0..x)
      BY FS_Interval
    <3> QED BY <3>1 DEF FiniteSubsetsOf
  <2> QED BY <2>1
<1>3. PICK t \in T : \A u \in T : <<u, t>> \notin R
  <2> HIDE DEF R, T
  <2> QED BY <1>1, <1>2, WFMin
<1>4. PICK x \in S : t = 0..x
  OBVIOUS
<1>5. ASSUME NEW y \in S PROVE x <= y
  <2>1. <<0..y, 0..x>> \notin R
    BY <1>3, <1>4
  <2>2. 0..y \in SUBSET Nat /\ 0..x \in SUBSET Nat
    OBVIOUS
  <2>3. 0..y \subseteq 0..x => 0..y = 0..x
    BY <2>1, <2>2 DEF StrictSubsetOrdering
  <2>4. CASE ~(x <= y)
    <3>1. 0..y \subseteq 0..x /\ x \in 0..x /\ x \notin 0..y
      BY <2>4
    <3> QED BY <2>3, <3>1
  <2> QED BY <2>4
<1> QED BY <1>5

\* removeQueuedWorkerWrite: the ticket of the key goes, the others keep their
\* order and their keys.
LEMMA WithoutDrops ==
    ASSUME TicketsHold, NEW k \in Keys
    PROVE  /\ Without(k) \in Seq(Ticket) /\ Len(Without(k)) <= Len(queue)
           /\ \A i \in DOMAIN Without(k) : \E j \in DOMAIN queue : Without(k)[i] = queue[j]
           /\ \A i, j \in DOMAIN Without(k) : Without(k)[i].key = Without(k)[j].key => i = j
           /\ \A j \in DOMAIN queue : queue[j].key # k =>
                 \E i \in DOMAIN Without(k) : Without(k)[i] = queue[j]
<1> USE DEF TicketsHold
<1> DEFINE at == CHOOSE i \in DOMAIN queue : queue[i].key = k
           rest == [i \in 1..Len(queue) - 1 |-> queue[IF i < at THEN i ELSE i + 1]]
<1>1. CASE ~IsQueued(k)
  BY <1>1 DEF Without
<1>2. CASE IsQueued(k)
  <2>1. Without(k) = rest
    BY <1>2 DEF Without
  <2>2. at \in DOMAIN queue /\ queue[at].key = k
    BY <1>2 DEF IsQueued
  <2>3. Len(queue) \in Nat /\ DOMAIN queue = 1..Len(queue) /\ at \in 1..Len(queue)
    BY <2>2
  <2> HIDE DEF at
  <2>4. /\ rest \in Seq(Ticket) /\ Len(rest) = Len(queue) - 1
        /\ DOMAIN rest = 1..Len(queue) - 1
    <3>1. \A i \in 1..Len(queue) - 1 : queue[IF i < at THEN i ELSE i + 1] \in Ticket
      BY <2>3
    <3>2. Len(queue) - 1 \in Nat
      BY <2>3
    <3> QED BY <3>1, <3>2
  <2>5. \A i \in DOMAIN rest : \E j \in DOMAIN queue : rest[i] = queue[j]
    BY <2>3, <2>4
  <2>6. \A i, j \in DOMAIN rest : rest[i].key = rest[j].key => i = j
    <3> SUFFICES ASSUME NEW i \in DOMAIN rest, NEW j \in DOMAIN rest,
                        rest[i].key = rest[j].key
                 PROVE  i = j
      OBVIOUS
    <3> DEFINE up(x) == IF x < at THEN x ELSE x + 1
    <3>1. up(i) \in DOMAIN queue /\ up(j) \in DOMAIN queue /\ i \in Nat /\ j \in Nat
      BY <2>3, <2>4
    <3>2. queue[up(i)].key = queue[up(j)].key
      BY <2>4
    <3>3. up(i) = up(j)
      BY <3>1, <3>2
    <3> QED BY <2>3, <3>1, <3>3
  <2>7. \A j \in DOMAIN queue : queue[j].key # k => \E i \in DOMAIN rest : rest[i] = queue[j]
    <3> SUFFICES ASSUME NEW j \in DOMAIN queue, queue[j].key # k
                 PROVE  \E i \in DOMAIN rest : rest[i] = queue[j]
      OBVIOUS
    <3>1. j # at /\ j \in 1..Len(queue)
      BY <2>2, <2>3
    <3>2. CASE j < at
      BY <2>3, <2>4, <3>1, <3>2
    <3>3. CASE j > at
      <4>1. j - 1 \in DOMAIN rest /\ ~(j - 1 < at) /\ (j - 1) + 1 = j
        BY <2>3, <2>4, <3>1, <3>3
      <4> QED BY <4>1
    <3> QED BY <2>3, <3>1, <3>2, <3>3
  <2> HIDE DEF rest
  <2> QED BY <2>1, <2>3, <2>4, <2>5, <2>6, <2>7
<1> QED BY <1>1, <1>2

\* pickNextQueuedWorkerWrite: what is picked is on the queue.
LEMMA NextTicketIsQueued ==
    ASSUME TicketsHold, queue # <<>>
    PROVE  \E i \in DOMAIN queue : NextTicket = queue[i]
<1> DEFINE free == {i \in DOMAIN queue : ~Held(queue[i])}
<1>1. DOMAIN queue = 1..Len(queue) /\ 1 \in DOMAIN queue
  BY DEF TicketsHold
<1>2. CASE free = {}
  BY <1>1, <1>2 DEF NextTicket
<1>3. CASE free # {}
  <2>1. free \in SUBSET Nat
    BY <1>1
  <2>2. \E i \in free : \A j \in free : i <= j
    BY <1>3, <2>1, LeastNat
  <2> QED BY <1>3, <2>2 DEF NextTicket
<1> QED BY <1>2, <1>3

-----------------------------------------------------------------------------
(* What stands still *)

LEMMA SlicesStand ==
    ASSUME WorkerInv, UNCHANGED <<slice, issued, times>>
    PROVE  \A s \in Slices : SliceHolds(s)'
BY DEF WorkerInv, SliceHolds, Terminal

LEMMA TicketsStand ==
    ASSUME WorkerInv, UNCHANGED <<slice, queue, token>>
    PROVE  TicketsHold'
BY DEF WorkerInv, TicketsHold

\* One process goes on: its step has to hold, those of the others do.
LEMMA OneProcessMoves ==
    ASSUME WorkerInv, UNCHANGED <<slice, receipt, token, times, torn>>,
           NEW p \in Procs, NEW a \in Step, act' = [act EXCEPT ![p] = a], StepHolds(p)'
    PROVE  \A q \in Procs : StepHolds(q)'
<1>1. ASSUME NEW q \in Procs, q # p PROVE StepHolds(q)'
  <2>1. act'[q] = act[q]
    BY <1>1 DEF WorkerInv, QueueShape
  <2>2. StepHolds(q)
    BY DEF WorkerInv
  <2> QED BY <2>1, <2>2 DEF StepHolds, HasClaim
<1> QED BY <1>1

\* Keys do not notice a process that is not about to commit.
LEMMA KeysStand ==
    ASSUME WorkerInv, UNCHANGED <<slice, receipt, queue, token, accepted, times, torn>>,
           NEW p \in Procs, act[p].pc # "commit",
           NEW a \in Step, act' = [act EXCEPT ![p] = a]
    PROVE  \A k \in Keys : KeyHolds(k)'
<1> SUFFICES ASSUME NEW k \in Keys PROVE KeyHolds(k)'
  OBVIOUS
<1>1. Committing(k) => Committing(k)'
  BY DEF Committing, WorkerInv, QueueShape
<1>2. (Open(k)' <=> Open(k)) /\ (IsQueued(k)' <=> IsQueued(k))
  BY DEF Open, Terminal, IsQueued
<1>3. KeyHolds(k)
  BY DEF WorkerInv
<1> QED BY <1>1, <1>2, <1>3 DEF KeyHolds

LEMMA LockStands ==
    ASSUME WorkerInv, UNCHANGED holder, NEW p \in Procs, NEW a \in Step,
           act' = [act EXCEPT ![p] = a], a.pc \in Locking <=> act[p].pc \in Locking
    PROVE  LockIsHeld'
BY DEF WorkerInv, LockIsHeld, QueueShape

LEMMA LockIsTaken ==
    ASSUME WorkerInv, holder = "none", NEW p \in Procs, NEW a \in Step, holder' = p,
           act' = [act EXCEPT ![p] = a], a.pc \in Locking
    PROVE  LockIsHeld'
BY WorkerQueueAssumption DEF WorkerInv, LockIsHeld, QueueShape, Procs

LEMMA LockIsLeft ==
    ASSUME WorkerInv, NEW p \in Procs, holder = p, NEW a \in Step, holder' = "none",
           act' = [act EXCEPT ![p] = a], a.pc \notin Locking
    PROVE  LockIsHeld'
BY WorkerQueueAssumption DEF WorkerInv, LockIsHeld, QueueShape, Procs

\* A step that touches neither the note, nor a receipt, nor the queue.
LEMMA QuietStep ==
    ASSUME WorkerInv, UNCHANGED <<slice, receipt, queue, issued, token, accepted, times, torn>>,
           NEW p \in Procs, act[p].pc # "commit",
           NEW a \in Step, act' = [act EXCEPT ![p] = a],
           QueueShape', LockIsHeld', StepHolds(p)'
    PROVE  WorkerInv'
<1>1. \A s \in Slices : SliceHolds(s)'
  BY SlicesStand
<1>2. \A q \in Procs : StepHolds(q)'
  BY OneProcessMoves
<1>3. \A k \in Keys : KeyHolds(k)'
  BY KeysStand
<1> QED BY <1>1, <1>2, <1>3, TicketsStand DEF WorkerInv

-----------------------------------------------------------------------------
(* Steps that leave the note, the receipts and the queue as they are *)

\* A step in progress is a process of its own and of a key that was sent.
LEMMA ProcessRow ==
    ASSUME WorkerInv, NEW p \in Procs
    PROVE  /\ act[p] \in Step /\ StepHolds(p)
           /\ act[p].pc \in Locking <=> holder = p
           /\ Idle \in Step
BY WorkerQueueAssumption DEF WorkerInv, QueueShape, LockIsHeld, Idle, Step, Gens

\* Gate: what it did to the lock is what it did to the process.
LEMMA GateKeeps == ASSUME WorkerInv, NEW p \in Callers, Gate(p) PROVE WorkerInv'
<1>1. p \in Procs /\ act[p] \in Step /\ StepHolds(p) /\ act[p].pc = "gate"
  BY ProcessRow DEF Gate, Procs
<1>2. UNCHANGED <<slice, receipt, queue, issued, token, accepted, times, torn>>
  BY DEF Gate, durable, history
<1>3. CASE ReservationIsLive \/ holder # "none"
  <2> DEFINE a == [act[p] EXCEPT !.pc = "refuse"]
  <2>1. a \in Step /\ act' = [act EXCEPT ![p] = a] /\ holder' = holder
    BY <1>1, <1>3 DEF Gate, Step
  <2>2. a.pc = "refuse" /\ a.key = act[p].key /\ act'[p] = a
    BY <1>1, <2>1 DEF Step, WorkerInv, QueueShape
  <2> HIDE DEF a
  <2>3. QueueShape'
    BY <2>1 DEF Gate, WorkerInv, QueueShape, durable, history, NoFault
  <2>4. StepHolds(p)'
    BY <1>1, <1>2, <2>2 DEF StepHolds
  <2>5. LockIsHeld'
    BY <1>1, <2>1, <2>2, LockStands DEF Locking
  <2> QED BY <1>1, <1>2, <2>1, <2>3, <2>4, <2>5, QuietStep
<1>4. CASE ~ReservationIsLive /\ holder = "none"
  <2> DEFINE a == [act[p] EXCEPT !.pc = "apply"]
  <2>1. a \in Step /\ act' = [act EXCEPT ![p] = a] /\ holder' = p
    BY <1>1, <1>4 DEF Gate, Step, Locking
  <2>2. a.pc = "apply" /\ a.key = act[p].key /\ act'[p] = a
    BY <1>1, <2>1 DEF Step, WorkerInv, QueueShape
  <2> HIDE DEF a
  <2>3. QueueShape'
    BY <2>1 DEF Gate, WorkerInv, QueueShape, durable, history, NoFault
  <2>4. StepHolds(p)'
    BY <1>1, <1>2, <2>2 DEF StepHolds
  <2>5. LockIsHeld'
    BY <1>1, <1>4, <2>1, <2>2, LockIsTaken DEF Locking
  <2> QED BY <1>1, <1>2, <2>1, <2>3, <2>4, <2>5, QuietStep
<1> QED BY <1>3, <1>4

\* A process gives up, or goes back to a call that has no lock.
LEMMA GivesUp ==
    ASSUME WorkerInv, NEW p \in Procs, act[p].pc # "commit",
           UNCHANGED <<slice, receipt, queue, issued, token, accepted, times, torn>>,
           NEW a \in Step, act' = [act EXCEPT ![p] = a],
           \/ a.pc = "idle"
           \/ a.pc \in {"refuse", "enqueue"} /\ act[p].pc # "idle" /\ a.key = act[p].key,
           holder' = IF holder = p THEN "none" ELSE holder,
           QueueShape'
    PROVE  WorkerInv'
<1>1. act[p] \in Step /\ StepHolds(p) /\ act'[p] = a
  BY ProcessRow DEF WorkerInv, QueueShape
<1>2. StepHolds(p)'
  BY <1>1 DEF StepHolds
<1>3. a.pc \notin Locking
  BY DEF Locking
<1>4. LockIsHeld'
  <2>1. CASE holder = p
    BY <1>3, <2>1, LockIsLeft
  <2>2. CASE holder # p
    BY <1>3, <2>2, LockStands, ProcessRow
  <2> QED BY <2>1, <2>2
<1> QED BY <1>2, <1>4, QuietStep

LEMMA RefuseKeeps == ASSUME WorkerInv, NEW p \in Callers, Refuse(p) PROVE WorkerInv'
<1>1. /\ p \in Procs /\ act[p] \in Step /\ StepHolds(p) /\ act[p].pc = "refuse"
      /\ holder # p /\ Idle \in Step
  BY ProcessRow DEF Refuse, Procs, Locking
<1>2. UNCHANGED <<slice, receipt, queue, issued, token, accepted, times, torn>>
  BY DEF Refuse, durable, history
<1>3. PICK a \in {Idle, [act[p] EXCEPT !.pc = "enqueue"]} : act' = [act EXCEPT ![p] = a]
  BY DEF Refuse
<1>4. a \in Step /\ (a.pc = "idle" \/ (a.pc = "enqueue" /\ a.key = act[p].key))
  <2>1. CASE a = Idle
    BY <1>1, <2>1 DEF Idle
  <2>2. CASE a = [act[p] EXCEPT !.pc = "enqueue"]
    BY <1>1, <2>2 DEF Step
  <2> QED BY <1>3, <2>1, <2>2
<1>5. QueueShape'
  BY <1>3, <1>4 DEF Refuse, WorkerInv, QueueShape, durable, history, NoFault
<1>6. holder' = holder
  BY DEF Refuse
<1> QED BY <1>1, <1>2, <1>3, <1>4, <1>5, <1>6, GivesUp

\* Enqueue: the ticket will carry the generation the slice has now, which the
\* token's cannot be ahead of.
LEMMA EnqueueKeeps == ASSUME WorkerInv, NEW p \in Callers, Enqueue(p) PROVE WorkerInv'
<1> DEFINE k == act[p].key
<1>1. /\ p \in Procs /\ act[p] \in Step /\ StepHolds(p) /\ act[p].pc = "enqueue"
      /\ holder # p /\ Idle \in Step
  BY ProcessRow DEF Enqueue, Procs, Locking
<1>2. UNCHANGED <<slice, receipt, queue, issued, token, accepted, times, torn>>
  BY DEF Enqueue, durable, history
<1>3. holder' = holder
  BY DEF Enqueue
<1>4. k \in Keys /\ token[k] # 0 /\ token[k] <= slice[Of[k]].gen /\ slice[Of[k]].gen \in Gens
      /\ Of[k] \in Slices
  <2>1. k \in Keys /\ token[k] # 0
    BY <1>1 DEF StepHolds
  <2> QED BY <2>1, WorkerQueueAssumption DEF WorkerInv, QueueShape, KeyHolds, Slice
<1>5. stamped' \subseteq Slices
  BY <1>4 DEF Enqueue, Stamp, WorkerInv, QueueShape
<1>6. CASE Act[k] = "start" /\ ~Terminal(Of[k]) /\ ~slice[Of[k]].claimed
  <2>1. act' = [act EXCEPT ![p] = Idle] /\ Idle.pc = "idle"
    BY <1>6 DEF Enqueue, Idle
  <2>2. QueueShape'
    BY <1>1, <1>5, <2>1 DEF Enqueue, WorkerInv, QueueShape, history, NoFault
  <2> QED BY <1>1, <1>2, <1>3, <2>1, <2>2, GivesUp
<1>7. CASE ~(Act[k] = "start" /\ ~Terminal(Of[k]) /\ ~slice[Of[k]].claimed)
  <2> DEFINE a == [act[p] EXCEPT !.pc = "link", !.gen = slice[Of[k]].gen]
  <2>1. act' = [act EXCEPT ![p] = a]
    BY <1>1, <1>7 DEF Enqueue, WorkerInv, QueueShape
  <2>2. a \in Step /\ a.pc = "link" /\ a.key = k /\ a.gen = slice[Of[k]].gen /\ act'[p] = a
    BY <1>1, <1>4, <2>1 DEF Step, WorkerInv, QueueShape
  <2> HIDE DEF a
  <2>3. QueueShape'
    BY <1>1, <1>5, <2>1, <2>2 DEF Enqueue, WorkerInv, QueueShape, history, NoFault
  <2>4. StepHolds(p)'
    BY <1>2, <1>4, <2>2 DEF StepHolds, Gens
  <2>5. LockIsHeld'
    BY <1>1, <1>3, <2>1, <2>2, LockStands DEF Locking
  <2> QED BY <1>1, <1>2, <2>1, <2>2, <2>3, <2>4, <2>5, QuietStep
<1> QED BY <1>6, <1>7

\* Enter: answered or refused by a committed receipt, sent away by a
\* reservation, or on to the claims.
LEMMA EnterKeeps == ASSUME WorkerInv, NEW p \in Procs, Enter(p) PROVE WorkerInv'
<1> DEFINE k == act[p].key
<1>1. /\ act[p] \in Step /\ StepHolds(p) /\ act[p].pc = "apply" /\ holder = p /\ Idle \in Step
      /\ k \in Keys /\ token[k] # 0
  BY ProcessRow DEF Enter, Locking, StepHolds
<1>2. UNCHANGED <<slice, receipt, queue, issued, token, accepted, times, torn>>
  BY DEF Enter, durable
<1>3. denied' \subseteq Keys
  BY <1>1 DEF Enter, WorkerInv, QueueShape
<1>4. ASSUME NEW a \in Step, act' = [act EXCEPT ![p] = a] PROVE QueueShape'
  BY <1>3, <1>4 DEF Enter, WorkerInv, QueueShape, durable, NoFault
<1>5. ASSUME NEW a \in Step, act' = [act EXCEPT ![p] = a], holder' = "none",
             a.pc = "idle" \/ (a.pc = "refuse" /\ a.key = k)
      PROVE  WorkerInv'
  <2>1. QueueShape'
    BY <1>4, <1>5
  <2> QED BY <1>1, <1>2, <1>5, <2>1, GivesUp
<1>6. ASSUME NEW a \in Step, act' = [act EXCEPT ![p] = a], holder' = holder, a.key = k,
             a.pc = "sync" \/ (a.pc = "remove" /\ receipt[k].status = "committed")
      PROVE  WorkerInv'
  <2>1. QueueShape'
    BY <1>4, <1>6
  <2>2. act'[p] = a
    BY <1>6 DEF WorkerInv, QueueShape
  <2>3. StepHolds(p)'
    BY <1>1, <1>2, <1>6, <2>2 DEF StepHolds
  <2>4. LockIsHeld'
    BY <1>1, <1>6, LockStands DEF Locking
  <2> QED BY <1>1, <1>2, <1>6, <2>1, <2>3, <2>4, QuietStep
<1>7. CASE ReservationIsLive
  <2>1. holder' = "none"
    BY <1>7 DEF Enter
  <2>2. CASE p \in Callers
    <3>1. act' = [act EXCEPT ![p] = [act[p] EXCEPT !.pc = "refuse"]]
      BY <1>1, <1>7, <2>2 DEF Enter, WorkerInv, QueueShape
    <3>2. [act[p] EXCEPT !.pc = "refuse"] \in Step
      BY <1>1 DEF Step
    <3> QED BY <1>1, <1>5, <2>1, <3>1, <3>2 DEF Step
  <2>3. CASE p \notin Callers
    <3>1. act' = [act EXCEPT ![p] = Idle]
      BY <1>1, <1>7, <2>3 DEF Enter, WorkerInv, QueueShape
    <3> QED BY <1>1, <1>5, <2>1, <3>1 DEF Idle
  <2> QED BY <2>2, <2>3
<1>8. CASE ~ReservationIsLive /\ HasReceipt(k) /\ receipt[k].status = "committed"
  <2>1. CASE act' = [act EXCEPT ![p] = Idle] /\ holder' = "none"
    BY <1>1, <1>5, <2>1 DEF Idle
  <2>2. CASE act' = [act EXCEPT ![p].pc = "remove"] /\ UNCHANGED holder
    <3>1. act' = [act EXCEPT ![p] = [act[p] EXCEPT !.pc = "remove"]]
      BY <1>1, <2>2 DEF WorkerInv, QueueShape
    <3>2. [act[p] EXCEPT !.pc = "remove"] \in Step
      BY <1>1 DEF Step, Locking
    <3> QED BY <1>1, <1>6, <1>8, <2>2, <3>1, <3>2 DEF Step
  <2> QED BY <1>8, <2>1, <2>2 DEF Enter, Finish, Throw
<1>9. CASE ~ReservationIsLive /\ ~(HasReceipt(k) /\ receipt[k].status = "committed")
  <2>1. act' = [act EXCEPT ![p] = [act[p] EXCEPT !.pc = "sync"]] /\ holder' = holder
    BY <1>1, <1>9 DEF Enter, WorkerInv, QueueShape
  <2>2. [act[p] EXCEPT !.pc = "sync"] \in Step
    BY <1>1 DEF Step, Locking
  <2> QED BY <1>1, <1>6, <2>1, <2>2 DEF Step
<1> QED BY <1>7, <1>8, <1>9

\* DrainTake: the ticket picked is of a key that was sent.
LEMMA DrainTakeKeeps == ASSUME WorkerInv, NEW d \in Drains, DrainTake(d) PROVE WorkerInv'
<1>1. /\ d \in Procs /\ act[d].pc = "idle" /\ Idle \in Step /\ holder = "none" /\ holder' = d
      /\ queue # <<>>
  BY ProcessRow DEF DrainTake, Procs, MayDrain
<1>2. UNCHANGED <<slice, receipt, queue, issued, token, accepted, times, torn>>
  BY DEF DrainTake, durable, history
<1>3. PICK i \in DOMAIN queue : NextTicket = queue[i]
  BY <1>1, NextTicketIsQueued DEF WorkerInv
<1>4. NextTicket.key \in Keys /\ token[NextTicket.key] # 0
  <2>1. queue[i] \in Ticket /\ token[queue[i].key] # 0
    BY DEF WorkerInv, TicketsHold
  <2> QED BY <1>3, <2>1 DEF Ticket
<1> DEFINE a == [Idle EXCEPT !.pc = "apply", !.key = NextTicket.key]
<1>5. a \in Step /\ a.pc = "apply" /\ a.key = NextTicket.key
  BY <1>1, <1>4 DEF Idle, Step, Locking
<1>6. act' = [act EXCEPT ![d] = a] /\ act'[d] = a
  BY <1>1 DEF DrainTake, WorkerInv, QueueShape
<1> HIDE DEF a
<1>7. QueueShape'
  BY <1>5, <1>6 DEF DrainTake, WorkerInv, QueueShape, durable, history, NoFault
<1>8. StepHolds(d)'
  BY <1>2, <1>4, <1>5, <1>6 DEF StepHolds
<1>9. LockIsHeld'
  BY <1>1, <1>5, <1>6, LockIsTaken DEF Locking
<1> QED BY <1>1, <1>2, <1>5, <1>6, <1>7, <1>8, <1>9, QuietStep

\* PersistFails: the pending receipt stays, and the lock is given back.
LEMMA PersistFailsKeeps == ASSUME WorkerInv, NEW p \in Procs, PersistFails(p) PROVE WorkerInv'
<1>1. /\ act[p].pc = "persist" /\ holder = p /\ Idle \in Step
  BY ProcessRow DEF PersistFails, Locking
<1>2. UNCHANGED <<slice, receipt, queue, issued, token, accepted, times, torn>>
  BY DEF PersistFails, durable, history
<1>3. act' = [act EXCEPT ![p] = Idle] /\ holder' = "none"
  BY DEF PersistFails, Throw
<1>4. QueueShape'
  BY <1>1, <1>3, WorkerQueueAssumption
     DEF PersistFails, WorkerInv, QueueShape, durable, history, Fault
<1> QED BY <1>1, <1>2, <1>3, <1>4, GivesUp DEF Idle

\* Crash: a write that dies between the note and its receipt is torn.
LEMMA CrashKeeps == ASSUME WorkerInv, NEW p \in Procs, Crash(p) PROVE WorkerInv'
<1> DEFINE k == act[p].key
<1>1. /\ act[p] \in Step /\ StepHolds(p) /\ act[p].pc # "idle" /\ Idle \in Step /\ k \in Keys
      /\ act' = [act EXCEPT ![p] = Idle] /\ act'[p] = Idle
  BY ProcessRow DEF Crash, StepHolds, WorkerInv, QueueShape
<1>2. UNCHANGED <<slice, receipt, queue, issued, token, accepted, times>>
  BY DEF Crash, durable
<1>3. holder' = IF holder = p THEN "none" ELSE holder
  BY DEF Crash
<1>4. QueueShape'
  BY <1>1, WorkerQueueAssumption DEF Crash, WorkerInv, QueueShape, durable, Fault
<1>5. CASE act[p].pc # "commit"
  <2>1. torn' = torn
    BY <1>5 DEF Crash
  <2> QED BY <1>1, <1>2, <1>3, <1>4, <1>5, <2>1, GivesUp DEF Idle
<1>6. CASE act[p].pc = "commit"
  <2>1. torn' = torn \cup {k} /\ holder = p /\ holder' = "none"
    BY <1>1, <1>3, <1>6, ProcessRow DEF Crash, Locking
  <2>2. LockIsHeld'
    BY <1>1, <2>1, LockIsLeft DEF Idle, Locking
  <2>3. \A q \in Procs : StepHolds(q)'
    <3> SUFFICES ASSUME NEW q \in Procs PROVE StepHolds(q)'
      OBVIOUS
    <3>1. act'[q] = IF q = p THEN Idle ELSE act[q]
      BY <1>1 DEF WorkerInv, QueueShape
    <3>2. StepHolds(q)
      BY DEF WorkerInv
    <3> QED BY <1>2, <2>1, <3>1, <3>2 DEF StepHolds, HasClaim, Idle
  <2>4. \A j \in Keys : KeyHolds(j)'
    <3> SUFFICES ASSUME NEW j \in Keys PROVE KeyHolds(j)'
      OBVIOUS
    <3>1. j # k /\ Committing(j) => Committing(j)'
      BY <1>1 DEF Committing, WorkerInv, QueueShape
    <3>2. (Open(j)' <=> Open(j)) /\ (IsQueued(j)' <=> IsQueued(j))
      BY <1>2 DEF Open, Terminal, IsQueued
    <3>3. KeyHolds(j)
      BY DEF WorkerInv
    <3> QED BY <1>2, <2>1, <3>1, <3>2, <3>3 DEF KeyHolds
  <2> QED BY <1>2, <1>4, <2>2, <2>3, <2>4, SlicesStand, TicketsStand DEF WorkerInv
<1> QED BY <1>5, <1>6

\* The clock and the reservation are of no step in progress.
LEMMA WorldKeeps ==
    ASSUME WorkerInv,
           (\E s \in Slices : Lapse(s)) \/ Reserve \/ ReplanEnds \/ ReplanDies
    PROVE  WorkerInv'
<1>1. /\ UNCHANGED <<slice, receipt, queue, stamped, issued, token, accepted, times, torn>>
      /\ UNCHANGED <<act, holder, denied>>
  BY DEF Lapse, Reserve, ReplanEnds, ReplanDies, durable, history
<1>2. lapsed' \subseteq Slices /\ reserved' \in {"none", "live", "dead"}
  BY DEF Lapse, Reserve, ReplanEnds, ReplanDies, WorkerInv, QueueShape
<1>3. faults' \in 0..MaxFaults
  BY WorkerQueueAssumption
     DEF Lapse, Reserve, ReplanEnds, ReplanDies, WorkerInv, QueueShape, NoFault, Fault
<1>4. QueueShape' /\ LockIsHeld'
  BY <1>1, <1>2, <1>3 DEF WorkerInv, QueueShape, LockIsHeld
<1>5. \A p \in Procs : StepHolds(p)'
  BY <1>1 DEF WorkerInv, StepHolds, HasClaim
<1>6. \A k \in Keys : KeyHolds(k)'
  BY <1>1 DEF WorkerInv, KeyHolds, Open, Terminal, IsQueued, Committing
<1> QED BY <1>1, <1>4, <1>5, <1>6, SlicesStand, TicketsStand DEF WorkerInv

-----------------------------------------------------------------------------
(* The call, and the queue it may put its write on *)

\* Call: a fresh key takes the token of a claim that was issued, which is not
\* ahead of its slice; a key that was sent keeps its own.
LEMMA CallKeeps ==
    ASSUME WorkerInv, NEW p \in Callers, NEW k \in Keys, Call(p, k) PROVE WorkerInv'
<1>1. /\ p \in Procs /\ act[p] \in Step /\ StepHolds(p) /\ act[p].pc = "idle" /\ holder # p
      /\ holder' = holder /\ Of[k] \in Slices
  BY ProcessRow, WorkerQueueAssumption DEF Call, Procs, Locking
<1>2. UNCHANGED <<slice, receipt, queue, lapsed, reserved, issued, times, torn, denied, faults>>
  BY DEF Call, NoFault
<1>3. /\ token' \in [Keys -> 0..MaxGen] /\ token'[k] # 0 /\ token'[k] <= slice[Of[k]].gen
      /\ \A j \in Keys : j # k \/ token[j] # 0 => token'[j] = token[j]
  <2>1. KeyHolds(k) /\ SliceHolds(Of[k]) /\ token \in [Keys -> 0..MaxGen]
        /\ issued \in [Slices -> SUBSET Gens]
    BY <1>1 DEF WorkerInv, QueueShape
  <2>2. CASE token[k] # 0 /\ UNCHANGED token
    BY <2>1, <2>2 DEF KeyHolds
  <2>3. ASSUME token[k] = 0, NEW g \in issued[Of[k]], token' = [token EXCEPT ![k] = g]
        PROVE  <1>3!:
    <3>1. g \in Gens /\ g # 0 /\ g \in 0..MaxGen /\ g <= slice[Of[k]].gen
      BY <1>1, <2>1, <2>3, WorkerQueueAssumption DEF Gens, SliceHolds
    <3> QED BY <2>1, <2>3, <3>1
  <2> QED BY <2>2, <2>3 DEF Call
<1>4. stamped' \subseteq Slices
  BY <1>1 DEF Call, Stamp, WorkerInv, QueueShape
<1>5. TicketsHold'
  <2>1. \A i \in DOMAIN queue : token'[queue[i].key] = token[queue[i].key]
    <3> SUFFICES ASSUME NEW i \in DOMAIN queue PROVE token'[queue[i].key] = token[queue[i].key]
      OBVIOUS
    <3>1. queue[i] \in Ticket /\ token[queue[i].key] # 0
      BY DEF WorkerInv, TicketsHold
    <3>2. queue[i].key \in Keys
      BY <3>1 DEF Ticket
    <3> QED BY <1>3, <3>1, <3>2
  <2> QED BY <1>2, <2>1 DEF WorkerInv, TicketsHold
<1>6. ASSUME NEW q \in Procs, q # p \/ act' = act, act'[q] = act[q] PROVE StepHolds(q)'
  <2>1. StepHolds(q)
    BY DEF WorkerInv
  <2>2. act[q].pc # "idle" => token'[act[q].key] = token[act[q].key]
    BY <1>3, <2>1 DEF StepHolds
  <2> QED BY <1>2, <1>6, <2>1, <2>2 DEF StepHolds, HasClaim
<1>7. \A j \in Keys : Committing(j) => Committing(j)'
  <2>1. act' = act \/ \E a : act' = [act EXCEPT ![p] = a]
    BY DEF Call
  <2> QED BY <1>1, <2>1 DEF Committing, WorkerInv, QueueShape
<1>8. ASSUME NEW j \in Keys, j # k, j \in accepted' <=> j \in accepted PROVE KeyHolds(j)'
  <2>1. KeyHolds(j) /\ token'[j] = token[j] /\ (Open(j)' <=> Open(j))
    BY <1>2, <1>3, <1>8 DEF WorkerInv, Open, Terminal
  <2> QED BY <1>2, <1>7, <1>8, <2>1 DEF KeyHolds, IsQueued
<1>9. CASE IsQueued(k)
  <2>1. UNCHANGED act /\ accepted' = accepted \cup {k}
    BY <1>9 DEF Call
  <2>2. token'[k] = token[k]
    BY <1>3, <1>9 DEF WorkerInv, TicketsHold, IsQueued
  <2>3. KeyHolds(k)'
    <3>1. KeyHolds(k) /\ (Open(k)' <=> Open(k)) /\ IsQueued(k)'
      BY <1>2, <1>9, <2>2 DEF WorkerInv, Open, Terminal, IsQueued
    <3> QED BY <1>2, <1>3, <1>7, <2>2, <3>1 DEF KeyHolds
  <2>4. \A j \in Keys : KeyHolds(j)'
    BY <1>8, <2>1, <2>3
  <2>5. \A q \in Procs : StepHolds(q)'
    BY <1>6, <2>1
  <2>6. QueueShape'
    BY <1>2, <1>3, <1>4, <2>1 DEF WorkerInv, QueueShape
  <2>7. LockIsHeld'
    BY <1>1, <2>1 DEF WorkerInv, LockIsHeld
  <2> QED BY <1>2, <1>5, <2>4, <2>5, <2>6, <2>7, SlicesStand DEF WorkerInv
<1>10. CASE ~IsQueued(k)
  <2>1. accepted' = accepted /\ stamped' = stamped
    BY <1>10 DEF Call
  <2>2. PICK pc \in {"enqueue", "gate"}, o \in BOOLEAN :
           act' = [act EXCEPT ![p] = [pc |-> pc, key |-> k, gen |-> 1, owed |-> o]]
    BY <1>10 DEF Call
  <2> DEFINE a == [pc |-> pc, key |-> k, gen |-> 1, owed |-> o]
  <2>3. a \in Step /\ act'[p] = a /\ a.pc \notin Locking /\ a.pc = pc /\ a.key = k
    BY <2>2, WorkerQueueAssumption, <1>1 DEF Step, Gens, WorkerInv, QueueShape, Locking
  <2>4. QueueShape'
    BY <1>2, <1>3, <2>1, <2>2, <2>3 DEF WorkerInv, QueueShape
  <2>5. LockIsHeld'
    BY <1>1, <2>2, <2>3, LockStands DEF Locking
  <2>6. \A q \in Procs : StepHolds(q)'
    <3>1. StepHolds(p)'
      BY <1>3, <2>2, <2>3 DEF StepHolds
    <3>2. \A q \in Procs : q # p => act'[q] = act[q]
      BY <2>2 DEF WorkerInv, QueueShape
    <3> QED BY <1>6, <3>1, <3>2
  <2>7. KeyHolds(k)'
    <3>1. KeyHolds(k) /\ NoReceipt.status = "none"
      BY DEF WorkerInv, NoReceipt
    <3>2. CASE token[k] = 0
      BY <1>2, <1>3, <2>1, <3>1, <3>2 DEF KeyHolds
    <3>3. CASE token[k] # 0
      <4>1. token'[k] = token[k] /\ (Open(k)' <=> Open(k))
        BY <1>2, <1>3, <3>3 DEF Open, Terminal
      <4> QED BY <1>2, <1>7, <2>1, <3>1, <4>1 DEF KeyHolds, IsQueued
    <3> QED BY <3>2, <3>3
  <2>8. \A j \in Keys : KeyHolds(j)'
    BY <1>8, <2>1, <2>7
  <2> QED BY <1>2, <1>5, <2>4, <2>5, <2>6, <2>8, SlicesStand DEF WorkerInv
<1> QED BY <1>9, <1>10

\* Keys under a queue that keeps the tickets of accepted writes.
LEMMA KeysKeepTickets ==
    ASSUME WorkerInv, UNCHANGED <<slice, receipt, token, times, torn>>,
           NEW p \in Procs, act[p].pc # "commit",
           NEW a \in Step, act' = [act EXCEPT ![p] = a],
           NEW j \in Keys, j \in accepted' => (j \in accepted /\ (IsQueued(j) => IsQueued(j)'))
                                               \/ IsQueued(j)' \/ receipt[j].status = "committed",
           token[j] = 0 => j \notin accepted'
    PROVE  KeyHolds(j)'
<1>1. Committing(j) => Committing(j)'
  BY DEF Committing, WorkerInv, QueueShape
<1>2. Open(j)' <=> Open(j)
  BY DEF Open, Terminal
<1>3. KeyHolds(j)
  BY DEF WorkerInv
<1> QED BY <1>1, <1>2, <1>3 DEF KeyHolds

\* Link: the ticket's generation is the one that was read, or an older one.
LEMMA LinkKeeps == ASSUME WorkerInv, NEW p \in Callers, Link(p) PROVE WorkerInv'
<1>0. PICK k \in Keys : act[p].key = k
  BY ProcessRow DEF Link, StepHolds, Procs
<1> DEFINE t == [key |-> k, gen |-> act[p].gen]
<1>1. /\ p \in Procs /\ act[p] \in Step /\ StepHolds(p) /\ act[p].pc = "link" /\ holder # p
      /\ Idle \in Step /\ holder' = holder /\ token[k] # 0
      /\ token[k] <= act[p].gen /\ act[p].gen <= slice[Of[k]].gen
  BY <1>0, ProcessRow DEF Link, Procs, Locking, StepHolds
<1>2. /\ UNCHANGED <<slice, receipt, issued, token, times, torn, lapsed, reserved, denied>>
      /\ UNCHANGED <<stamped, faults>> /\ act' = [act EXCEPT ![p] = Idle]
  BY DEF Link, NoFault
<1>3. /\ accepted' \in {accepted, accepted \cup {k}}
      /\ \/ queue' = queue /\ (k \in accepted' \ accepted => IsQueued(k))
         \/ queue' = Append(queue, t) /\ ~IsQueued(k) /\ Len(queue) < QueueMax
  BY <1>0 DEF Link
<1>4. t \in Ticket
  BY <1>1 DEF Step, Ticket
<1> HIDE DEF t
<1>5. /\ queue \in Seq(Ticket) /\ Len(queue) \in Nat /\ Len(queue) <= QueueMax
      /\ \A i, j \in DOMAIN queue : queue[i].key = queue[j].key => i = j
      /\ DOMAIN queue = 1..Len(queue)
  BY DEF WorkerInv, TicketsHold
<1>6. CASE queue' = queue
  <2>1. \A j \in Keys : KeyHolds(j)'
    <3> SUFFICES ASSUME NEW j \in Keys PROVE KeyHolds(j)'
      OBVIOUS
    <3>1. IsQueued(j)' <=> IsQueued(j)
      BY <1>6 DEF IsQueued
    <3>2. token[j] = 0 => j \notin accepted'
      BY <1>1, <1>3 DEF WorkerInv, KeyHolds
    <3>3. j \in accepted' => (j \in accepted /\ (IsQueued(j) => IsQueued(j)')) \/ IsQueued(j)'
      BY <1>3, <1>6, <3>1
    <3> QED BY <1>1, <1>2, <3>2, <3>3, KeysKeepTickets
  <2>2. QueueShape'
    BY <1>1, <1>2, <1>3 DEF WorkerInv, QueueShape
  <2>3. StepHolds(p)' /\ LockIsHeld'
    BY <1>1, <1>2, LockStands DEF StepHolds, Idle, Locking, WorkerInv, QueueShape
  <2>4. \A q \in Procs : StepHolds(q)'
    BY <1>1, <1>2, <2>3, OneProcessMoves
  <2> QED BY <1>2, <1>6, <2>1, <2>2, <2>3, <2>4, SlicesStand, TicketsStand DEF WorkerInv
<1>7. CASE queue' = Append(queue, t) /\ ~IsQueued(k) /\ Len(queue) < QueueMax
  <2>1. /\ queue' \in Seq(Ticket) /\ Len(queue') = Len(queue) + 1
        /\ DOMAIN queue' = 1..Len(queue) + 1
        /\ \A i \in DOMAIN queue : queue'[i] = queue[i]
        /\ queue'[Len(queue) + 1] = t
    BY <1>4, <1>5, <1>7
  <2>2. t.key = k /\ t.gen = act[p].gen /\ \A i \in DOMAIN queue : queue[i].key # k
    BY <1>7 DEF t, IsQueued
  <2>3. TicketsHold'
    <3>1. Len(queue') <= QueueMax
      BY <1>5, <1>7, <2>1, WorkerQueueAssumption
    <3>2. \A i, j \in DOMAIN queue' : queue'[i].key = queue'[j].key => i = j
      BY <1>5, <2>1, <2>2
    <3>3. ASSUME NEW i \in DOMAIN queue'
          PROVE  LET u == queue'[i] IN token'[u.key] # 0 /\ token'[u.key] <= u.gen
                                       /\ u.gen <= slice'[Of[u.key]].gen
      <4>1. CASE i \in DOMAIN queue
        <5>1. queue'[i] = queue[i]
          BY <2>1, <4>1
        <5> QED BY <1>2, <4>1, <5>1 DEF WorkerInv, TicketsHold
      <4>2. CASE i = Len(queue) + 1
        BY <1>1, <1>2, <2>1, <2>2, <4>2
      <4> QED BY <1>5, <2>1, <3>3, <4>1, <4>2
    <3> QED BY <2>1, <3>1, <3>2, <3>3 DEF TicketsHold
  <2>4. \A j \in Keys : IsQueued(j) => IsQueued(j)'
    BY <1>5, <2>1 DEF IsQueued
  <2>5. IsQueued(k)'
    BY <1>5, <2>1, <2>2 DEF IsQueued
  <2>6. \A j \in Keys : KeyHolds(j)'
    <3> SUFFICES ASSUME NEW j \in Keys PROVE KeyHolds(j)'
      OBVIOUS
    <3>1. token[j] = 0 => j \notin accepted'
      BY <1>1, <1>3 DEF WorkerInv, KeyHolds
    <3>2. j \in accepted' => (j \in accepted /\ (IsQueued(j) => IsQueued(j)')) \/ IsQueued(j)'
      BY <1>3, <2>4, <2>5
    <3> QED BY <1>1, <1>2, <3>1, <3>2, KeysKeepTickets
  <2>7. QueueShape'
    BY <1>1, <1>2, <1>3 DEF WorkerInv, QueueShape
  <2>8. StepHolds(p)' /\ LockIsHeld'
    BY <1>1, <1>2, LockStands DEF StepHolds, Idle, Locking, WorkerInv, QueueShape
  <2>9. \A q \in Procs : StepHolds(q)'
    BY <1>1, <1>2, <2>8, OneProcessMoves
  <2> QED BY <1>2, <2>3, <2>6, <2>7, <2>8, <2>9, SlicesStand DEF WorkerInv
<1> QED BY <1>3, <1>6, <1>7

\* A ticket goes: the others hold as they did.
LEMMA FewerTicketsHold ==
    ASSUME WorkerInv, NEW k \in Keys, queue' = Without(k), UNCHANGED <<slice, token>>
    PROVE  /\ TicketsHold'
           /\ \A j \in Keys : j # k /\ IsQueued(j) => IsQueued(j)'
<1>1. TicketsHold /\ QueueMax \in Nat
  BY WorkerQueueAssumption DEF WorkerInv
<1>2. /\ queue' \in Seq(Ticket) /\ Len(queue') <= Len(queue)
      /\ \A i \in DOMAIN queue' : \E j \in DOMAIN queue : queue'[i] = queue[j]
      /\ \A i, j \in DOMAIN queue' : queue'[i].key = queue'[j].key => i = j
      /\ \A j \in DOMAIN queue : queue[j].key # k => \E i \in DOMAIN queue' : queue'[i] = queue[j]
  BY <1>1, WithoutDrops
<1>3. Len(queue') <= QueueMax
  <2>1. Len(queue) \in Nat /\ Len(queue') \in Nat /\ Len(queue) <= QueueMax
    BY <1>1, <1>2 DEF TicketsHold
  <2> QED BY <1>1, <1>2, <2>1
<1>4. ASSUME NEW i \in DOMAIN queue'
      PROVE  LET t == queue'[i] IN
             token'[t.key] # 0 /\ token'[t.key] <= t.gen /\ t.gen <= slice'[Of[t.key]].gen
  <2>1. PICK j \in DOMAIN queue : queue'[i] = queue[j]
    BY <1>2
  <2> QED BY <1>1, <2>1 DEF TicketsHold
<1>5. \A j \in Keys : j # k /\ IsQueued(j) => IsQueued(j)'
  BY <1>2 DEF IsQueued
<1> QED BY <1>2, <1>3, <1>4, <1>5 DEF TicketsHold

\* Remove: the receipt of the write is there.
LEMMA RemoveKeeps == ASSUME WorkerInv, NEW d \in Drains, Remove(d) PROVE WorkerInv'
<1>0. PICK k \in Keys : act[d].key = k
  BY ProcessRow DEF Remove, StepHolds, Procs
<1>1. /\ d \in Procs /\ act[d].pc = "remove" /\ holder = d /\ Idle \in Step
      /\ receipt[k].status = "committed"
  BY <1>0, ProcessRow DEF Remove, Procs, Locking, StepHolds
<1>2. /\ UNCHANGED <<slice, receipt, issued, token, accepted, times, torn>>
      /\ UNCHANGED <<stamped, lapsed, reserved, denied, faults>>
      /\ act' = [act EXCEPT ![d] = Idle] /\ holder' = "none" /\ queue' = Without(k)
  BY <1>0 DEF Remove, Throw, NoFault, history
<1>3. TicketsHold' /\ \A j \in Keys : j # k /\ IsQueued(j) => IsQueued(j)'
  BY <1>2, FewerTicketsHold
<1>4. \A j \in Keys : KeyHolds(j)'
  <2> SUFFICES ASSUME NEW j \in Keys PROVE KeyHolds(j)'
    OBVIOUS
  <2>1. token[j] = 0 => j \notin accepted'
    BY <1>2 DEF WorkerInv, KeyHolds
  <2>2. j \in accepted' => (j \in accepted /\ (IsQueued(j) => IsQueued(j)'))
                            \/ IsQueued(j)' \/ receipt[j].status = "committed"
    BY <1>1, <1>2, <1>3
  <2> QED BY <1>1, <1>2, <2>1, <2>2, KeysKeepTickets
<1>5. QueueShape'
  BY <1>1, <1>2 DEF WorkerInv, QueueShape
<1>6. StepHolds(d)' /\ LockIsHeld'
  BY <1>1, <1>2, LockIsLeft DEF StepHolds, Idle, Locking, WorkerInv, QueueShape
<1>7. \A q \in Procs : StepHolds(q)'
  BY <1>1, <1>2, <1>6, OneProcessMoves
<1> QED BY <1>2, <1>3, <1>4, <1>5, <1>6, <1>7, SlicesStand DEF WorkerInv

\* A generation's receipts go.
LEMMA PrunedRow ==
    ASSUME WorkerInv, NEW r \in [Keys -> Receipt \cup {NoReceipt}], NEW s, NEW g, NEW k \in Keys
    PROVE  /\ Pruned(r, s, g)[k] = IF Of[k] = s /\ token[k] = g THEN NoReceipt ELSE r[k]
           /\ Pruned(r, s, g) \in [Keys -> Receipt \cup {NoReceipt}]
           /\ NoReceipt.status = "none"
BY DEF Pruned, NoReceipt

\* DrainDrop: the token of a dead ticket, and every token of its generation, can
\* live no more.
LEMMA DrainDropKeeps == ASSUME WorkerInv, NEW d \in Drains, DrainDrop(d) PROVE WorkerInv'
<1>1. /\ d \in Procs /\ holder = "none" /\ holder' = holder /\ queue # <<>>
      /\ \A q \in Procs : act[q].pc \notin Locking
  <2>1. \A q \in Procs : holder # q
    BY WorkerQueueAssumption DEF DrainDrop, MayDrain, Procs
  <2> QED BY <2>1, ProcessRow DEF DrainDrop, MayDrain, Procs
<1>2. PICK i \in DOMAIN queue : NextTicket = queue[i]
  BY <1>1, NextTicketIsQueued DEF WorkerInv
<1>3. queue[i] \in Ticket
  BY DEF WorkerInv, TicketsHold
<1>4. PICK k \in Keys, g \in Gens, s \in Slices :
         queue[i].key = k /\ queue[i].gen = g /\ Of[k] = s
  BY <1>3, WorkerQueueAssumption DEF Ticket
<1>5. /\ token[k] # 0 /\ token[k] <= g /\ g <= slice[s].gen
      /\ Terminal(s) \/ g # slice[s].gen
  <2>1. ~IsLiveWork(queue[i])
    BY <1>2 DEF DrainDrop
  <2> QED BY <1>4, <2>1 DEF WorkerInv, TicketsHold, IsLiveWork
<1>6. /\ UNCHANGED <<slice, issued, token, accepted, times, torn, act, holder>>
      /\ UNCHANGED <<lapsed, reserved, denied, faults>>
      /\ queue' = Without(k) /\ receipt' = Pruned(receipt, s, g)
      /\ stamped' \in {stamped, stamped \ {s}}
  BY <1>2, <1>4 DEF DrainDrop, NoFault, history
<1>7. TicketsHold' /\ \A j \in Keys : j # k /\ IsQueued(j) => IsQueued(j)'
  BY <1>6, FewerTicketsHold
<1>8. /\ \A j \in Keys : receipt'[j] = IF Of[j] = s /\ token[j] = g THEN NoReceipt ELSE receipt[j]
      /\ receipt' \in [Keys -> Receipt \cup {NoReceipt}] /\ NoReceipt.status = "none"
  <2>1. receipt \in [Keys -> Receipt \cup {NoReceipt}]
    BY DEF WorkerInv, QueueShape
  <2> QED BY <1>6, <2>1, PrunedRow
<1>9. \A j \in Keys : KeyHolds(j)'
  <2> SUFFICES ASSUME NEW j \in Keys PROVE KeyHolds(j)'
    OBVIOUS
  <2>1. KeyHolds(j) /\ ~Committing(j) /\ (Open(j)' <=> Open(j))
    BY <1>1, <1>6 DEF WorkerInv, Committing, Locking, Open, Terminal
  <2>2. Of[j] = s /\ token[j] = g => ~Open(j)
    BY <1>5 DEF Open
  <2>3. j = k => ~Open(j)
    <3>1. slice[s].gen \in Nat /\ g \in Nat /\ token[k] \in Nat
      BY <1>4, WorkerQueueAssumption DEF WorkerInv, QueueShape, Slice, Gens
    <3> QED BY <1>4, <1>5, <3>1 DEF Open
  <2>4. CASE Of[j] = s /\ token[j] = g
    BY <1>6, <1>8, <2>1, <2>2, <2>4 DEF KeyHolds
  <2>5. CASE ~(Of[j] = s /\ token[j] = g)
    <3>1. receipt'[j] = receipt[j]
      BY <1>8, <2>5
    <3> QED BY <1>6, <1>7, <2>1, <2>3, <3>1 DEF KeyHolds
  <2> QED BY <2>4, <2>5
<1>10. QueueShape' /\ LockIsHeld'
  BY <1>6, <1>8 DEF WorkerInv, QueueShape, LockIsHeld
<1>11. \A q \in Procs : StepHolds(q)'
  <2> SUFFICES ASSUME NEW q \in Procs PROVE StepHolds(q)'
    OBVIOUS
  <2>1. StepHolds(q) /\ act[q].pc \notin Locking
    BY <1>1, ProcessRow
  <2> QED BY <1>6, <2>1 DEF StepHolds, Locking
<1> QED BY <1>6, <1>7, <1>9, <1>10, <1>11, SlicesStand DEF WorkerInv

-----------------------------------------------------------------------------
(* Claims, and generations that end them *)

\* persistPlan: a receipt whose revision the plan has reached keeps the rest.
LEMMA MovedRow ==
    ASSUME NEW r \in [Keys -> Receipt \cup {NoReceipt}], NEW k \in Keys
    PROVE  /\ Moved(r) \in [Keys -> Receipt \cup {NoReceipt}]
           /\ Moved(r)[k].status = r[k].status /\ Moved(r)[k].slice = r[k].slice
           /\ r[k] = NoReceipt => Moved(r)[k] = NoReceipt
<1>1. ASSUME NEW j \in Keys
      PROVE  /\ Moved(r)[j] \in Receipt \cup {NoReceipt}
             /\ Moved(r)[j].status = r[j].status /\ Moved(r)[j].slice = r[j].slice
             /\ r[j] = NoReceipt => Moved(r)[j] = NoReceipt
  <2>1. Moved(r)[j] = [r[j] EXCEPT !.moved = r[j].status # "none"]
    BY DEF Moved
  <2>2. CASE r[j] = NoReceipt
    <3>1. (r[j].status # "none") = FALSE
      BY <2>2 DEF NoReceipt
    <3>2. Moved(r)[j] = [NoReceipt EXCEPT !.moved = FALSE]
      BY <2>1, <2>2, <3>1
    <3> QED BY <2>2, <3>2 DEF NoReceipt
  <2>3. CASE r[j] \in Receipt /\ r[j] # NoReceipt
    BY <2>1, <2>3 DEF Receipt
  <2> QED BY <2>2, <2>3
<1>2. Moved(r) = [j \in Keys |-> Moved(r)[j]]
  BY DEF Moved
<1> QED BY <1>1, <1>2

\* The row of a slice whose claim has ended.
Statuses == {"pending", "in_progress", "blocked", "done", "superseded"}
Ended(a, n, st) == [a EXCEPT !.gen = n, !.claimed = FALSE, !.status = st]

LEMMA EndedRow ==
    ASSUME NEW a \in Slice, NEW n \in Gens,
           NEW st \in Statuses
    PROVE  /\ Ended(a, n, st) \in Slice /\ Ended(a, n, st).gen = n
           /\ Ended(a, n, st).claimed = FALSE /\ Ended(a, n, st).evidence = a.evidence
<1> DEFINE r1 == [a EXCEPT !.gen = n]
           r2 == [r1 EXCEPT !.claimed = FALSE]
           r3 == [r2 EXCEPT !.status = st]
<1>1. r1 \in Slice /\ r1.gen = n /\ r1.evidence = a.evidence
  BY DEF Slice
<1>2. r2 \in Slice /\ r2.gen = n /\ r2.evidence = a.evidence /\ r2.claimed = FALSE
  <2> HIDE DEF r1
  <2> QED BY <1>1 DEF Slice
<1>3. r3 \in Slice /\ r3.gen = n /\ r3.evidence = a.evidence /\ r3.claimed = FALSE
  <2> HIDE DEF r2
  <2> QED BY <1>2 DEF Slice, Statuses
<1>4. Ended(a, n, st) = r3
  BY DEF Ended
<1> HIDE DEF r3
<1> QED BY <1>3, <1>4

\* The generation of a slice advances, by whoever may: under the lock, with
\* nobody else between a claim checked and its write committed.
LEMMA AdvanceKeeps ==
    ASSUME WorkerInv, NEW s \in Slices, NEW st \in {slice[s].status, "superseded"},
           Advance(s, st),
           UNCHANGED <<queue, issued, token, accepted, times, torn, denied, reserved, faults>>,
           act' \in [Procs -> Step], LockIsHeld',
           \A q \in Procs : /\ act[q].pc \notin {"persist", "commit", "remove"}
                            /\ act'[q] \in {act[q], Idle}
    PROVE  WorkerInv'
<1>1. /\ slice \in [Slices -> Slice] /\ slice[s] \in Slice /\ MaxGen \in Nat
      /\ receipt \in [Keys -> Receipt \cup {NoReceipt}]
  BY WorkerQueueAssumption DEF WorkerInv, QueueShape
<1> DEFINE row == Ended(slice[s], slice[s].gen + 1, st)
<1>2. slice' = [slice EXCEPT ![s] = row]
  BY <1>1 DEF Advance, Ended
<1>3. /\ row \in Slice /\ row.gen = slice[s].gen + 1 /\ row.claimed = FALSE
      /\ row.evidence = slice[s].evidence /\ slice[s].gen \in Nat
  <2>1. slice[s].gen \in 1..MaxGen /\ slice[s].gen < MaxGen
    BY <1>1 DEF Advance, Slice, Gens
  <2>2. slice[s].gen + 1 \in Gens
    BY <1>1, <2>1 DEF Gens
  <2>3. st \in Statuses
    BY <1>1 DEF Slice, Statuses
  <2>5. /\ row \in Slice /\ row.gen = slice[s].gen + 1 /\ row.claimed = FALSE
        /\ row.evidence = slice[s].evidence
    <3>1. \A a \in Slice, n \in Gens, x \in Statuses :
             /\ Ended(a, n, x) \in Slice /\ Ended(a, n, x).gen = n
             /\ Ended(a, n, x).claimed = FALSE /\ Ended(a, n, x).evidence = a.evidence
      BY EndedRow
    <3> QED BY <1>1, <2>2, <2>3, <3>1
  <2>6. slice[s].gen \in Nat
    BY <2>1
  <2> QED BY <2>5, <2>6
<1> HIDE DEF row
<1>4. slice' \in [Slices -> Slice] /\ slice'[s] = row /\ \A x \in Slices : x # s => slice'[x] = slice[x]
  BY <1>1, <1>2, <1>3
<1>5. /\ receipt' \in [Keys -> Receipt \cup {NoReceipt}] /\ NoReceipt.status = "none"
      /\ \A k \in Keys : /\ \/ receipt'[k] = NoReceipt
                            \/ /\ receipt'[k].status = receipt[k].status
                               /\ receipt'[k].slice = receipt[k].slice
                         /\ receipt[k] = NoReceipt => receipt'[k] = NoReceipt
                         /\ Of[k] # s => receipt'[k].status = receipt[k].status
  <2>1. /\ Moved(receipt) \in [Keys -> Receipt \cup {NoReceipt}]
        /\ \A k \in Keys : /\ Moved(receipt)[k].status = receipt[k].status
                           /\ Moved(receipt)[k].slice = receipt[k].slice
                           /\ receipt[k] = NoReceipt => Moved(receipt)[k] = NoReceipt
    BY <1>1, MovedRow DEF Moved
  <2>2. receipt' = Pruned(Moved(receipt), s, slice[s].gen)
    BY DEF Advance
  <2>3. NoReceipt.status = "none"
    BY DEF NoReceipt
  <2>4. \A k \in Keys : receipt'[k] = IF Of[k] = s /\ token[k] = slice[s].gen
                                      THEN NoReceipt ELSE Moved(receipt)[k]
    BY <2>2 DEF Pruned
  <2>5. receipt' \in [Keys -> Receipt \cup {NoReceipt}]
    BY <2>1, <2>2 DEF Pruned
  <2>6. ASSUME NEW k \in Keys
        PROVE  /\ \/ receipt'[k] = NoReceipt
                  \/ /\ receipt'[k].status = receipt[k].status
                     /\ receipt'[k].slice = receipt[k].slice
               /\ receipt[k] = NoReceipt => receipt'[k] = NoReceipt
               /\ Of[k] # s => receipt'[k].status = receipt[k].status
    <3>1. CASE Of[k] = s /\ token[k] = slice[s].gen
      BY <2>4, <3>1
    <3>2. CASE ~(Of[k] = s /\ token[k] = slice[s].gen)
      <4>1. receipt'[k] = Moved(receipt)[k]
        BY <2>4, <3>2
      <4> QED BY <2>1, <4>1
    <3> QED BY <3>1, <3>2
  <2> QED BY <2>3, <2>5, <2>6
<1>6. \A k \in Keys : slice[Of[k]].gen \in Nat /\ slice'[Of[k]].gen \in Nat
                      /\ slice[Of[k]].gen <= slice'[Of[k]].gen /\ Of[k] \in Slices
  <2> SUFFICES ASSUME NEW k \in Keys
               PROVE  slice[Of[k]].gen \in Nat /\ slice'[Of[k]].gen \in Nat
                      /\ slice[Of[k]].gen <= slice'[Of[k]].gen /\ Of[k] \in Slices
    OBVIOUS
  <2>1. Of[k] \in Slices
    BY WorkerQueueAssumption
  <2>2. slice[Of[k]].gen \in Nat
    BY <1>1, <2>1 DEF Slice, Gens
  <2> QED BY <1>3, <1>4, <2>1, <2>2
<1>7. QueueShape'
  BY <1>4, <1>5 DEF WorkerInv, QueueShape, Advance
<1>8. TicketsHold'
  <2>1. ASSUME NEW i \in DOMAIN queue
        PROVE  LET t == queue[i] IN
               token[t.key] # 0 /\ token[t.key] <= t.gen /\ t.gen <= slice'[Of[t.key]].gen
    <3>1. queue[i] \in Ticket /\ queue[i].gen <= slice[Of[queue[i].key]].gen
          /\ token[queue[i].key] # 0 /\ token[queue[i].key] <= queue[i].gen
      BY DEF WorkerInv, TicketsHold
    <3>2. queue[i].key \in Keys /\ queue[i].gen \in Nat
      BY <3>1 DEF Ticket, Gens
    <3> QED BY <1>6, <3>1, <3>2
  <2> QED BY <2>1 DEF WorkerInv, TicketsHold
<1>9. \A x \in Slices : SliceHolds(x)'
  <2> SUFFICES ASSUME NEW x \in Slices PROVE SliceHolds(x)'
    OBVIOUS
  <2>1. SliceHolds(x)
    BY DEF WorkerInv
  <2>2. CASE x # s
    BY <1>4, <2>1, <2>2 DEF SliceHolds, Terminal
  <2>3. CASE x = s
    <3>1. \A g \in issued'[x] : g <= slice'[x].gen
      <4> SUFFICES ASSUME NEW g \in issued[s] PROVE g <= slice[s].gen + 1
        BY <1>3, <1>4, <2>3
      <4>1. g \in Nat /\ g <= slice[s].gen
        BY <2>1, <2>3 DEF SliceHolds, WorkerInv, QueueShape, Gens
      <4> QED BY <1>3, <4>1
    <3> QED BY <1>3, <1>4, <2>1, <2>3, <3>1 DEF SliceHolds
  <2> QED BY <2>2, <2>3
<1>10. \A q \in Procs : StepHolds(q)'
  <2> SUFFICES ASSUME NEW q \in Procs PROVE StepHolds(q)'
    OBVIOUS
  <2>1. StepHolds(q) /\ act[q] \in Step
    BY ProcessRow
  <2>2. CASE act'[q] = Idle
    BY <2>2 DEF StepHolds, Idle
  <2>3. CASE act'[q] = act[q]
    <3>1. act[q].gen \in Nat
      BY <2>1 DEF Step, Gens
    <3> QED BY <1>6, <2>1, <2>3, <3>1 DEF StepHolds
  <2> QED BY <2>2, <2>3
<1>11. \A k \in Keys : KeyHolds(k)'
  <2> SUFFICES ASSUME NEW k \in Keys PROVE KeyHolds(k)'
    OBVIOUS
  <2>1. KeyHolds(k) /\ ~Committing(k) /\ token[k] \in Nat
    BY DEF WorkerInv, QueueShape, Committing
  <2>2. token'[k] <= slice'[Of[k]].gen
    BY <1>6, <2>1 DEF KeyHolds
  <2>3. CASE Of[k] = s
    <3>1. ~Open(k)'
      <4>1. token[k] <= slice[s].gen /\ slice'[s].gen = slice[s].gen + 1
        BY <1>3, <1>4, <2>1, <2>3 DEF KeyHolds
      <4>2. token[k] # slice'[s].gen
        BY <1>3, <2>1, <4>1
      <4> QED BY <2>3, <4>2 DEF Open
    <3> QED BY <1>5, <2>1, <2>2, <3>1 DEF KeyHolds
  <2>4. CASE Of[k] # s
    <3>1. Open(k)' <=> Open(k)
      BY <1>4, <1>6, <2>4 DEF Open, Terminal
    <3> QED BY <1>5, <2>1, <2>2, <2>4, <3>1 DEF KeyHolds, IsQueued
  <2> QED BY <2>3, <2>4
<1> QED BY <1>7, <1>8, <1>9, <1>10, <1>11 DEF WorkerInv

\* With the lock free, no process is in the middle of an apply.
LEMMA FreeLock ==
    ASSUME WorkerInv, holder = "none", NEW p \in Procs
    PROVE  act[p].pc \notin Locking
<1>1. holder # p
  BY WorkerQueueAssumption DEF Procs
<1> QED BY <1>1, ProcessRow

LEMMA FreeAdvanceKeeps ==
    ASSUME WorkerInv, NEW s \in Slices, Reassign(s) \/ Expire(s) \/ Supersede(s)
    PROVE  WorkerInv'
<1>1. /\ UNCHANGED <<queue, issued, token, accepted, times, torn, denied, reserved, faults>>
      /\ UNCHANGED <<act, holder>> /\ holder = "none"
  BY DEF Reassign, Expire, Supersede, history, NoFault
<1>2. /\ act' \in [Procs -> Step] /\ LockIsHeld'
      /\ \A q \in Procs : act'[q] \in {act[q], Idle}
  BY <1>1 DEF WorkerInv, QueueShape, LockIsHeld
<1>3. \A q \in Procs : act[q].pc \notin {"persist", "commit", "remove"}
  BY <1>1, FreeLock DEF Locking
<1>4. CASE Reassign(s) \/ Expire(s)
  <2>1. Advance(s, slice[s].status)
    BY <1>4 DEF Reassign, Expire
  <2> QED BY <1>1, <1>2, <1>3, <2>1, AdvanceKeeps
<1>5. CASE Supersede(s)
  <2>1. Advance(s, "superseded")
    BY <1>5 DEF Supersede
  <2> QED BY <1>1, <1>2, <1>3, <2>1, AdvanceKeeps
<1> QED BY <1>4, <1>5

LEMMA SyncExpiredKeeps ==
    ASSUME WorkerInv, NEW p \in Procs, NEW s \in Slices, SyncExpired(p, s) PROVE WorkerInv'
<1>1. /\ UNCHANGED <<queue, issued, token, accepted, times, torn, denied, reserved, faults>>
      /\ Advance(s, slice[s].status) /\ act[p].pc = "sync" /\ holder = p /\ Idle \in Step
  BY ProcessRow DEF SyncExpired, history, NoFault, Locking
<1>2. \/ act' = [act EXCEPT ![p] = Idle] /\ holder' = "none"
      \/ act' = act /\ holder' = holder
  BY DEF SyncExpired, Throw
<1>3. act' \in [Procs -> Step] /\ \A q \in Procs : act'[q] \in {act[q], Idle}
  BY <1>1, <1>2 DEF WorkerInv, QueueShape
<1>4. LockIsHeld'
  <2>1. CASE act' = act /\ holder' = holder
    BY <2>1 DEF WorkerInv, LockIsHeld
  <2>2. CASE act' = [act EXCEPT ![p] = Idle] /\ holder' = "none"
    BY <1>1, <2>2, LockIsLeft DEF Idle, Locking
  <2> QED BY <1>2, <2>1, <2>2
<1>5. \A q \in Procs : act[q].pc \notin {"persist", "commit", "remove"}
  <2> SUFFICES ASSUME NEW q \in Procs PROVE act[q].pc \notin {"persist", "commit", "remove"}
    OBVIOUS
  <2>1. q # p => act[q].pc \notin Locking
    BY <1>1, ProcessRow
  <2> QED BY <1>1, <2>1 DEF Locking
<1> QED BY <1>1, <1>3, <1>4, <1>5, AdvanceKeeps

\* claimSlice: the generation is issued, and the slice is open.
LEMMA ClaimKeeps == ASSUME WorkerInv, NEW s \in Slices, Claim(s) PROVE WorkerInv'
<1>1. /\ UNCHANGED <<queue, token, accepted, times, torn, denied, reserved, faults>>
      /\ UNCHANGED <<act, holder, stamped, lapsed>> /\ holder = "none" /\ ~Terminal(s)
      /\ slice' = [slice EXCEPT ![s].claimed = TRUE] /\ receipt' = Moved(receipt)
      /\ issued' = [issued EXCEPT ![s] = @ \cup {slice[s].gen}]
  BY DEF Claim, NoFault
<1>2. /\ slice \in [Slices -> Slice] /\ receipt \in [Keys -> Receipt \cup {NoReceipt}]
      /\ issued \in [Slices -> SUBSET Gens] /\ slice[s] \in Slice
  BY DEF WorkerInv, QueueShape
<1> DEFINE row == [slice[s] EXCEPT !.claimed = TRUE]
<1>3. /\ row \in Slice /\ row.gen = slice[s].gen /\ row.status = slice[s].status
      /\ row.evidence = slice[s].evidence /\ slice[s].gen \in Gens
  BY <1>2 DEF Slice
<1>4. slice' = [slice EXCEPT ![s] = row]
  BY <1>1, <1>2
<1> HIDE DEF row
<1>5. /\ slice' \in [Slices -> Slice] /\ slice'[s] = row
      /\ \A x \in Slices : /\ slice'[x].gen = slice[x].gen /\ slice'[x].status = slice[x].status
                           /\ slice'[x].evidence = slice[x].evidence
                           /\ x # s => slice'[x] = slice[x]
  BY <1>2, <1>3, <1>4
<1>6. /\ receipt' \in [Keys -> Receipt \cup {NoReceipt}]
      /\ \A k \in Keys : /\ receipt'[k].status = receipt[k].status
                         /\ receipt'[k].slice = receipt[k].slice
                         /\ receipt[k] = NoReceipt => receipt'[k] = NoReceipt
  <2>1. Moved(receipt) \in [Keys -> Receipt \cup {NoReceipt}]
        /\ \A k \in Keys : /\ Moved(receipt)[k].status = receipt[k].status
                           /\ Moved(receipt)[k].slice = receipt[k].slice
                           /\ receipt[k] = NoReceipt => Moved(receipt)[k] = NoReceipt
    BY <1>2, MovedRow DEF Moved
  <2> QED BY <1>1, <2>1
<1>7. issued' \in [Slices -> SUBSET Gens]
  BY <1>1, <1>2, <1>3
<1>8. QueueShape' /\ LockIsHeld'
  BY <1>1, <1>5, <1>6, <1>7 DEF WorkerInv, QueueShape, LockIsHeld
<1>9. \A k \in Keys : Of[k] \in Slices
  BY WorkerQueueAssumption
<1>10. TicketsHold'
  <2>1. \A i \in DOMAIN queue : slice'[Of[queue[i].key]].gen = slice[Of[queue[i].key]].gen
    <3> SUFFICES ASSUME NEW i \in DOMAIN queue
                 PROVE  slice'[Of[queue[i].key]].gen = slice[Of[queue[i].key]].gen
      OBVIOUS
    <3>1. queue[i] \in Ticket
      BY DEF WorkerInv, TicketsHold
    <3>2. Of[queue[i].key] \in Slices
      BY <1>9, <3>1 DEF Ticket
    <3> QED BY <1>5, <3>2
  <2> QED BY <1>1, <2>1 DEF WorkerInv, TicketsHold
<1>11. \A x \in Slices : SliceHolds(x)'
  <2> SUFFICES ASSUME NEW x \in Slices PROVE SliceHolds(x)'
    OBVIOUS
  <2>1. SliceHolds(x)
    BY DEF WorkerInv
  <2>2. CASE x # s
    <3>1. issued'[x] = issued[x] /\ slice'[x] = slice[x]
      BY <1>1, <1>2, <1>5, <2>2
    <3> QED BY <1>1, <2>1, <3>1 DEF SliceHolds, Terminal
  <2>3. CASE x = s
    <3>1. issued'[s] = issued[s] \cup {slice[s].gen} /\ slice[s].gen \in Nat
      BY <1>1, <1>2, <1>3 DEF Gens
    <3>2. \A g \in issued'[s] : g <= slice'[s].gen
      BY <1>3, <1>5, <2>1, <2>3, <3>1 DEF SliceHolds
    <3>3. ~Terminal(s)'
      BY <1>1, <1>5 DEF Terminal
    <3> QED BY <1>1, <1>5, <2>1, <2>3, <3>2, <3>3 DEF SliceHolds
  <2> QED BY <2>2, <2>3
<1>12. \A q \in Procs : StepHolds(q)'
  <2> SUFFICES ASSUME NEW q \in Procs PROVE StepHolds(q)'
    OBVIOUS
  <2>1. StepHolds(q) /\ act[q].pc \notin Locking
    BY <1>1, ProcessRow, FreeLock
  <2>2. CASE act[q].pc # "idle"
    <3>1. slice'[Of[act[q].key]].gen = slice[Of[act[q].key]].gen
      BY <1>5, <1>9, <2>1, <2>2 DEF StepHolds
    <3> QED BY <1>1, <2>1, <3>1 DEF StepHolds, Locking
  <2>3. CASE act[q].pc = "idle"
    BY <1>1, <2>3 DEF StepHolds
  <2> QED BY <2>2, <2>3
<1>13. \A k \in Keys : KeyHolds(k)'
  <2> SUFFICES ASSUME NEW k \in Keys PROVE KeyHolds(k)'
    OBVIOUS
  <2>1. KeyHolds(k) /\ (Open(k)' <=> Open(k)) /\ slice'[Of[k]].gen = slice[Of[k]].gen
    BY <1>1, <1>5, <1>9 DEF WorkerInv, Open, Terminal
  <2> QED BY <1>1, <1>6, <2>1 DEF KeyHolds, IsQueued, Committing
<1> QED BY <1>8, <1>10, <1>11, <1>12, <1>13 DEF WorkerInv

-----------------------------------------------------------------------------
(* The apply: the receipt before the note, the note, the receipt after it *)

\* applyWorkerAction: the slice keeps its generation, has the write's evidence
\* when it leaves any, and is closed only by giving up its claim.
LEMMA AppliedRow ==
    ASSUME NEW k \in Keys, slice \in [Slices -> Slice], Of[k] \in Slices
    PROVE  /\ Applied(k) \in Slice /\ Applied(k).gen = slice[Of[k]].gen
           /\ Applied(k).evidence = IF LeavesTrace(k) THEN k ELSE slice[Of[k]].evidence
           /\ \/ Applied(k).status \notin {"done", "superseded"}
              \/ ~Applied(k).claimed
              \/ Applied(k) = slice[Of[k]]
<1> DEFINE before == slice[Of[k]]
<1>1. before \in Slice
  OBVIOUS
<1>2. Act[k] \in {"start", "progress", "block", "scar", "complete"}
  BY WorkerQueueAssumption
<1> HIDE DEF before
<1>3. CASE Act[k] = "start"
  <2>1. Applied(k) = [before EXCEPT !.status = "in_progress"]
    BY <1>3 DEF Applied, before
  <2> QED BY <1>1, <1>3, <2>1 DEF Slice, LeavesTrace, before
<1>4. CASE Act[k] = "progress"
  <2>1. Applied(k) = [before EXCEPT !.status = "in_progress", !.evidence = k]
    BY <1>4 DEF Applied, before
  <2> QED BY <1>1, <1>4, <2>1 DEF Slice, LeavesTrace, before
<1>5. CASE Act[k] = "block"
  <2>1. Applied(k) = [before EXCEPT !.status = "blocked", !.evidence = k]
    BY <1>5 DEF Applied, before
  <2> QED BY <1>1, <1>5, <2>1 DEF Slice, LeavesTrace, before
<1>6. CASE Act[k] = "complete"
  <2> DEFINE r == [before EXCEPT !.status = "done", !.evidence = k]
  <2>1. r \in Slice /\ r.gen = before.gen /\ r.evidence = k
    BY <1>1 DEF Slice
  <2>2. Applied(k) = [r EXCEPT !.claimed = FALSE]
    BY <1>6 DEF Applied, before
  <2> HIDE DEF r
  <2>3. Applied(k) \in Slice /\ Applied(k).gen = before.gen /\ Applied(k).evidence = k
        /\ Applied(k).claimed = FALSE
    BY <2>1, <2>2 DEF Slice
  <2> QED BY <1>6, <2>3 DEF LeavesTrace, before
<1>7. CASE Act[k] = "scar"
  <2>1. Applied(k) = before
    BY <1>7 DEF Applied, before
  <2> QED BY <1>1, <1>7, <2>1 DEF LeavesTrace, before
<1> QED BY <1>2, <1>3, <1>4, <1>5, <1>6, <1>7

\* A receipt that is committed in its place.
LEMMA CommittedRow ==
    ASSUME NEW r \in Receipt \cup {NoReceipt}
    PROVE  /\ [r EXCEPT !.status = "committed"] \in Receipt
           /\ [r EXCEPT !.status = "committed"].status = "committed"
<1>1. NewSlice \in Slice
  BY WorkerQueueAssumption DEF NewSlice, Slice, Gens
<1>2. CASE r \in Receipt
  BY <1>2 DEF Receipt
<1>3. CASE r = NoReceipt
  BY <1>1, <1>3 DEF Receipt, NoReceipt
<1> QED BY <1>2, <1>3

\* The receipt of a write that reached the note is committed: its process goes
\* on to remove the ticket, or has done.
LEMMA ReceiptCommitted ==
    ASSUME WorkerInv, NEW p \in Procs, NEW k \in Keys, holder = p, act[p].key = k,
           LeavesTrace(k) => times[k] > 0,
           receipt' = [receipt EXCEPT ![k].status = "committed"],
           UNCHANGED <<slice, queue, issued, token, accepted, times, torn>>,
           UNCHANGED <<stamped, lapsed, reserved, denied>>, faults' \in 0..MaxFaults,
           NEW a \in Step, act' = [act EXCEPT ![p] = a],
           \/ a.pc = "remove" /\ a.key = k /\ holder' = holder
           \/ a.pc = "idle" /\ holder' = "none"
    PROVE  WorkerInv'
<1>1. /\ act[p].pc \in Locking /\ StepHolds(p) /\ token[k] # 0
      /\ \A q \in Procs : q # p => act[q].pc \notin Locking /\ StepHolds(q)
  BY ProcessRow DEF StepHolds, Locking
<1>2. /\ receipt \in [Keys -> Receipt \cup {NoReceipt}] /\ act \in [Procs -> Step]
  BY DEF WorkerInv, QueueShape
<1> DEFINE r == [receipt[k] EXCEPT !.status = "committed"]
<1>3. r \in Receipt /\ r.status = "committed"
  BY <1>2, CommittedRow
<1>4. receipt' = [receipt EXCEPT ![k] = r]
  BY <1>2
<1> HIDE DEF r
<1>5. /\ receipt' \in [Keys -> Receipt \cup {NoReceipt}] /\ receipt'[k].status = "committed"
      /\ \A j \in Keys : j # k => receipt'[j] = receipt[j]
  BY <1>2, <1>3, <1>4
<1>6. /\ act' \in [Procs -> Step] /\ act'[p] = a
      /\ \A q \in Procs : q # p => act'[q] = act[q]
  BY <1>2
<1>7. QueueShape'
  BY <1>5, <1>6 DEF WorkerInv, QueueShape
<1>8. LockIsHeld'
  BY <1>1, LockStands, LockIsLeft DEF Locking
<1>9. \A q \in Procs : StepHolds(q)'
  <2> SUFFICES ASSUME NEW q \in Procs PROVE StepHolds(q)'
    OBVIOUS
  <2>1. CASE q = p
    BY <1>1, <1>5, <1>6, <2>1 DEF StepHolds
  <2>2. CASE q # p
    BY <1>1, <1>6, <2>2 DEF StepHolds, Locking
  <2> QED BY <2>1, <2>2
<1>10. KeyHolds(k)'
  <2>1. KeyHolds(k)
    BY DEF WorkerInv
  <2> QED BY <1>1, <1>5, <2>1 DEF KeyHolds, LeavesTrace
<1>11. ASSUME NEW j \in Keys, j # k PROVE KeyHolds(j)'
  <2>1. KeyHolds(j) /\ (Open(j)' <=> Open(j))
    BY DEF WorkerInv, Open, Terminal
  <2>2. Committing(j) => Committing(j)'
    BY <1>6, <1>11 DEF Committing
  <2> QED BY <1>5, <1>11, <2>1, <2>2 DEF KeyHolds, IsQueued
<1> QED BY <1>7, <1>8, <1>9, <1>10, <1>11, SlicesStand, TicketsStand DEF WorkerInv

\* Finish and Throw are one step of the process that holds the lock.
LEMMA FinishOrThrow ==
    ASSUME WorkerInv, NEW p \in Procs, act[p].pc \in Locking, Finish(p) \/ Throw(p)
    PROVE  \E a \in Step : /\ act' = [act EXCEPT ![p] = a]
                           /\ \/ a.pc = "remove" /\ a.key = act[p].key /\ holder' = holder
                              \/ a.pc = "idle" /\ holder' = "none"
<1>1. act[p] \in Step /\ Idle \in Step /\ Idle.pc = "idle"
  BY ProcessRow DEF Idle
<1>2. CASE act' = [act EXCEPT ![p] = Idle] /\ holder' = "none"
  BY <1>1, <1>2
<1>3. CASE act' = [act EXCEPT ![p].pc = "remove"] /\ UNCHANGED holder
  <2> DEFINE a == [act[p] EXCEPT !.pc = "remove"]
  <2>1. a \in Step /\ a.pc = "remove" /\ a.key = act[p].key
    BY <1>1 DEF Step, Locking
  <2>2. act' = [act EXCEPT ![p] = a]
    BY <1>3 DEF WorkerInv, QueueShape
  <2> QED BY <1>3, <2>1, <2>2
<1> QED BY <1>2, <1>3 DEF Finish, Throw

\* Commit, and a commit whose journal is not written.
LEMMA CommitKeeps ==
    ASSUME WorkerInv, NEW p \in Procs, Commit(p) \/ JournalFails(p)
    PROVE  WorkerInv'
<1>1. /\ act[p].pc = "commit" /\ act[p].pc \in Locking /\ holder = p
      /\ act[p].key \in Keys /\ times[act[p].key] > 0
  BY ProcessRow DEF Commit, JournalFails, Locking, StepHolds
<1>2. PICK k \in Keys : act[p].key = k
  BY <1>1
<1>3. /\ receipt' = [receipt EXCEPT ![k].status = "committed"]
      /\ UNCHANGED <<slice, queue, issued, token, accepted, times, torn>>
      /\ UNCHANGED <<stamped, lapsed, reserved, denied>>
      /\ (Finish(p) \/ Throw(p)) /\ (NoFault \/ Fault)
  BY <1>2 DEF Commit, JournalFails, history
<1>4. faults' \in 0..MaxFaults
  BY <1>3, WorkerQueueAssumption DEF WorkerInv, QueueShape, NoFault, Fault
<1>5. PICK a \in Step : /\ act' = [act EXCEPT ![p] = a]
                        /\ \/ a.pc = "remove" /\ a.key = k /\ holder' = holder
                           \/ a.pc = "idle" /\ holder' = "none"
  BY <1>1, <1>2, <1>3, FinishOrThrow
<1>6. LeavesTrace(k) => times[k] > 0
  BY <1>1, <1>2
<1> QED BY <1>1, <1>2, <1>3, <1>4, <1>5, <1>6, ReceiptCommitted

\* A receipt that answers is of a write that reached the note: it is committed,
\* or the slice it would have made is the slice there is.
LEMMA AnsweredWasApplied ==
    ASSUME WorkerInv, NEW k \in Keys, Answered(k), LeavesTrace(k)
    PROVE  times[k] > 0
<1>1. Of[k] \in Slices /\ k # NoKey
  BY WorkerQueueAssumption
<1>2. KeyHolds(k) /\ SliceHolds(Of[k])
  BY <1>1 DEF WorkerInv
<1>3. CASE receipt[k].status = "committed"
  BY <1>2, <1>3 DEF KeyHolds
<1>4. CASE receipt[k].status = "pending" /\ slice[Of[k]] = receipt[k].slice
  BY <1>1, <1>2, <1>4 DEF KeyHolds, SliceHolds
<1> QED BY <1>3, <1>4 DEF Answered

\* A pending receipt is written under a claim that was checked.
LEMMA PendingReceiptKeeps ==
    ASSUME WorkerInv, NEW p \in Procs, NEW k \in Keys, act[p].pc = "sync", act[p].key = k,
           MayApply(k),
           receipt' = [receipt EXCEPT ![k] =
              [status |-> "pending", slice |-> Applied(k), moved |-> FALSE]],
           act' = [act EXCEPT ![p].pc = "persist"], holder' = holder,
           UNCHANGED <<slice, queue, issued, token, accepted, times, torn>>,
           UNCHANGED <<stamped, lapsed, reserved, denied, faults>>
    PROVE  WorkerInv'
<1>1. /\ act[p] \in Step /\ act[p].pc \in Locking /\ holder = p /\ token[k] # 0
      /\ Of[k] \in Slices /\ KeyHolds(k) /\ SliceHolds(Of[k])
      /\ slice \in [Slices -> Slice] /\ receipt \in [Keys -> Receipt \cup {NoReceipt}]
      /\ act \in [Procs -> Step]
  BY ProcessRow, WorkerQueueAssumption DEF Locking, StepHolds, WorkerInv, QueueShape
<1>2. \A q \in Procs : q # p => act[q].pc \notin Locking /\ StepHolds(q)
  BY <1>1, ProcessRow
<1>3. HasClaim(k) /\ Open(k) /\ receipt[k].status # "committed"
  BY <1>1 DEF MayApply, HasClaim, HasReceipt, Open, SliceHolds
<1>4. ~Committing(k)
  BY <1>1, <1>2 DEF Committing, Locking
<1>5. times[k] = 0 \/ k \in torn
  BY <1>1, <1>3, <1>4 DEF KeyHolds, WorkerInv, QueueShape
<1> DEFINE r == [status |-> "pending", slice |-> Applied(k), moved |-> FALSE]
<1>6. /\ r \in Receipt /\ r.status = "pending"
      /\ LeavesTrace(k) => r.slice.evidence = k
  BY <1>1, AppliedRow DEF Receipt
<1>7. receipt' = [receipt EXCEPT ![k] = r]
  OBVIOUS
<1> HIDE DEF r
<1>8. /\ receipt' \in [Keys -> Receipt \cup {NoReceipt}] /\ receipt'[k] = r
      /\ \A j \in Keys : j # k => receipt'[j] = receipt[j]
  BY <1>1, <1>6, <1>7
<1> DEFINE a == [act[p] EXCEPT !.pc = "persist"]
<1>9. a \in Step /\ a.pc = "persist" /\ a.key = k
  BY <1>1 DEF Step, Locking
<1>10. act' = [act EXCEPT ![p] = a]
  BY <1>1
<1> HIDE DEF a
<1>11. act' \in [Procs -> Step] /\ act'[p] = a /\ \A q \in Procs : q # p => act'[q] = act[q]
  BY <1>1, <1>9, <1>10
<1>12. QueueShape'
  BY <1>8, <1>11 DEF WorkerInv, QueueShape
<1>13. LockIsHeld'
  BY <1>1, <1>9, <1>10, LockStands DEF Locking
<1>14. \A q \in Procs : StepHolds(q)'
  <2> SUFFICES ASSUME NEW q \in Procs PROVE StepHolds(q)'
    OBVIOUS
  <2>1. CASE q = p
    BY <1>1, <1>3, <1>5, <1>9, <1>11, <2>1 DEF StepHolds, HasClaim
  <2>2. CASE q # p
    BY <1>2, <1>11, <2>2 DEF StepHolds, Locking
  <2> QED BY <2>1, <2>2
<1>15. KeyHolds(k)'
  <2>1. k \notin torn => times[k] = 0
    BY <1>5
  <2>2. times[k] \in Nat
    BY DEF WorkerInv, QueueShape
  <2>3. receipt'[k].status = "pending" /\ (LeavesTrace(k) => receipt'[k].slice.evidence = k)
    BY <1>6, <1>8
  <2>4. Open(k)' /\ (IsQueued(k)' <=> IsQueued(k))
    BY <1>3 DEF Open, Terminal, IsQueued
  <2>5. k \in accepted => IsQueued(k)
    BY <1>1, <1>3 DEF KeyHolds
  <2> QED BY <1>1, <2>1, <2>2, <2>3, <2>4, <2>5 DEF KeyHolds, LeavesTrace
<1>16. ASSUME NEW j \in Keys, j # k PROVE KeyHolds(j)'
  <2>1. KeyHolds(j) /\ (Open(j)' <=> Open(j))
    BY DEF WorkerInv, Open, Terminal
  <2>2. Committing(j) => Committing(j)'
    BY <1>11, <1>16 DEF Committing
  <2> QED BY <1>8, <1>16, <2>1, <2>2 DEF KeyHolds, IsQueued
<1> QED BY <1>12, <1>13, <1>14, <1>15, <1>16, SlicesStand, TicketsStand DEF WorkerInv

\* Begin: answered by the receipt, on to the note, or thrown out.
LEMMA BeginKeeps == ASSUME WorkerInv, NEW p \in Procs, Begin(p) PROVE WorkerInv'
<1>1. /\ act[p].pc = "sync" /\ act[p].pc \in Locking /\ holder = p /\ act[p].key \in Keys
      /\ Idle \in Step
  BY ProcessRow DEF Begin, Locking, StepHolds
<1>2. PICK k \in Keys : act[p].key = k
  BY <1>1
<1>3. /\ UNCHANGED <<slice, queue, issued, token, accepted, times, torn>>
      /\ UNCHANGED <<stamped, lapsed, reserved, faults>>
  BY DEF Begin, NoFault
<1>4. CASE /\ Answered(k) /\ (Finish(p) \/ Throw(p)) /\ UNCHANGED denied
           /\ receipt' = [receipt EXCEPT ![k].status = "committed"]
  <2>1. PICK a \in Step : /\ act' = [act EXCEPT ![p] = a]
                          /\ \/ a.pc = "remove" /\ a.key = k /\ holder' = holder
                             \/ a.pc = "idle" /\ holder' = "none"
    BY <1>1, <1>2, <1>4, FinishOrThrow
  <2>2. LeavesTrace(k) => times[k] > 0
    BY <1>4, AnsweredWasApplied
  <2>3. faults' \in 0..MaxFaults
    BY <1>3 DEF WorkerInv, QueueShape
  <2> QED BY <1>1, <1>2, <1>3, <1>4, <2>1, <2>2, <2>3, ReceiptCommitted
<1>5. CASE /\ MayApply(k) /\ act' = [act EXCEPT ![p].pc = "persist"]
           /\ UNCHANGED <<holder, denied>>
           /\ receipt' = [receipt EXCEPT ![k] =
                [status |-> "pending", slice |-> Applied(k), moved |-> FALSE]]
  BY <1>1, <1>2, <1>3, <1>5, PendingReceiptKeeps
<1>6. CASE Throw(p) /\ UNCHANGED receipt /\ denied' \in {denied, denied \cup {k}}
  <2>1. act' = [act EXCEPT ![p] = Idle] /\ holder' = "none" /\ Idle.pc = "idle"
    BY <1>6 DEF Throw, Idle
  <2>2. act' \in [Procs -> Step] /\ denied' \subseteq Keys
    BY <1>1, <1>6, <2>1 DEF WorkerInv, QueueShape
  <2>3. QueueShape'
    BY <1>3, <1>6, <2>2 DEF WorkerInv, QueueShape
  <2> QED BY <1>1, <1>3, <1>6, <2>1, <2>3, GivesUp
<1> QED BY <1>2, <1>4, <1>5, <1>6 DEF Begin

\* The write reaches the note under the claim that was checked: its key had not,
\* or its process had died before it could say so.
LEMMA NoteWritten ==
    ASSUME WorkerInv, NEW p \in Procs, NEW k \in Keys,
           act[p].pc = "persist", act[p].key = k,
           NEW r \in [Keys -> Receipt \cup {NoReceipt}],
           \A j \in Keys : j # k => r[j] = receipt[j],
           WriteNote(k, r),
           UNCHANGED <<queue, issued, token, accepted, torn>>,
           UNCHANGED <<stamped, reserved, denied>>, faults' \in 0..MaxFaults,
           NEW a \in Step, act' = [act EXCEPT ![p] = a],
           \/ a.pc = "commit" /\ a.key = k /\ holder' = holder /\ r = receipt
           \/ a.pc = "idle" /\ holder' = "none" /\ r[k].status = "committed"
    PROVE  WorkerInv'
<1>1. /\ act[p].pc \in Locking /\ holder = p /\ StepHolds(p) /\ token[k] # 0
      /\ Of[k] \in Slices /\ KeyHolds(k) /\ SliceHolds(Of[k]) /\ k # NoKey
      /\ slice \in [Slices -> Slice] /\ receipt \in [Keys -> Receipt \cup {NoReceipt}]
      /\ act \in [Procs -> Step] /\ times \in [Keys -> Nat]
  BY ProcessRow, WorkerQueueAssumption DEF Locking, StepHolds, WorkerInv, QueueShape
<1>2. \A q \in Procs : q # p => act[q].pc \notin Locking /\ StepHolds(q)
  BY <1>1, ProcessRow
<1>3. HasClaim(k) /\ (times[k] = 0 \/ k \in torn) /\ ~Terminal(Of[k]) /\ Open(k)
  BY <1>1 DEF StepHolds, HasClaim, SliceHolds, Open
<1>4. /\ Applied(k) \in Slice /\ Applied(k).gen = slice[Of[k]].gen
      /\ Applied(k).evidence = IF LeavesTrace(k) THEN k ELSE slice[Of[k]].evidence
      /\ Applied(k).status \in {"done", "superseded"} => ~Applied(k).claimed
  BY <1>1, <1>3, AppliedRow DEF Terminal
<1>5. /\ slice' \in [Slices -> Slice] /\ slice'[Of[k]] = Applied(k)
      /\ \A s \in Slices : /\ s # Of[k] => slice'[s] = slice[s]
                           /\ slice'[s].gen = slice[s].gen
  BY <1>1, <1>4 DEF WriteNote
<1>6. /\ times' \in [Keys -> Nat] /\ times'[k] = times[k] + 1 /\ times'[k] > 0
      /\ \A j \in Keys : j # k => times'[j] = times[j]
  BY <1>1 DEF WriteNote
<1>7. /\ receipt' \in [Keys -> Receipt \cup {NoReceipt}]
      /\ \A j \in Keys : /\ receipt'[j].status = r[j].status
                         /\ receipt'[j].slice = r[j].slice
                         /\ r[j] = NoReceipt => receipt'[j] = NoReceipt
  <2>1. Moved(r) \in [Keys -> Receipt \cup {NoReceipt}]
        /\ \A j \in Keys : /\ Moved(r)[j].status = r[j].status
                           /\ Moved(r)[j].slice = r[j].slice
                           /\ r[j] = NoReceipt => Moved(r)[j] = NoReceipt
    BY MovedRow DEF Moved
  <2> QED BY <2>1 DEF WriteNote
<1>8. /\ act' \in [Procs -> Step] /\ act'[p] = a
      /\ \A q \in Procs : q # p => act'[q] = act[q]
  BY <1>1
<1>9. lapsed' \subseteq Slices
  BY DEF WriteNote, WorkerInv, QueueShape
<1>10. QueueShape'
  BY <1>5, <1>6, <1>7, <1>8, <1>9 DEF WorkerInv, QueueShape
<1>11. LockIsHeld'
  BY <1>1, LockStands, LockIsLeft DEF Locking
<1>12. \A j \in Keys : Of[j] \in Slices
  BY WorkerQueueAssumption
<1>13. TicketsHold'
  <2>1. \A i \in DOMAIN queue : slice'[Of[queue[i].key]].gen = slice[Of[queue[i].key]].gen
    <3> SUFFICES ASSUME NEW i \in DOMAIN queue
                 PROVE  slice'[Of[queue[i].key]].gen = slice[Of[queue[i].key]].gen
      OBVIOUS
    <3>1. queue[i] \in Ticket
      BY DEF WorkerInv, TicketsHold
    <3>2. Of[queue[i].key] \in Slices
      BY <1>12, <3>1 DEF Ticket
    <3> QED BY <1>5, <3>2
  <2> QED BY <2>1 DEF WorkerInv, TicketsHold
<1>14. \A s \in Slices : SliceHolds(s)'
  <2> SUFFICES ASSUME NEW s \in Slices PROVE SliceHolds(s)'
    OBVIOUS
  <2>1. SliceHolds(s) /\ slice[s] \in Slice
    BY <1>1 DEF WorkerInv
  <2>2. \A j \in Keys : times[j] > 0 => times'[j] > 0
    BY <1>6
  <2>3. slice[s].evidence # NoKey => times'[slice[s].evidence] > 0
    <3>1. slice[s].evidence \in Keys \cup {NoKey}
      BY <2>1 DEF Slice
    <3> QED BY <2>1, <2>2, <3>1 DEF SliceHolds
  <2>4. CASE s # Of[k]
    BY <1>5, <2>1, <2>3, <2>4 DEF SliceHolds, Terminal
  <2>5. CASE s = Of[k]
    <3>1. slice'[s].evidence # NoKey => times'[slice'[s].evidence] > 0
      BY <1>4, <1>5, <1>6, <2>3, <2>5
    <3>2. Terminal(s)' => ~slice'[s].claimed
      BY <1>4, <1>5, <2>5 DEF Terminal
    <3> QED BY <1>5, <2>1, <3>1, <3>2 DEF SliceHolds
  <2> QED BY <2>4, <2>5
<1>15. \A q \in Procs : StepHolds(q)'
  <2> SUFFICES ASSUME NEW q \in Procs PROVE StepHolds(q)'
    OBVIOUS
  <2>1. CASE q = p
    BY <1>1, <1>6, <1>8, <2>1 DEF StepHolds
  <2>2. CASE q # p
    <3>1. StepHolds(q) /\ act[q].pc \notin Locking /\ act'[q] = act[q]
      BY <1>2, <1>8, <2>2
    <3>2. CASE act[q].pc # "idle"
      <4>1. slice'[Of[act[q].key]].gen = slice[Of[act[q].key]].gen
        BY <1>5, <1>12, <3>1, <3>2 DEF StepHolds
      <4> QED BY <3>1, <4>1 DEF StepHolds, Locking
    <3>3. CASE act[q].pc = "idle"
      BY <3>1, <3>3 DEF StepHolds
    <3> QED BY <3>2, <3>3
  <2> QED BY <2>1, <2>2
<1>16. KeyHolds(k)'
  <2>1. /\ times'[k] > 0 /\ (k \notin torn => times'[k] <= 1)
        /\ token[k] <= slice'[Of[k]].gen
    BY <1>1, <1>3, <1>5, <1>6 DEF KeyHolds
  <2>2. CASE a.pc = "commit" /\ a.key = k /\ r = receipt
    <3>1. Committing(k)'
      BY <1>8, <2>2 DEF Committing
    <3>2. receipt'[k].status = receipt[k].status /\ receipt'[k].slice = receipt[k].slice
      BY <1>7, <2>2
    <3>3. k \in accepted => IsQueued(k)' \/ receipt'[k].status = "committed"
      BY <1>1, <1>3, <3>2 DEF KeyHolds, IsQueued
    <3> QED BY <1>1, <2>1, <3>1, <3>2, <3>3 DEF KeyHolds, LeavesTrace
  <2>3. CASE r[k].status = "committed"
    <3>1. receipt'[k].status = "committed"
      BY <1>7, <2>3
    <3> QED BY <1>1, <2>1, <3>1 DEF KeyHolds, LeavesTrace
  <2> QED BY <2>2, <2>3
<1>17. ASSUME NEW j \in Keys, j # k PROVE KeyHolds(j)'
  <2>1. KeyHolds(j) /\ ~Committing(j)
    BY <1>2, <1>1 DEF WorkerInv, Committing, Locking
  <2>2. Open(j)' => Open(j)
    BY <1>3, <1>5, <1>12 DEF Open, Terminal
  <2>3. /\ receipt'[j].status = receipt[j].status /\ receipt'[j].slice = receipt[j].slice
        /\ receipt[j] = NoReceipt => receipt'[j] = NoReceipt
    BY <1>7, <1>17
  <2>4. times'[j] = times[j] /\ slice'[Of[j]].gen = slice[Of[j]].gen
    BY <1>5, <1>6, <1>12, <1>17
  <2> QED BY <2>1, <2>2, <2>3, <2>4 DEF KeyHolds, IsQueued, LeavesTrace
<1> QED BY <1>10, <1>11, <1>13, <1>14, <1>15, <1>16, <1>17 DEF WorkerInv

\* Persist.
LEMMA PersistKeeps == ASSUME WorkerInv, NEW p \in Procs, Persist(p) PROVE WorkerInv'
<1>1. /\ act[p].pc = "persist" /\ act[p] \in Step /\ act[p].key \in Keys
      /\ receipt \in [Keys -> Receipt \cup {NoReceipt}]
  BY ProcessRow DEF Persist, StepHolds, WorkerInv, QueueShape
<1>2. PICK k \in Keys : act[p].key = k
  BY <1>1
<1>3. /\ WriteNote(k, receipt) /\ act' = [act EXCEPT ![p].pc = "commit"] /\ holder' = holder
      /\ UNCHANGED <<queue, issued, token, accepted, torn>>
      /\ UNCHANGED <<stamped, reserved, denied, faults>>
  BY <1>2 DEF Persist, NoFault
<1> DEFINE a == [act[p] EXCEPT !.pc = "commit"]
<1>4. a \in Step /\ a.pc = "commit" /\ a.key = k
  BY <1>1, <1>2 DEF Step, Locking
<1>5. act' = [act EXCEPT ![p] = a] /\ faults' \in 0..MaxFaults
  BY <1>3 DEF WorkerInv, QueueShape
<1> HIDE DEF a
<1> QED BY <1>1, <1>2, <1>3, <1>4, <1>5, NoteWritten

\* PlanHistoryAppendError: the receipt is committed though the caller is told of
\* a failure.
LEMMA PersistHistoryFailsKeeps ==
    ASSUME WorkerInv, NEW p \in Procs, PersistHistoryFails(p) PROVE WorkerInv'
<1>1. /\ act[p].pc = "persist" /\ act[p].key \in Keys /\ Idle \in Step /\ Idle.pc = "idle"
      /\ receipt \in [Keys -> Receipt \cup {NoReceipt}]
  BY ProcessRow DEF PersistHistoryFails, StepHolds, WorkerInv, QueueShape, Idle
<1>2. PICK k \in Keys : act[p].key = k
  BY <1>1
<1> DEFINE r == [receipt EXCEPT ![k].status = "committed"]
<1>3. /\ WriteNote(k, r) /\ act' = [act EXCEPT ![p] = Idle] /\ holder' = "none"
      /\ UNCHANGED <<queue, issued, token, accepted, torn>>
      /\ UNCHANGED <<stamped, reserved, denied>> /\ Fault
  BY <1>2 DEF PersistHistoryFails, Throw
<1>4. faults' \in 0..MaxFaults
  BY <1>3, WorkerQueueAssumption DEF WorkerInv, QueueShape, Fault
<1>5. /\ r \in [Keys -> Receipt \cup {NoReceipt}] /\ r[k].status = "committed"
      /\ \A j \in Keys : j # k => r[j] = receipt[j]
  <2>1. [receipt[k] EXCEPT !.status = "committed"] \in Receipt
        /\ [receipt[k] EXCEPT !.status = "committed"].status = "committed"
    BY <1>1, CommittedRow
  <2>2. r = [receipt EXCEPT ![k] = [receipt[k] EXCEPT !.status = "committed"]]
    BY <1>1
  <2> QED BY <1>1, <2>1, <2>2
<1> HIDE DEF r
<1> QED BY <1>1, <1>2, <1>3, <1>4, <1>5, NoteWritten

-----------------------------------------------------------------------------
(* Theorems *)

LEMMA WorkerInit == Init => WorkerInv
<1> SUFFICES ASSUME Init PROVE WorkerInv
  OBVIOUS
<1>1. NewSlice \in Slice /\ 1 \in Gens /\ Idle \in Step /\ NoReceipt.status = "none"
  BY WorkerQueueAssumption DEF NewSlice, Slice, Gens, Idle, Step, NoReceipt
<1>2. QueueShape
  <2>1. 0 \in 0..MaxGen /\ 0 \in 0..MaxFaults
    BY WorkerQueueAssumption
  <2> QED BY <1>1, <2>1 DEF Init, QueueShape
<1>3. LockIsHeld
  BY WorkerQueueAssumption DEF Init, LockIsHeld, Idle, Locking, Procs
<1>4. TicketsHold
  <2>1. queue \in Seq(Ticket) /\ Len(queue) = 0 /\ DOMAIN queue = {}
    BY DEF Init
  <2> QED BY <2>1, WorkerQueueAssumption DEF TicketsHold
<1>5. ASSUME NEW s \in Slices PROVE SliceHolds(s)
  BY DEF Init, SliceHolds, NewSlice, Terminal
<1>6. ASSUME NEW p \in Procs PROVE StepHolds(p)
  BY DEF Init, StepHolds, Idle
<1>7. ASSUME NEW k \in Keys PROVE KeyHolds(k)
  <2>1. Of[k] \in Slices
    BY WorkerQueueAssumption
  <2>2. /\ token[k] = 0 /\ times[k] = 0 /\ receipt[k] = NoReceipt /\ k \notin accepted
        /\ slice[Of[k]].gen = 1
    BY <2>1 DEF Init, NewSlice
  <2> QED BY <1>1, <2>2 DEF KeyHolds
<1> QED BY <1>2, <1>3, <1>4, <1>5, <1>6, <1>7 DEF WorkerInv

LEMMA StutterKeeps == ASSUME WorkerInv, UNCHANGED vars PROVE WorkerInv'
<1>1. UNCHANGED <<slice, receipt, queue, issued, token, accepted, times, torn>>
      /\ UNCHANGED <<stamped, lapsed, reserved, holder, act, faults, denied>>
  BY DEF vars, durable, history
<1>2. QueueShape' /\ LockIsHeld'
  BY <1>1 DEF WorkerInv, QueueShape, LockIsHeld
<1>3. \A p \in Procs : StepHolds(p)'
  BY <1>1 DEF WorkerInv, StepHolds, HasClaim
<1>4. ASSUME NEW k \in Keys PROVE KeyHolds(k)'
  <2>1. KeyHolds(k) /\ (Open(k)' <=> Open(k)) /\ (Committing(k)' <=> Committing(k))
    BY <1>1 DEF WorkerInv, Open, Terminal, Committing
  <2> QED BY <1>1, <2>1 DEF KeyHolds, IsQueued
<1> QED BY <1>1, <1>2, <1>3, <1>4, SlicesStand, TicketsStand DEF WorkerInv

LEMMA WorkerStep == WorkerInv /\ [Next]_vars => WorkerInv'
<1> SUFFICES ASSUME WorkerInv, [Next]_vars PROVE WorkerInv'
  OBVIOUS
<1>1. ASSUME NEW p \in Callers,
             (\E k \in Keys : Call(p, k)) \/ Gate(p) \/ Refuse(p) \/ Enqueue(p) \/ Link(p)
      PROVE  WorkerInv'
  BY <1>1, CallKeeps, GateKeeps, RefuseKeeps, EnqueueKeeps, LinkKeeps
<1>2. ASSUME NEW p \in Procs, Apply(p) PROVE WorkerInv'
  BY <1>2, EnterKeeps, SyncExpiredKeeps, BeginKeeps, PersistKeeps, CommitKeeps DEF Apply
<1>3. ASSUME NEW p \in Procs,
             PersistFails(p) \/ PersistHistoryFails(p) \/ JournalFails(p) \/ Crash(p)
      PROVE  WorkerInv'
  BY <1>3, PersistFailsKeeps, PersistHistoryFailsKeeps, CommitKeeps, CrashKeeps
<1>4. ASSUME NEW d \in Drains, DrainDrop(d) \/ DrainTake(d) \/ Remove(d) PROVE WorkerInv'
  BY <1>4, DrainDropKeeps, DrainTakeKeeps, RemoveKeeps
<1>5. ASSUME NEW s \in Slices,
             Claim(s) \/ Reassign(s) \/ Lapse(s) \/ Expire(s) \/ Supersede(s)
      PROVE  WorkerInv'
  BY <1>5, ClaimKeeps, FreeAdvanceKeeps, WorldKeeps
<1>6. CASE Reserve \/ ReplanEnds \/ ReplanDies
  BY <1>6, WorldKeeps
<1>7. CASE UNCHANGED vars
  BY <1>7, StutterKeeps
<1> QED BY <1>1, <1>2, <1>3, <1>4, <1>5, <1>6, <1>7 DEF Next

\* Only the two endings of persistPlan count a write.
LEMMA ClaimWrites ==
    ASSUME WorkerInv, [Next]_vars, NEW k \in Keys, times'[k] # times[k]
    PROVE  slice[Of[k]].claimed /\ token[k] = slice[Of[k]].gen
<1> SUFFICES ASSUME NEW p \in Procs, Persist(p) \/ PersistHistoryFails(p)
             PROVE  slice[Of[k]].claimed /\ token[k] = slice[Of[k]].gen
  <2>1. \/ UNCHANGED times
        \/ \E p \in Procs : Persist(p) \/ PersistHistoryFails(p)
    BY DEF Next, Apply, Call, Gate, Refuse, Enqueue, Link, Enter, SyncExpired, Begin, Commit,
           PersistFails, JournalFails, Crash, DrainDrop, DrainTake, Remove, Claim, Reassign,
           Lapse, Expire, Supersede, Reserve, ReplanEnds, ReplanDies, vars, history
  <2> QED BY <2>1
<1>1. act[p].pc = "persist" /\ HasClaim(act[p].key)
  BY ProcessRow DEF Persist, PersistHistoryFails, StepHolds
<1>2. times' = [times EXCEPT ![act[p].key] = @ + 1]
  BY DEF Persist, PersistHistoryFails, WriteNote
<1>3. k = act[p].key
  BY <1>2 DEF WorkerInv, QueueShape
<1> QED BY <1>1, <1>3 DEF HasClaim

\* QueueIsSound (enqueueWorkerWrite, applyClaimedSliceOnLockedPlan, drainWorkerWrites):
\* a write answered "accepted" stays queued until it is applied while its claim can
\* live; a committed receipt of a write that leaves a trace is of one that reached
\* the note; and it reached it once unless its process died in between.
THEOREM AnswersStayTrue == Spec => []QueueIsSound
<1>1. WorkerInv => QueueIsSound
  <2> SUFFICES ASSUME WorkerInv PROVE QueueIsSound
    OBVIOUS
  <2>1. QueueShape /\ LockIsHeld /\ TicketsHold
    BY DEF WorkerInv
  <2>2. TypeOK
    BY <2>1 DEF QueueShape, LockIsHeld, TicketsHold, Locking, TypeOK
  <2>3. AcceptedIsNotLost
    BY DEF AcceptedIsNotLost, WorkerInv, QueueShape, KeyHolds, Open
  <2>4. CommittedWasApplied
    BY DEF CommittedWasApplied, WorkerInv, KeyHolds, LeavesTrace
  <2>5. AppliedTwiceOnlyIfTorn
    BY DEF AppliedTwiceOnlyIfTorn, WorkerInv, KeyHolds
  <2> QED BY <2>2, <2>3, <2>4, <2>5 DEF QueueIsSound, AnswersAreTrue
<1> QED BY WorkerInit, WorkerStep, <1>1, PTL DEF Spec

\* OnlyTheClaimWrites (verifyClaimToken under the plan's lock): a write reaches the
\* note only while the claim its token was issued for lives, whatever reassignments,
\* expiries, replans and deaths come between the check and the write.
THEOREM OnlyClaimsWrite == Spec => OnlyTheClaimWrites
<1>1. WorkerInv /\ [Next]_vars =>
         [\A k \in Keys : times'[k] # times[k] =>
             slice[Of[k]].claimed /\ token[k] = slice[Of[k]].gen]_vars
  BY ClaimWrites
<1> QED BY WorkerInit, WorkerStep, <1>1, PTL DEF Spec, OnlyTheClaimWrites
=============================================================================
