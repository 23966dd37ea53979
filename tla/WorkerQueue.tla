------------------------------ MODULE WorkerQueue ------------------------------
(***************************************************************************)
(* Worker writes to the slices of one plan (thread-worker.ts,              *)
(* thread-write-queue.ts). A worker that holds the claim of a slice sends  *)
(* start, progress, block, scar and complete, each under an idempotency    *)
(* key and with the token of its claim. A call applies its write under the *)
(* plan's lock, or puts it on the plan's queue when the lock is taken or a *)
(* replan is announced; drains apply the queue later. Assignment, expiry   *)
(* and replan advance the generation of a slice, which ends its claim.     *)
(* The lock itself is the subject of ThreadLock: here it is a variable,    *)
(* and a process that dies gives it up. A slice has one worker and one     *)
(* claim in every generation, so a token is the generation it was issued   *)
(* in; dependencies between slices are left out.                           *)
(***************************************************************************)
EXTENDS Naturals, Sequences

CONSTANTS
    Slices,
    Keys,      \* idempotency keys, each used for one write
    Act,       \* Act[k]: what the write of key k asks for
    Of,        \* Of[k]: the slice it is for
    Callers,   \* processes of the worker's calls
    Drains,    \* processes that drain the queue
    NoKey,
    QueueMax,  \* DEFAULT_QUEUE_MAX
    MaxGen,    \* generations of a slice
    MaxFaults  \* crashes and failed writes

ASSUME WorkerQueueAssumption ==
    /\ Act \in [Keys -> {"start", "progress", "block", "scar", "complete"}]
    /\ Of \in [Keys -> Slices]
    /\ Callers \cap Drains = {} /\ "none" \notin Callers \cup Drains /\ NoKey \notin Keys
    /\ {QueueMax, MaxGen} \subseteq Nat \ {0} /\ MaxFaults \in Nat

Procs == Callers \cup Drains
Gens == 1..MaxGen

\* status, generation, whether it is claimed, and the write whose evidence it has.
Slice == [status : {"pending", "in_progress", "blocked", "done", "superseded"},
          gen : Gens, claimed : BOOLEAN, evidence : Keys \cup {NoKey}]
NewSlice == [status |-> "pending", gen |-> 1, claimed |-> FALSE, evidence |-> NoKey]

\* A worker-update receipt: the slice it answers with, and whether the plan's
\* revision has reached the one it was written for.
Receipt == [status : {"pending", "committed"}, slice : Slice, moved : BOOLEAN]
NoReceipt == [status |-> "none", slice |-> NewSlice, moved |-> FALSE]

Ticket == [key : Keys, gen : Gens]
Idle == [pc |-> "idle", key |-> NoKey, gen |-> 1, owed |-> FALSE]

VARIABLES
    slice,     \* the plan note
    receipt,   \* receipt[k], of the generation of k's token
    stamped,   \* slices with a start_accepted receipt in their generation
    queue,     \* tickets, oldest first
    lapsed,    \* slices whose claim is past its expires_at
    reserved,  \* the exclusive-replan reservation and its owner's state
    holder,    \* who holds the plan's lock
    act,       \* the process's step
    faults,
    \* History:
    issued,    \* issued[s]: generations of s that were claimed
    token,     \* token[k]: the token of the key's write, 0 before it is sent
    accepted,  \* keys answered "accepted"
    times,     \* times[k]: how often the write of k reached the note
    torn,      \* keys whose process died between the note and the receipt
    denied     \* completions refused to an exact retry

durable == <<slice, receipt, stamped, queue>>
history == <<issued, token, accepted, times, torn, denied>>
vars == <<durable, lapsed, reserved, holder, act, faults, history>>

-----------------------------------------------------------------------------
Fault == faults < MaxFaults /\ faults' = faults + 1
NoFault == UNCHANGED faults

Terminal(s) == slice[s].status \in {"done", "superseded"}

\* Mutant: the owner of the reservation is not looked at.
ReservationExists == reserved # "none"

\* exclusiveReplanReservationIsLive: the reservation of a dead process is none.
ReservationIsLive == reserved = "live"

IsQueued(k) == \E i \in DOMAIN queue : queue[i].key = k
\* The queue without the ticket of k.
Without(k) ==
    LET at == CHOOSE i \in DOMAIN queue : queue[i].key = k
    IN  IF IsQueued(k)
        THEN [i \in 1..Len(queue) - 1 |-> queue[IF i < at THEN i ELSE i + 1]]
        ELSE queue

\* A start of s, of its generation, is on the queue.
StartQueued(s) == \E i \in DOMAIN queue :
    LET t == queue[i] IN
    Of[t.key] = s /\ Act[t.key] = "start" /\ t.gen = slice[s].gen

\* queuedWriteIsLiveWork: the slice is open and in the ticket's generation.
IsLiveWork(t) == ~Terminal(Of[t.key]) /\ t.gen = slice[Of[t.key]].gen

\* pickNextQueuedWorkerWrite: the oldest ticket, a completion after the starts
\* of its slice.
Held(t) == /\ Act[t.key] = "complete"
           /\ \E i \in DOMAIN queue : /\ Of[queue[i].key] = Of[t.key]
                                      /\ Act[queue[i].key] = "start"
NextTicket ==
    LET free == {i \in DOMAIN queue : ~Held(queue[i])}
    IN  queue[IF free = {} THEN 1 ELSE CHOOSE i \in free : \A j \in free : i <= j]

\* pruneSliceReceiptsOnGenerationAdvance: the receipts of one generation.
Pruned(r, s, g) ==
    [k \in Keys |-> IF Of[k] = s /\ token[k] = g THEN NoReceipt ELSE r[k]]

\* The plan is persisted: its revision reaches that of every receipt.
Moved(r) == [k \in Keys |-> [r[k] EXCEPT !.moved = r[k].status # "none"]]

\* The claim of s ends and its generation advances.
Advance(s, status) ==
    /\ slice[s].gen < MaxGen
    /\ slice' = [slice EXCEPT ![s].gen = @ + 1, ![s].claimed = FALSE,
                              ![s].status = status]
    /\ receipt' = Pruned(Moved(receipt), s, slice[s].gen)
    /\ stamped' = stamped \ {s}
    /\ lapsed' = lapsed \ {s}

\* applyWorkerAction on the slice of k; a completion gives up the claim.
Applied(k) ==
    LET before == slice[Of[k]] IN
    CASE Act[k] = "start"    -> [before EXCEPT !.status = "in_progress"]
      [] Act[k] = "progress" -> [before EXCEPT !.status = "in_progress", !.evidence = k]
      [] Act[k] = "block"    -> [before EXCEPT !.status = "blocked", !.evidence = k]
      [] Act[k] = "complete" -> [before EXCEPT !.status = "done", !.evidence = k,
                                               !.claimed = FALSE]
      [] OTHER               -> before

\* Mutant: the receipt is looked up under the generation before.
HasStaleReceipt(k) ==
    receipt[k].status # "none" /\ token[k] = slice[Of[k]].gen - 1

\* The receipt of k in the slice's generation.
HasReceipt(k) == receipt[k].status # "none" /\ token[k] = slice[Of[k]].gen

\* A committed receipt answers a retry (committedReceiptAuthoritative), as does
\* a pending one that the note bears out.
Answered(k) ==
    /\ HasReceipt(k)
    /\ \/ /\ receipt[k].status = "committed"
          /\ slice[Of[k]].claimed \/ slice[Of[k]] = receipt[k].slice
       \/ /\ receipt[k].status = "pending"
          /\ receipt[k].moved /\ slice[Of[k]] = receipt[k].slice

\* Mutant: any live claim will do.
HasAnyClaim(k) == slice[Of[k]].claimed

\* verifyClaimToken: the token is the live claim's.
HasClaim(k) == slice[Of[k]].claimed /\ token[k] = slice[Of[k]].gen

\* A completion waits for a start that was accepted, and needs one.
MayComplete(k) ==
    \/ Act[k] # "complete"
    \/ slice[Of[k]].status = "in_progress"
    \/ /\ slice[Of[k]].status # "pending"
       /\ ~StartQueued(Of[k])
       /\ ~(Of[k] \in stamped /\ slice[Of[k]].claimed)

\* The write of k can be applied.
MayApply(k) ==
    /\ ~(HasReceipt(k) /\ receipt[k].status = "committed")
    /\ HasClaim(k) /\ MayComplete(k)

-----------------------------------------------------------------------------
(* updateClaimedSlice *)

\* stampAcceptedStart: the receipt of a start that waits on the queue. It
\* replaces an earlier one, and has no effect while the slice is in progress.
Stamp(s) == stamped' = IF Terminal(s) THEN stamped
                       ELSE IF slice[s].status = "in_progress" THEN stamped \ {s}
                       ELSE stamped \cup {s}

\* A call, new or repeated: its key may be on the queue already.
Call(p, k) ==
    /\ act[p].pc = "idle"
    /\ \/ token[k] # 0 /\ UNCHANGED token
       \/ /\ token[k] = 0
          /\ \E g \in issued[Of[k]] : token' = [token EXCEPT ![k] = g]
    /\ \/ /\ IsQueued(k)
          /\ \/ /\ Act[k] = "start" /\ slice[Of[k]].claimed
                /\ \E i \in DOMAIN queue : queue[i].key = k /\ IsLiveWork(queue[i])
                /\ Stamp(Of[k]) /\ accepted' = accepted \cup {k}
             \/ /\ Act[k] = "start" => \A i \in DOMAIN queue :
                       queue[i].key = k => ~IsLiveWork(queue[i])
                /\ accepted' = accepted \cup {k} /\ UNCHANGED stamped
          /\ UNCHANGED act
       \/ /\ ~IsQueued(k)
          /\ act' = [act EXCEPT ![p] =
                [pc |-> IF Act[k] = "complete" /\ StartQueued(Of[k])
                        THEN "enqueue" ELSE "gate",
                 key |-> k, gen |-> 1,
                 owed |-> /\ token'[k] = slice[Of[k]].gen /\ Act[k] = "complete"
                          /\ slice[Of[k]].status = "done"
                          /\ slice[Of[k]].evidence = k]]
          /\ UNCHANGED <<accepted, stamped>>
    /\ UNCHANGED <<slice, receipt, queue, lapsed, reserved, holder, issued, times, torn,
                   denied>>
    /\ NoFault

\* The reservation is looked at and the lock tried once (waitMs 0).
Gate(p) ==
    /\ act[p].pc = "gate"
    /\ \/ /\ ReservationIsLive \/ holder # "none"
          /\ act' = [act EXCEPT ![p].pc = "refuse"]
          /\ UNCHANGED holder
       \/ /\ ~ReservationIsLive /\ holder = "none"
          /\ act' = [act EXCEPT ![p].pc = "apply"]
          /\ holder' = p
    /\ UNCHANGED <<durable, lapsed, reserved, history>>
    /\ NoFault

\* refuseCompleteUntilStartApplied. A done slice passes: its retry is queued.
Refuse(p) ==
    LET k == act[p].key IN
    /\ act[p].pc = "refuse"
    /\ act' = [act EXCEPT ![p] =
          IF /\ MayComplete(k)
             /\ Act[k] = "complete" => slice[Of[k]].status # "superseded"
          THEN [@ EXCEPT !.pc = "enqueue"] ELSE Idle]
    /\ UNCHANGED <<durable, lapsed, reserved, holder, history>>
    /\ NoFault

\* enqueueAcceptedWorkerWrite: the generation is read, a start is stamped.
Enqueue(p) ==
    LET k == act[p].key
        live == ~Terminal(Of[k])
    IN
    /\ act[p].pc = "enqueue"
    /\ IF Act[k] = "start" /\ live /\ ~slice[Of[k]].claimed
       THEN act' = [act EXCEPT ![p] = Idle] /\ UNCHANGED stamped
       ELSE /\ act' = [act EXCEPT ![p].pc = "link", ![p].gen = slice[Of[k]].gen]
            /\ IF Act[k] = "start" THEN Stamp(Of[k]) ELSE UNCHANGED stamped
    /\ UNCHANGED <<slice, receipt, queue, lapsed, reserved, holder, history>>
    /\ NoFault

\* Mutant: the ticket does not carry the key's name.
LinkAgain(p) ==
    LET k == act[p].key IN
    /\ act[p].pc = "link"
    /\ queue' = Append(queue, [key |-> k, gen |-> act[p].gen])
    /\ accepted' = accepted \cup {k}
    /\ act' = [act EXCEPT ![p] = Idle]
    /\ UNCHANGED <<slice, receipt, stamped, lapsed, reserved, holder, issued, token,
                   times, torn, denied>>
    /\ NoFault

\* enqueueWorkerWrite: the ticket is linked under its key, unless the key has
\* one or the queue is full.
Link(p) ==
    LET k == act[p].key IN
    /\ act[p].pc = "link"
    /\ \/ /\ ~IsQueued(k) /\ Len(queue) < QueueMax
          /\ queue' = Append(queue, [key |-> k, gen |-> act[p].gen])
          /\ accepted' = accepted \cup {k}
       \/ /\ IsQueued(k)
          /\ accepted' = accepted \cup {k} /\ UNCHANGED queue
       \/ /\ ~IsQueued(k) /\ Len(queue) >= QueueMax
          /\ UNCHANGED <<queue, accepted>>
    /\ act' = [act EXCEPT ![p] = Idle]
    /\ UNCHANGED <<slice, receipt, stamped, lapsed, reserved, holder, issued, token,
                   times, torn, denied>>
    /\ NoFault

-----------------------------------------------------------------------------
(* applyClaimedSliceOnLockedPlan, by a call or a drain that holds the lock *)

\* The answer is given; a drain has the ticket to remove.
Finish(p) ==
    IF p \in Callers THEN act' = [act EXCEPT ![p] = Idle] /\ holder' = "none"
                     ELSE act' = [act EXCEPT ![p].pc = "remove"] /\ UNCHANGED holder

\* The apply throws: a drain keeps the ticket.
Throw(p) == act' = [act EXCEPT ![p] = Idle] /\ holder' = "none"

\* The reservation again, and a committed receipt, which answers or refuses.
Enter(p) ==
    LET k == act[p].key IN
    /\ act[p].pc = "apply"
    /\ \/ /\ ReservationIsLive
          /\ act' = [act EXCEPT ![p] =
                IF p \in Callers THEN [@ EXCEPT !.pc = "refuse"] ELSE Idle]
          /\ holder' = "none" /\ UNCHANGED denied
       \/ /\ ~ReservationIsLive
          /\ HasReceipt(k) /\ receipt[k].status = "committed"
          /\ IF Answered(k) THEN Finish(p) /\ UNCHANGED denied
                            ELSE /\ Throw(p)
                                 /\ denied' = IF act[p].owed THEN denied \cup {k} ELSE denied
       \/ /\ ~ReservationIsLive
          /\ ~(HasReceipt(k) /\ receipt[k].status = "committed")
          /\ act' = [act EXCEPT ![p].pc = "sync"]
          /\ UNCHANGED <<holder, denied>>
    /\ UNCHANGED <<durable, lapsed, reserved, issued, token, accepted, times, torn>>
    /\ NoFault

\* synchronizeExpiredClaimsForPlan: every lapsed claim of the plan ends first;
\* the write of a slice whose claim did throws.
SyncExpired(p, s) ==
    LET own == s = Of[act[p].key] IN
    /\ act[p].pc = "sync" /\ s \in lapsed
    /\ own => lapsed = {s}
    /\ Advance(s, slice[s].status)
    /\ IF own THEN Throw(p) ELSE UNCHANGED <<act, holder>>
    /\ UNCHANGED <<queue, reserved, history>>
    /\ NoFault

\* A pending receipt that the note bears out is committed and answers; else
\* the claim is checked and a pending receipt is written before the note is.
Begin(p) ==
    LET k == act[p].key IN
    /\ act[p].pc = "sync" /\ lapsed = {}
    /\ \/ /\ Answered(k)
          /\ receipt' = [receipt EXCEPT ![k].status = "committed"]
          /\ Finish(p) /\ UNCHANGED denied
       \/ /\ ~Answered(k) /\ MayApply(k)
          /\ receipt' = [receipt EXCEPT ![k] =
                [status |-> "pending", slice |-> Applied(k), moved |-> FALSE]]
          /\ act' = [act EXCEPT ![p].pc = "persist"]
          /\ UNCHANGED <<holder, denied>>
       \/ /\ ~Answered(k) /\ ~MayApply(k)
          /\ Throw(p) /\ UNCHANGED receipt
          /\ denied' = IF act[p].owed THEN denied \cup {k} ELSE denied
    /\ UNCHANGED <<slice, stamped, queue, lapsed, reserved, issued, token, accepted,
                   times, torn>>
    /\ NoFault

WriteNote(k, r) ==
    /\ slice' = [slice EXCEPT ![Of[k]] = Applied(k)]
    /\ receipt' = Moved(r)
    /\ lapsed' = IF Act[k] = "complete" THEN lapsed \ {Of[k]} ELSE lapsed
    /\ times' = [times EXCEPT ![k] = @ + 1]

Persist(p) ==
    /\ act[p].pc = "persist"
    /\ WriteNote(act[p].key, receipt)
    /\ act' = [act EXCEPT ![p].pc = "commit"]
    /\ UNCHANGED <<stamped, queue, reserved, holder, issued, token, accepted, torn,
                   denied>>
    /\ NoFault

\* Mutant: the ticket goes whatever becomes of the apply.
PersistFailsDropped(p) ==
    /\ act[p].pc = "persist"
    /\ queue' = Without(act[p].key)
    /\ Throw(p)
    /\ UNCHANGED <<slice, receipt, stamped, lapsed, reserved, history>>
    /\ Fault

\* The note is not written: the pending receipt stays.
PersistFails(p) ==
    /\ act[p].pc = "persist"
    /\ Throw(p)
    /\ UNCHANGED <<durable, lapsed, reserved, history>>
    /\ Fault

\* PlanHistoryAppendError: the note is written, the receipt committed, and the
\* caller told of the failure.
PersistHistoryFails(p) ==
    LET k == act[p].key IN
    /\ act[p].pc = "persist"
    /\ WriteNote(k, [receipt EXCEPT ![k].status = "committed"])
    /\ Throw(p)
    /\ UNCHANGED <<stamped, queue, reserved, issued, token, accepted, torn, denied>>
    /\ Fault

\* The receipt is committed and the journal written.
Commit(p) ==
    /\ act[p].pc = "commit"
    /\ receipt' = [receipt EXCEPT ![act[p].key].status = "committed"]
    /\ Finish(p)
    /\ UNCHANGED <<slice, stamped, queue, lapsed, reserved, history>>
    /\ NoFault

\* The receipt is committed and the journal is not written.
JournalFails(p) ==
    /\ act[p].pc = "commit"
    /\ receipt' = [receipt EXCEPT ![act[p].key].status = "committed"]
    /\ Throw(p)
    /\ UNCHANGED <<slice, stamped, queue, lapsed, reserved, history>>
    /\ Fault

\* The process dies; the lock of a dead owner is free.
Crash(p) ==
    /\ act[p].pc # "idle"
    /\ act' = [act EXCEPT ![p] = Idle]
    /\ holder' = IF holder = p THEN "none" ELSE holder
    /\ torn' = IF act[p].pc = "commit" THEN torn \cup {act[p].key} ELSE torn
    /\ UNCHANGED <<durable, lapsed, reserved, issued, token, accepted, times, denied>>
    /\ Fault

-----------------------------------------------------------------------------
(* drainWorkerWrites *)

MayDrain == holder = "none" /\ ~ReservationIsLive /\ queue # <<>>

\* The head is dead: the ticket is dropped, and the receipts of its generation.
DrainDrop(d) ==
    LET t == NextTicket
        s == Of[t.key]
    IN
    /\ MayDrain /\ act[d].pc = "idle" /\ ~IsLiveWork(t)
    /\ queue' = Without(t.key)
    /\ receipt' = Pruned(receipt, s, t.gen)
    /\ stamped' = IF t.gen = slice[s].gen THEN stamped \ {s} ELSE stamped
    /\ UNCHANGED <<slice, lapsed, reserved, holder, act, history>>
    /\ NoFault

\* The head is live: its token is looked up in the claim store
\* (claimTokenFromExistingStore, which throws when the ticket's is another).
DrainTake(d) ==
    LET k == NextTicket.key IN
    /\ MayDrain /\ act[d].pc = "idle" /\ IsLiveWork(NextTicket) /\ HasClaim(k)
    /\ act' = [act EXCEPT ![d] = [Idle EXCEPT !.pc = "apply", !.key = k]]
    /\ holder' = d
    /\ UNCHANGED <<durable, lapsed, reserved, history>>
    /\ NoFault

\* removeQueuedWorkerWrite, after the apply returned.
Remove(d) ==
    /\ act[d].pc = "remove"
    /\ queue' = Without(act[d].key)
    /\ Throw(d)
    /\ UNCHANGED <<slice, receipt, stamped, lapsed, reserved, history>>
    /\ NoFault

-----------------------------------------------------------------------------
(* The coordinator, the clock and replans: each mutation holds the lock *)

\* claimSlice.
Claim(s) ==
    /\ holder = "none" /\ ~Terminal(s) /\ ~slice[s].claimed
    /\ slice' = [slice EXCEPT ![s].claimed = TRUE]
    /\ receipt' = Moved(receipt)
    /\ issued' = [issued EXCEPT ![s] = @ \cup {slice[s].gen}]
    /\ UNCHANGED <<stamped, queue, lapsed, reserved, holder, act, token, accepted,
                   times, torn, denied>>
    /\ NoFault

\* assignSlice of a slice that was assigned before.
Reassign(s) ==
    /\ holder = "none" /\ ~Terminal(s)
    /\ Advance(s, slice[s].status)
    /\ UNCHANGED <<queue, reserved, holder, act, history>>
    /\ NoFault

\* The claim's expires_at passes.
Lapse(s) ==
    /\ slice[s].claimed /\ s \notin lapsed /\ slice[s].gen < MaxGen
    /\ lapsed' = lapsed \cup {s}
    /\ UNCHANGED <<durable, reserved, holder, act, history>>
    /\ NoFault

\* expireStaleClaimForSlice, on a read or a claim.
Expire(s) ==
    /\ holder = "none" /\ s \in lapsed
    /\ Advance(s, slice[s].status)
    /\ UNCHANGED <<queue, reserved, holder, act, history>>
    /\ NoFault

\* withExclusiveReplanReservation: published unless another's is live.
Reserve ==
    /\ reserved # "live"
    /\ reserved' = "live"
    /\ UNCHANGED <<durable, lapsed, holder, act, history>>
    /\ NoFault

\* replan and applySliceDelta: an open slice is superseded.
Supersede(s) ==
    /\ reserved = "live" /\ holder = "none" /\ ~Terminal(s)
    /\ Advance(s, "superseded")
    /\ UNCHANGED <<queue, reserved, holder, act, history>>
    /\ NoFault

ReplanEnds ==
    /\ reserved = "live"
    /\ reserved' = "none"
    /\ UNCHANGED <<durable, lapsed, holder, act, history>>
    /\ NoFault

ReplanDies ==
    /\ reserved = "live"
    /\ reserved' = "dead"
    /\ UNCHANGED <<durable, lapsed, holder, act, history>>
    /\ Fault

-----------------------------------------------------------------------------
Init ==
    /\ slice = [s \in Slices |-> NewSlice]
    /\ receipt = [k \in Keys |-> NoReceipt]
    /\ stamped = {} /\ queue = <<>> /\ lapsed = {}
    /\ reserved = "none" /\ holder = "none"
    /\ act = [p \in Procs |-> Idle]
    /\ faults = 0
    /\ issued = [s \in Slices |-> {}]
    /\ token = [k \in Keys |-> 0]
    /\ accepted = {} /\ torn = {} /\ denied = {}
    /\ times = [k \in Keys |-> 0]

Apply(p) ==
    \/ Enter(p) \/ \E s \in Slices : SyncExpired(p, s)
    \/ Begin(p) \/ Persist(p) \/ Commit(p)

Next ==
    \/ \E p \in Callers :
          \/ \E k \in Keys : Call(p, k)
          \/ Gate(p) \/ Refuse(p) \/ Enqueue(p) \/ Link(p)
    \/ \E p \in Procs :
          \/ Apply(p) \/ PersistFails(p) \/ PersistHistoryFails(p)
          \/ JournalFails(p) \/ Crash(p)
    \/ \E d \in Drains : DrainDrop(d) \/ DrainTake(d) \/ Remove(d)
    \/ \E s \in Slices :
          Claim(s) \/ Reassign(s) \/ Lapse(s) \/ Expire(s) \/ Supersede(s)
    \/ Reserve \/ ReplanEnds \/ ReplanDies

Spec == Init /\ [][Next]_vars

\* The standing drain polls every few seconds and tries the lock every 25 ms:
\* the lock is not taken, nor a replan announced, at every one of its tries. A
\* step of a process that lives is taken, and a replan ends.
Fairness ==
    /\ \A p \in Procs : WF_vars(Apply(p))
    /\ \A d \in Drains :
          /\ SF_vars(DrainDrop(d) \/ DrainTake(d))
          /\ SF_vars(Enter(d) /\ ~ReservationIsLive)
          /\ WF_vars(Remove(d))
    /\ WF_vars(ReplanEnds)

LiveSpec == Spec /\ Fairness

-----------------------------------------------------------------------------
(* Properties *)

\* Every variable has its type, a key has one ticket, and the process that
\* holds the lock is the one that applies.
TypeOK ==
    /\ slice \in [Slices -> Slice]
    /\ \A k \in Keys : receipt[k] = NoReceipt \/ receipt[k] \in Receipt
    /\ stamped \subseteq Slices /\ lapsed \subseteq Slices
    /\ queue \in Seq(Ticket) /\ Len(queue) <= QueueMax
    /\ \A i, j \in DOMAIN queue : queue[i].key = queue[j].key => i = j
    /\ reserved \in {"none", "live", "dead"}
    /\ holder \in Procs \cup {"none"}
    /\ \A p \in Procs :
          act[p].pc \in {"apply", "sync", "persist", "commit", "remove"} <=> holder = p
    /\ faults \in 0..MaxFaults
    /\ token \in [Keys -> 0..MaxGen]
    /\ {accepted, torn, denied} \subseteq SUBSET Keys
    /\ times \in [Keys -> Nat]

\* A write answered "accepted" stays on the queue until it is applied, as long
\* as its slice is open in the generation of its token: neither a drain that
\* throws or dies nor a full queue loses it.
AcceptedIsNotLost ==
    \A k \in accepted :
        ~Terminal(Of[k]) /\ token[k] = slice[Of[k]].gen =>
            IsQueued(k) \/ receipt[k].status = "committed"

\* A committed receipt, which answers every retry as applied, belongs to a write
\* that reached the note. Claimed for the writes that leave a trace on their
\* slice: a start or scar whose note write failed is taken for applied when
\* another write of the plan succeeded before its retry.
CommittedWasApplied ==
    \A k \in Keys :
        receipt[k].status = "committed" /\ Act[k] \in {"progress", "block", "complete"}
            => times[k] > 0

\* However often a write is retried, by its worker and by drains, it reaches
\* the note once, unless the process died between the note and the receipt.
AppliedTwiceOnlyIfTorn == \A k \in Keys \ torn : times[k] <= 1

\* An answer tells what became of its write, now and later.
AnswersAreTrue == AcceptedIsNotLost /\ CommittedWasApplied /\ AppliedTwiceOnlyIfTorn

\* A write reaches the note only under the claim its token was issued for: a
\* worker whose slice was reassigned, expired or superseded changes nothing.
OnlyTheClaimWrites ==
    [][\A k \in Keys : times'[k] # times[k] =>
          slice[Of[k]].claimed /\ token[k] = slice[Of[k]].gen]_vars

\* A ticket that can be applied, answered or dropped does not stay the head for
\* ever: no dead process, dead reservation or lost kick keeps the queue standing.
HeadKey == IF queue = <<>> THEN NoKey ELSE NextTicket.key
HeadReady ==
    /\ queue # <<>>
    /\ \/ ~IsLiveWork(NextTicket)
       \/ HasClaim(HeadKey) /\ (MayApply(HeadKey) \/ Answered(HeadKey))
HeadMovesOn == []<>(~HeadReady) \/ []<><<HeadKey' # HeadKey>>_queue

\* "Completion clears the live claim; an exact retry can still replay its
\* receipt": no retry of an applied completion is refused.
CompletionReplays == denied = {}
=============================================================================
