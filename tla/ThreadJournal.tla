------------------------------ MODULE ThreadJournal ------------------------------
(***************************************************************************)
(* The ordered journal of a Thread and the relay of its events             *)
(* (thread-events.ts, thread-worker.ts, thread-notification-relay.ts,      *)
(* hook-delivery.ts). A mutation runs under the plan's lock: it reconciles *)
(* the journal with the note, writes the note at the next revision, then   *)
(* appends the event of its operation. Each append is relayed: what every  *)
(* subscriber has not seen yet goes to one file, cursors.json, which hooks *)
(* read to show it to their host and write back with the cursor advanced.  *)
(* The lock covers the note and the journal, and not that file.            *)
(*                                                                         *)
(* The plan has one slice that can be claimed. A batch of events is one    *)
(* event: it is one line, and a line cut short by a crash is not parsed.   *)
(***************************************************************************)
EXTENDS Naturals, Sequences, FiniteSetsExt

CONSTANTS
    Writers,    \* agents that mutate the plan, one call at a time each
    Principal,  \* the agent the vault belongs to, a subscriber in any case
    Hooks,      \* hook processes
    Who,        \* Who[h]: the agent of hook h
    Injects,    \* the hooks whose host and event HOST_INJECTION_TABLE injects
    Nobody,
    MaxRev,
    MaxJournalFaults

ASSUME ThreadJournalAssumption ==
    /\ Who \in [Hooks -> Writers \cup {Principal}] /\ Injects \subseteq Hooks
    /\ Nobody \notin Writers /\ Writers \cap Hooks = {}
    /\ MaxRev \in Nat /\ MaxJournalFaults \in Nat

Agents == Writers \cup {Principal}
Clients == Writers \cup Hooks   \* of cursors.json
Seqs == 1..2 * MaxRev + 2

\* A key names an operation: a system event by its revision, a claim by the
\* worker and its idempotency key.
SystemKinds == {"state.baseline", "state.recovered", "slice.lease_expired",
                "slice.assigned", "status_reconciled"}
EventKeys == SystemKinds \X (0..MaxRev) \cup {"slice.claimed"} \X Writers
Event == [seq : Seqs, rev : 0..MaxRev, key : EventKeys, actor : Writers]

\* A store: a cursor for each subscriber that has one, and what is pending.
EmptyStore == [cursor |-> << >>, pending |-> {}]

\* A call: what it does, the steps it has left, its orderedSnapshot and the key
\* of the event it has to record.
IdleWriter == [op |-> "none", todo |-> << >>, snap |-> << >>,
               key |-> <<"state.baseline", 0>>]

\* A client of the file: what it does next, and what it is going to write.
Away == [pc |-> "away", store |-> EmptyStore, ids |-> {}]

VARIABLES
    note,     \* the plan note: its revision, its claim, whether that lapsed
    journal,
    lock,     \* who holds the plan's lock
    writer,   \* writer[p]: the call of p
    relay,    \* cursors.json: whole, empty (being written) or garbled
    client,   \* client[c]: c's access to the file
    attached, \* attached[h]: the seqs in the envelope of hook h
    jfaults,
    \* History:
    shown     \* shown[a]: the seqs that a host of a has received

threadVars == <<note, journal, lock, writer>>
relayVars == <<relay, client, attached, shown>>
journalVars == <<threadVars, relayVars, jfaults>>

-----------------------------------------------------------------------------
JournalFault == jfaults < MaxJournalFaults /\ jfaults' = jfaults + 1

\* nextSequence, findOrderedEventByIdempotencyKey and the highest revision, of a
\* snapshot.
NextSeq(s) == 1 + Max({0} \cup {s[i].seq : i \in DOMAIN s})
HasKey(s, key) == \E i \in DOMAIN s : s[i].key = key
JournalRev(s) == Max({0} \cup {s[i].rev : i \in DOMAIN s})

\* loadRelayStore: a file that does not parse is an empty store.
ReadStore == IF relay.state = "whole" THEN relay.store ELSE EmptyStore

CursorFor(store, a) == IF a \in DOMAIN store.cursor THEN store.cursor[a] ELSE 0

\* seedRelaySubscribers.
SeedIds(p, events) == {p, Principal} \cup DOMAIN ReadStore.cursor
                        \cup {events[i].actor : i \in DOMAIN events}

\* ingestJournalEvents and rebuildQueueFromJournal: every subscriber has a
\* cursor, and the events behind it are pending.
IngestJournalEvents(store, events, ids) ==
    LET rows == DOMAIN store.cursor \cup ids
        seqs == {events[i].seq : i \in DOMAIN events}
    IN  [cursor  |-> [a \in rows |-> CursorFor(store, a)],
         pending |-> {n \in rows \X seqs : n[2] > CursorFor(store, n[1])}]

\* confirmDelivery and advanceCursor: a lower seq is ignored.
ConfirmDelivery(store, a, seq) ==
    LET at == Max({seq, CursorFor(store, a)}) IN
    [cursor  |-> [b \in DOMAIN store.cursor \cup {a} |->
                    IF b = a THEN at ELSE store.cursor[b]],
     pending |-> {n \in store.pending : n[1] # a \/ n[2] > at}]

\* readPendingAttention.
PendingSeqs(store, a) ==
    {n[2] : n \in {m \in store.pending : m[1] = a /\ m[2] > CursorFor(store, a)}}

\* Mutant: the cursor follows every envelope that was written.
AnyOutputSucceeds(h) == TRUE

\* deliverySucceededForHostHook.
DeliverySucceeded(h) == h \in Injects

JournalInit ==
    /\ note = [rev |-> 0, claim |-> Nobody, lapsed |-> FALSE]
    /\ journal = << >> /\ lock = Nobody
    /\ writer = [p \in Writers |-> IdleWriter]
    /\ relay = [state |-> "whole", store |-> EmptyStore]
    /\ client = [c \in Clients |-> Away]
    /\ attached = [h \in Hooks |-> {}] /\ shown = [a \in Agents |-> {}]
    /\ jfaults = 0

-----------------------------------------------------------------------------
(* The calls that mutate the plan. *)

\* withThreadPlanLock. assign stands for every mutation that prepares first;
\* heal is resolveActivePlanView, which writes the note before it reconciles.
BeginCall(p) == \E op \in {"claim", "assign", "heal"} :
    /\ lock = Nobody /\ note.rev + 2 <= MaxRev
    /\ lock' = p
    /\ writer' = [writer EXCEPT ![p] = [IdleWriter EXCEPT !.op = op, !.snap = journal,
           !.todo = IF op = "heal" THEN <<"mutate", "reconcile", "baseline", "record">>
                    ELSE <<"reconcile", "baseline", "mutate">>]]
    /\ UNCHANGED <<note, journal, relayVars, jfaults>>

\* p is at this step of its call, and its last append has been relayed.
AtStep(p, step) == /\ lock = p /\ writer[p].todo # << >> /\ client[p].pc = "away"
                   /\ Head(writer[p].todo) = step
Rest(p) == Tail(writer[p].todo)
Ends(p) == lock' = Nobody /\ writer' = [writer EXCEPT ![p] = IdleWriter]

\* An append that threw: the snapshot is read again, an operation whose event
\* has landed goes on, any other step gives the error up.
AfterThrow(p, key) ==
    IF AtStep(p, "record") /\ HasKey(journal', key)
    THEN /\ writer' = [writer EXCEPT ![p].snap = journal', ![p].todo = Rest(p)]
         /\ UNCHANGED lock
    ELSE Ends(p)

\* appendOrderedEventBatch: a key that is there already is not written again;
\* a failed write may have landed.
AppendBatch(p, key) ==
    LET snap == writer[p].snap
        event == [seq |-> NextSeq(snap), rev |-> note.rev, key |-> key, actor |-> p]
    IN  \/ /\ HasKey(snap, key)
           /\ writer' = [writer EXCEPT ![p].todo = Rest(p)]
           /\ UNCHANGED <<journal, lock, client, jfaults>>
        \/ /\ ~HasKey(snap, key)
           /\ journal' = Append(journal, event)
           /\ writer' = [writer EXCEPT ![p].snap = Append(snap, event), ![p].todo = Rest(p)]
           /\ client' = [client EXCEPT ![p].pc = "seed"]
           /\ UNCHANGED <<lock, jfaults>>
        \/ /\ ~HasKey(snap, key) /\ JournalFault
           /\ journal' \in {journal, Append(journal, event)}
           /\ AfterThrow(p, key)
           /\ UNCHANGED client

\* Mutant: the gap is left for the operation's own event.
ReconcileNothing(p) ==
    /\ AtStep(p, "reconcile")
    /\ writer' = [writer EXCEPT ![p].todo = Rest(p)]
    /\ UNCHANGED <<note, relayVars, journal, lock, jfaults>>

\* reconcileThreadJournal: a note ahead of the journal is one recovery event,
\* a note behind it an error.
Reconcile(p) ==
    /\ AtStep(p, "reconcile")
    /\ LET snap == writer[p].snap IN
       IF snap # << >> /\ note.rev < JournalRev(snap)
       THEN Ends(p) /\ UNCHANGED <<journal, client, jfaults>>
       ELSE IF snap = << >> \/ note.rev = JournalRev(snap)
       THEN /\ writer' = [writer EXCEPT ![p].todo = Rest(p)]
            /\ UNCHANGED <<journal, lock, client, jfaults>>
       ELSE AppendBatch(p, <<"state.recovered", note.rev>>)
    /\ UNCHANGED <<note, relay, attached, shown>>

EnsureOrderedBaseline(p) ==
    /\ AtStep(p, "baseline")
    /\ IF writer[p].snap # << >>
       THEN /\ writer' = [writer EXCEPT ![p].todo = Rest(p)]
            /\ UNCHANGED <<journal, lock, client, jfaults>>
       ELSE AppendBatch(p, <<"state.baseline", note.rev>>)
    /\ UNCHANGED <<note, relay, attached, shown>>

\* persistPlan: it may fail before the note is written, or after.
Persist(p, new, key, todo) ==
    \/ /\ note' = new
       /\ writer' = [writer EXCEPT ![p].key = key, ![p].todo = todo]
       /\ UNCHANGED <<lock, jfaults>>
    \/ JournalFault /\ note' \in {note, new} /\ Ends(p)

Mutated(claim) == [rev |-> note.rev + 1, claim |-> claim, lapsed |-> FALSE]

\* assignSlice, and the status repair of resolveActivePlanView.
Assign(p) ==
    /\ AtStep(p, "mutate") /\ writer[p].op # "claim"
    /\ IF writer[p].op = "heal"
       THEN Persist(p, [note EXCEPT !.rev = @ + 1],
                    <<"status_reconciled", note.rev + 1>>, Rest(p))
       ELSE Persist(p, Mutated(Nobody), <<"slice.assigned", note.rev + 1>>, <<"record">>)
    /\ UNCHANGED <<journal, relayVars>>

\* claimSlice: a lapsed claim is expired first; a claim that p has already is
\* answered again, once its event is there (repairClaimSchedulerEvents).
Claim(p) ==
    /\ AtStep(p, "mutate") /\ writer[p].op = "claim"
    /\ \/ /\ note.claim # Nobody /\ note.lapsed
          /\ Persist(p, Mutated(Nobody), <<"slice.lease_expired", note.rev + 1>>,
                     <<"record", "mutate">>)
       \/ /\ note.claim = Nobody
          /\ Persist(p, Mutated(p), <<"slice.claimed", p>>, <<"record">>)
       \/ /\ note.claim = p /\ ~note.lapsed
          /\ writer' = [writer EXCEPT ![p].key = <<"slice.claimed", p>>,
                                      ![p].todo = <<"record">>]
          /\ UNCHANGED <<note, lock, jfaults>>
       \/ /\ note.claim \notin {p, Nobody} /\ ~note.lapsed
          /\ Ends(p) /\ UNCHANGED <<note, jfaults>>
    /\ UNCHANGED <<journal, relayVars>>

\* recordThreadMutationEvents.
Record(p) == /\ AtStep(p, "record") /\ AppendBatch(p, writer[p].key)
             /\ UNCHANGED <<note, relay, attached, shown>>

\* The answer.
Return(p) ==
    /\ lock = p /\ writer[p].todo = << >> /\ client[p].pc = "away"
    /\ Ends(p) /\ UNCHANGED <<note, journal, relayVars, jfaults>>

\* The process dies and its lock is recovered.
WriterDies(p) ==
    /\ lock = p /\ JournalFault /\ Ends(p)
    /\ client' = [client EXCEPT ![p] = Away]
    /\ UNCHANGED <<note, journal, relay, attached, shown>>

\* The claim's expires_at passes.
Lapse == /\ note.claim # Nobody /\ ~note.lapsed
         /\ note' = [note EXCEPT !.lapsed = TRUE]
         /\ UNCHANGED <<journal, lock, writer, relayVars, jfaults>>

-----------------------------------------------------------------------------
(* cursors.json: every client loads it, changes it and writes it back. *)

\* ingestRelayAfterJournalAppend loads the store for its subscribers alone.
SeedSubscribers(p) ==
    /\ client[p].pc = "seed"
    /\ client' = [client EXCEPT ![p].pc = "load", ![p].ids = SeedIds(p, writer[p].snap)]
    /\ UNCHANGED <<threadVars, relay, attached, shown, jfaults>>

\* ingestJournalIntoVault, confirmDeliveryInVault.
LoadStore(c) ==
    /\ client[c].pc = "load"
    /\ client' = [client EXCEPT ![c].pc = "open", ![c].store =
           IF c \in Writers THEN IngestJournalEvents(ReadStore, writer[c].snap, client[c].ids)
           ELSE ConfirmDelivery(ReadStore, Who[c], Max(attached[c]))]
    /\ UNCHANGED <<threadVars, relay, attached, shown, jfaults>>

\* saveRelayStore: writeFile empties the file and then writes it. Two at once
\* may leave the longer one's tail behind the shorter one.
OpenStore(c) ==
    /\ client[c].pc = "open"
    /\ relay' = [state |-> "empty", store |-> EmptyStore]
    /\ client' = [client EXCEPT ![c].pc = "write"]
    /\ UNCHANGED <<threadVars, attached, shown, jfaults>>

WriteStore(c) ==
    /\ client[c].pc = "write"
    /\ LET whole == [state |-> "whole", store |-> client[c].store] IN
       relay' \in {whole} \cup IF relay.state = "empty" THEN {}
                               ELSE {[state |-> "garbled", store |-> EmptyStore]}
    /\ client' = [client EXCEPT ![c] = Away]
    /\ attached' = [h \in Hooks |-> IF h = c THEN {} ELSE attached[h]]
    /\ UNCHANGED <<threadVars, shown, jfaults>>

-----------------------------------------------------------------------------
(* Hooks. *)

\* attachPendingAttention.
Attach(h) ==
    /\ attached[h] = {} /\ PendingSeqs(ReadStore, Who[h]) # {}
    /\ attached' = [attached EXCEPT ![h] = PendingSeqs(ReadStore, Who[h])]
    /\ UNCHANGED <<threadVars, relay, client, shown, jfaults>>

\* emitAndCommit: the output has reached the host. confirmPendingIfInjects has
\* deferred the confirmation until now.
Emit(h) ==
    /\ attached[h] # {} /\ client[h].pc = "away"
    /\ shown' = [shown EXCEPT ![Who[h]] = IF h \in Injects THEN @ \cup attached[h] ELSE @]
    /\ IF DeliverySucceeded(h)
       THEN client' = [client EXCEPT ![h].pc = "load"] /\ UNCHANGED attached
       ELSE attached' = [attached EXCEPT ![h] = {}] /\ UNCHANGED client
    /\ UNCHANGED <<threadVars, relay, jfaults>>

\* The output is dropped by the wire or not flushed, or the hook is killed: what
\* was deferred does not run, or no further.
Undelivered(h) ==
    /\ attached[h] # {}
    /\ attached' = [attached EXCEPT ![h] = {}]
    /\ client' = [client EXCEPT ![h] = Away]
    /\ UNCHANGED <<threadVars, relay, shown, jfaults>>

JournalNext ==
    \/ \E p \in Writers : \/ BeginCall(p) \/ Reconcile(p) \/ EnsureOrderedBaseline(p)
                          \/ Assign(p) \/ Claim(p) \/ Record(p) \/ Return(p) \/ WriterDies(p)
                          \/ SeedSubscribers(p)
    \/ Lapse
    \/ \E c \in Clients : LoadStore(c) \/ OpenStore(c) \/ WriteStore(c)
    \/ \E h \in Hooks : Attach(h) \/ Emit(h) \/ Undelivered(h)

JournalSpec == JournalInit /\ [][JournalNext]_journalVars

-----------------------------------------------------------------------------
Stores == {ReadStore} \cup {client[c].store : c \in Clients}

JournalTypeOK ==
    /\ note \in [rev : 0..MaxRev, claim : Writers \cup {Nobody}, lapsed : BOOLEAN]
    /\ \A i \in DOMAIN journal : journal[i] \in Event
    /\ lock \in Writers \cup {Nobody}
    /\ \A p \in Writers : (lock = p) = (writer[p].op # "none")
    /\ \A p \in Writers : client[p].pc # "away" => lock = p
    /\ \A store \in Stores : /\ DOMAIN store.cursor \subseteq Agents
                             /\ \A a \in DOMAIN store.cursor : store.cursor[a] \in 0..Len(journal)
                             /\ store.pending \subseteq Agents \X (1..Len(journal))
    /\ attached \in [Hooks -> SUBSET Seqs] /\ shown \in [Agents -> SUBSET Seqs]
    /\ jfaults \in 0..MaxJournalFaults

\* The seqs on disk are 1, 2, 3, ... and no operation is there twice, whichever
\* appends failed, and whether they failed before the line or after it.
JournalIsGapless ==
    /\ \A i \in DOMAIN journal : journal[i].seq = i
    /\ \A i, j \in DOMAIN journal : journal[i].key = journal[j].key => i = j

\* Whoever reads the journal hears of every revision of the note: the journal is
\* never ahead of it, revisions do not go back, and where one was skipped (the
\* writer died, or its append failed) the next event says so.
SkippedRevsAreMarked ==
    /\ JournalRev(journal) <= note.rev
    /\ \A i \in 2..Len(journal) :
         LET gap == journal[i].rev - journal[i - 1].rev IN
         /\ journal[i - 1].rev <= journal[i].rev
         /\ gap > 1 => journal[i].key[1] = "state.recovered"

\* The journal of a plan accounts for every revision of its note.
JournalAccountsForRevs == JournalIsGapless /\ SkippedRevsAreMarked

\* A cursor is never past an event that no host of its agent has received: not
\* in the file, and not in any store about to be written there.
CursorTrailsDelivery ==
    \A store \in Stores : \A a \in DOMAIN store.cursor : 1..store.cursor[a] \subseteq shown[a]

\* Both: what happened to a plan is in its journal once, and what is taken for
\* heard has been shown.
EventsAreAccountedFor == JournalAccountsForRevs /\ CursorTrailsDelivery

\* architecture.md:128: "Cursor advances monotonically on successful delivery
\* only". A file that is being written counts as unchanged.
CursorsAdvance ==
    [][\A a \in DOMAIN ReadStore.cursor :
         relay'.state = "whole" /\ relay.state = "whole" =>
           CursorFor(relay'.store, a) >= ReadStore.cursor[a]]_journalVars
===============================================================================
