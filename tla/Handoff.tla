------------------------------- MODULE Handoff -------------------------------
(***************************************************************************)
(* Handoff leases between agents (minnid_runtime/handoff.py). A handoff is *)
(* kept on two channels: JSON packets in the sender's outbox and the       *)
(* recipient's inbox, and a row of handoff_leases. The handlers run on the *)
(* daemon's worker threads without a lock around the two, so the steps of  *)
(* sends, acks, listings and waits interleave.                             *)
(* Every send of a lease id (a caller may reuse one) writes packets of its *)
(* own: they are numbered. Sender and recipient have different vaults.     *)
(***************************************************************************)
EXTENDS Naturals, FiniteSets

CONSTANTS
    Leases,     \* lease ids, each from one sender to one recipient
    Hidden,     \* leases whose recipient vault the ack sweep does not find
    Silent,     \* leases sent with requires_ack = false
    Resent,     \* leases whose id the sender uses again
    Lasting,    \* leases whose expires_at lies beyond the run
    AckStatuses,   \* the ack statuses used
    Ackers, Listers, Waiters,   \* one call each of the three handlers
    MaxSends,   \* sends of a lease id that is used again
    MaxHandoffFaults   \* failed writes or reads, and daemon restarts

ASSUME HandoffAssumption ==
    /\ Hidden \subseteq Leases /\ Silent \subseteq Leases
    /\ Resent \subseteq Leases /\ Lasting \subseteq Leases
    /\ AckStatuses \cap {"none", "pending", "not_required", "absent", "open",
                      "archived", "timeout", "error"} = {}
    /\ MaxSends \in Nat \ {0} /\ MaxHandoffFaults \in Nat

Gens == 1..MaxSends

Packet == [out : {"absent", "open"} \cup AckStatuses,
           in  : {"absent", "open", "archived"} \cup AckStatuses]
NoPacket == [out |-> "absent", in |-> "absent"]

VARIABLES
    box,     \* box[l][g]: the two packet files of send g of lease l
    row,     \* row[l]: the handoff_leases row, and the send it was stored by
    expired, \* sends whose expires_at has passed
    send, ack, list, wait,      \* the calls in progress
    sent,    \* sends of each lease that began
    hfaults,
    \* History:
    delivered,  \* leases whose last send answered "delivered"
    persisted,  \* leases whose last send stored the row
    clean,      \* leases not being acked when their last send began, nor since
    settled,    \* leases whose row an ack has set since it was last stored
    given,      \* given[l]: the last send the recipient had when it acked
    done        \* done[l]: the same, for acks that have been answered

handoffStore == <<box, row, expired>>
calls == <<send, ack, list, wait>>
history == <<delivered, persisted, clean, settled, given, done>>
handoffVars == <<handoffStore, calls, sent, hfaults, history>>

-----------------------------------------------------------------------------
NoAck  == [pc |-> "idle", lease |-> "none", status |-> "none", seen |-> 0,
           left |-> {}, marked |-> {}]
NoList == [pc |-> "idle", pend |-> {}, known |-> {}, failed |-> {},
           answer |-> {}, owed |-> {}, gone |-> {}]
NoWait == [pc |-> "idle", lease |-> "none", since |-> 0, acked |-> FALSE,
           down |-> FALSE, answer |-> "none"]

Larger(a, b) == IF a < b THEN b ELSE a

\* A write or a read fails, or the daemon restarts.
Fault == hfaults < MaxHandoffFaults /\ hfaults' = hfaults + 1
NoFault == UNCHANGED hfaults

Live(l) == {g \in Gens : box[l][g].in \notin {"absent", "archived"}}
Current(l) == <<l, sent[l]>> \notin expired

\* A lease that a listing begun now has to show: its last send was answered
\* as delivered, has not expired, and no ack has been under way since.
Owed == {l \in (delivered \cap clean) \ Silent : Current(l)}

Unowed(l) == [x \in Listers |-> [list[x] EXCEPT !.owed = @ \ {l}]]
Reopened(l) ==
    [x \in Listers |-> [list[x] EXCEPT !.owed = @ \ {l}, !.gone = @ \ {l}]]

-----------------------------------------------------------------------------
(* daemon.handoff *)

\* write_json(outbox_path): the packet reaches the sender's outbox.
SendOutbox(l) ==
    /\ send[l] = "idle" /\ sent[l] < (IF l \in Resent THEN MaxSends ELSE 1)
    /\ sent' = [sent EXCEPT ![l] = @ + 1]
    /\ box' = [box EXCEPT ![l][sent[l] + 1].out = "open"]
    /\ send' = [send EXCEPT ![l] = "inbox"]
    /\ list' = Reopened(l)
    /\ clean' = IF \E a \in Ackers : ack[a].lease = l
                THEN clean \ {l} ELSE clean \cup {l}
    /\ delivered' = delivered \ {l} /\ persisted' = persisted \ {l}
    /\ settled' = settled \ {l}
    /\ UNCHANGED <<row, expired, ack, wait, given, done>>
    /\ NoFault

\* write_json(inbox_path).
SendInbox(l) ==
    /\ send[l] = "inbox"
    /\ box' = [box EXCEPT ![l][sent[l]].in = "open"]
    /\ send' = [send EXCEPT ![l] = "row"]
    /\ UNCHANGED <<row, expired, ack, list, wait, sent, history>>
    /\ NoFault

\* store_handoff_lease: INSERT ... ON CONFLICT DO UPDATE, which resets the
\* status of a row that exists.
StoreLease(l) ==
    /\ send[l] = "row"
    /\ row' = [row EXCEPT ![l] =
          [status |-> IF l \in Silent THEN "not_required" ELSE "pending",
           gen |-> sent[l]]]
    /\ send' = [send EXCEPT ![l] = "audit"]
    /\ persisted' = persisted \cup {l}
    /\ settled' = settled \ {l} /\ list' = Reopened(l)
    /\ UNCHANGED <<box, expired, ack, wait, sent, delivered, clean, given, done>>
    /\ NoFault

\* store_handoff_lease fails: the handoff stays on the file channel only.
StoreLeaseFails(l) ==
    /\ send[l] = "row"
    /\ send' = [send EXCEPT ![l] = "audit"]
    /\ UNCHANGED <<handoffStore, ack, list, wait, sent, history>>
    /\ Fault

\* The handoff page and the audit lines are written: the answer is "delivered".
SendEnds(l) ==
    /\ send[l] = "audit"
    /\ send' = [send EXCEPT ![l] = "idle"]
    /\ delivered' = delivered \cup {l}
    /\ UNCHANGED <<handoffStore, ack, list, wait, sent, persisted, clean, settled,
                   given, done>>
    /\ NoFault

\* A file of the handoff cannot be written: the answer is "not delivered" and
\* what was written stays.
SendFails(l) ==
    /\ send[l] \in {"inbox", "audit"}
    /\ send' = [send EXCEPT ![l] = "idle"]
    /\ UNCHANGED <<handoffStore, ack, list, wait, sent, history>>
    /\ Fault

-----------------------------------------------------------------------------
(* minni_ack_handoff *)

\* lease_to_agent finds the lease in the row or in a packet the sweep reaches.
\* A status outside HANDOFF_ACK_STATUSES is refused. The recipient acks what
\* has been in its inbox.
AckBegin(a, l, s) ==
    /\ ack[a].pc = "idle"
    /\ \E g \in Gens : box[l][g].in # "absent"
    /\ \/ row[l].status # "none"
       \/ \E g \in Gens : box[l][g].out # "absent"
       \/ l \notin Hidden /\ Live(l) # {}
    /\ ack' = [ack EXCEPT ![a] =
          [pc |-> "mark", lease |-> l, status |-> s, seen |-> sent[l],
           left |-> {"out"} \cup (IF l \in Hidden THEN {} ELSE {"in"}),
           marked |-> {}]]
    /\ clean' = clean \ {l}
    /\ list' = Unowed(l)
    /\ given' = [given EXCEPT ![l] = Larger(@, sent[l])]
    /\ UNCHANGED <<handoffStore, send, wait, sent, delivered, persisted, settled, done>>
    /\ NoFault

\* Mutant: the sweep looks at inboxes only.
AckMarkOutboxSkipped(a) ==
    /\ ack[a].pc = "mark" /\ "out" \in ack[a].left
    /\ ack' = [ack EXCEPT ![a].left = @ \ {"out"}]
    /\ UNCHANGED <<handoffStore, send, list, wait, sent, history>>
    /\ NoFault

\* write_matching_lease_packets in the sender's outbox: every packet of the
\* lease id, whichever send wrote it.
AckMarkOutbox(a) ==
    LET l == ack[a].lease IN
    /\ ack[a].pc = "mark" /\ "out" \in ack[a].left
    /\ box' = [box EXCEPT ![l] = [g \in Gens |->
          IF @[g].out = "absent" THEN @[g]
          ELSE [@[g] EXCEPT !.out = ack[a].status]]]
    /\ ack' = [ack EXCEPT ![a].left = @ \ {"out"}]
    /\ UNCHANGED <<row, expired, send, list, wait, sent, history>>
    /\ NoFault

\* write_matching_lease_packets in the recipient's inbox.
AckMarkInbox(a) ==
    LET l == ack[a].lease IN
    /\ ack[a].pc = "mark" /\ "in" \in ack[a].left
    /\ box' = [box EXCEPT ![l] = [g \in Gens |->
          IF g \in Live(l) THEN [@[g] EXCEPT !.in = ack[a].status] ELSE @[g]]]
    /\ ack' = [ack EXCEPT ![a].left = @ \ {"in"}, ![a].marked = Live(l)]
    /\ UNCHANGED <<row, expired, send, list, wait, sent, history>>
    /\ NoFault

\* update_handoff_lease_status: an UPDATE, without effect when there is no row.
AckRow(a) ==
    LET l == ack[a].lease IN
    /\ ack[a].pc = "mark" /\ ack[a].left = {}
    /\ ack' = [ack EXCEPT ![a].pc = "archive"]
    /\ IF row[l].status = "none"
       THEN UNCHANGED <<row, settled>>
       ELSE /\ row' = [row EXCEPT ![l].status = ack[a].status]
            /\ settled' = settled \cup {l}
    /\ UNCHANGED <<box, expired, send, list, wait, sent, delivered, persisted,
                   clean, given, done>>
    /\ NoFault

\* update_handoff_lease_status fails; the packets carry the ack.
AckRowFails(a) ==
    /\ ack[a].pc = "mark" /\ ack[a].left = {}
    /\ ack' = [ack EXCEPT ![a].pc = "archive"]
    /\ UNCHANGED <<handoffStore, send, list, wait, sent, history>>
    /\ Fault

\* archive_inbox_file for the inbox packets that were marked, and the answer.
AckArchive(a) ==
    LET l == ack[a].lease IN
    /\ ack[a].pc = "archive"
    /\ box' = [box EXCEPT ![l] = [g \in Gens |->
          IF g \in ack[a].marked THEN [@[g] EXCEPT !.in = "archived"] ELSE @[g]]]
    /\ done' = [done EXCEPT ![l] = Larger(@, ack[a].seen)]
    /\ ack' = [ack EXCEPT ![a] = [NoAck EXCEPT !.pc = "done"]]
    /\ UNCHANGED <<row, expired, send, list, wait, sent, delivered, persisted,
                   clean, settled, given>>
    /\ NoFault

-----------------------------------------------------------------------------
(* minni_list_pending_handoffs *)

\* pending_handoff_leases.
PendingRows ==
    {l \in Leases : row[l].status = "pending" /\ <<l, row[l].gen>> \notin expired}

ListPending(x) ==
    /\ list[x].pc = "idle"
    /\ \/ NoFault /\ list' = [list EXCEPT ![x] =
             [NoList EXCEPT !.pc = "known", !.pend = PendingRows,
                            !.owed = Owed, !.gone = settled]]
       \/ Fault /\ list' = [list EXCEPT ![x] =
             [NoList EXCEPT !.pc = "known", !.failed = {"pending"},
                            !.owed = Owed, !.gone = settled]]
    /\ UNCHANGED <<handoffStore, send, ack, wait, sent, history>>

\* Mutant: only the pending rows keep a packet off the list.
ListKnownPendingOnly(x) ==
    /\ list[x].pc = "known"
    /\ list' = [list EXCEPT ![x].pc = "files", ![x].known = list[x].pend]
    /\ UNCHANGED <<handoffStore, send, ack, wait, sent, history>>
    /\ NoFault

\* _known_lease_ids_for_agent: rows of any status; the empty set, and no
\* error, when the store fails (it may have failed the first read already).
ListKnown(x) ==
    /\ list[x].pc = "known"
    /\ \/ /\ list' = [list EXCEPT ![x].pc = "files",
                ![x].known = list[x].pend \cup {l \in Leases : row[l].status # "none"}]
          /\ NoFault
       \/ /\ list' = [list EXCEPT ![x].pc = "files", ![x].known = list[x].pend,
                                  ![x].failed = @ \cup {"known"}]
          /\ IF list[x].failed # {} THEN NoFault ELSE Fault
    /\ UNCHANGED <<handoffStore, send, ack, wait, sent, history>>

\* _file_channel_pending_handoffs, the merge and the answer.
ListFiles(x) ==
    /\ list[x].pc = "files"
    /\ LET files == {l \in Leases \ (Silent \cup list[x].known) :
               \E g \in Gens : box[l][g].in = "open" /\ <<l, g>> \notin expired}
           answer == list[x].pend \cup files
       IN  list' = [list EXCEPT ![x] =
             [@ EXCEPT !.answer = answer, !.pend = {}, !.known = {},
                !.pc = IF answer = {} /\ "pending" \in list[x].failed
                       THEN "error" ELSE "answered"]]
    /\ UNCHANGED <<handoffStore, send, ack, wait, sent, history>>
    /\ NoFault

-----------------------------------------------------------------------------
(* minni_await_handoff *)

\* A wait follows the last send of the lease that has been answered.
WaitBegin(w, l) ==
    LET answered == IF send[l] = "idle" THEN sent[l] ELSE sent[l] - 1 IN
    /\ wait[w].pc = "idle" /\ answered > 0
    /\ wait' = [wait EXCEPT ![w] =
          [NoWait EXCEPT !.pc = "row", !.lease = l, !.since = answered]]
    /\ UNCHANGED <<handoffStore, send, ack, list, sent, history>>
    /\ NoFault

\* handoff_lease_status: a status other than pending is the answer.
WaitRow(w) ==
    LET l == wait[w].lease
        acked == done[l] >= sent[l]
    IN
    /\ wait[w].pc = "row"
    /\ \/ /\ row[l].status \in {"none", "pending"}
          /\ wait' = [wait EXCEPT ![w].pc = "files", ![w].acked = acked,
                                  ![w].down = FALSE]
          /\ NoFault
       \/ /\ row[l].status \notin {"none", "pending"}
          /\ wait' = [wait EXCEPT ![w].pc = "answered",
                                  ![w].answer = row[l].status]
          /\ NoFault
       \/ /\ wait' = [wait EXCEPT ![w].pc = "files", ![w].acked = acked,
                                  ![w].down = TRUE]
          /\ Fault
    /\ UNCHANGED <<handoffStore, send, ack, list, sent, history>>

\* ack_status of the packets the sweep reaches.
FileAcks(l) ==
    {box[l][g].out : g \in Gens}
    \cup (IF l \in Hidden THEN {} ELSE {box[l][g].in : g \in Gens})

\* _file_channel_terminal_ack, then the deadline or another poll.
WaitFiles(w) ==
    LET acks == FileAcks(wait[w].lease) \cap AckStatuses IN
    /\ wait[w].pc = "files"
    /\ \/ \E s \in acks :
             wait' = [wait EXCEPT ![w].pc = "answered", ![w].answer = s]
       \/ /\ acks = {}
          /\ \/ wait' = [wait EXCEPT ![w].pc = "row"]
             \/ wait' = [wait EXCEPT ![w].pc = "answered",
                   ![w].answer = IF wait[w].down THEN "error" ELSE "timeout"]
    /\ UNCHANGED <<handoffStore, send, ack, list, sent, history>>
    /\ NoFault

-----------------------------------------------------------------------------
(* Environment *)

\* The expires_at of a send passes.
Expire(l) ==
    /\ l \notin Lasting
    /\ \E g \in 1..sent[l] :
          <<l, g>> \notin expired /\ expired' = expired \cup {<<l, g>>}
    /\ list' = Unowed(l)
    /\ UNCHANGED <<box, row, send, ack, wait, sent, history>>
    /\ NoFault

\* The daemon stops and starts: files and rows stay, calls are gone.
Restart ==
    /\ send' = [l \in Leases |-> "idle"]
    /\ ack' = [a \in Ackers |-> NoAck]
    /\ list' = [x \in Listers |-> NoList]
    /\ wait' = [w \in Waiters |-> NoWait]
    /\ UNCHANGED <<handoffStore, sent, history>>
    /\ Fault

HandoffInit ==
    /\ box = [l \in Leases |-> [g \in Gens |-> NoPacket]]
    /\ row = [l \in Leases |-> [status |-> "none", gen |-> 0]]
    /\ expired = {}
    /\ send = [l \in Leases |-> "idle"]
    /\ ack = [a \in Ackers |-> NoAck]
    /\ list = [x \in Listers |-> NoList]
    /\ wait = [w \in Waiters |-> NoWait]
    /\ sent = [l \in Leases |-> 0]
    /\ hfaults = 0
    /\ delivered = {} /\ persisted = {} /\ clean = {} /\ settled = {}
    /\ given = [l \in Leases |-> 0]
    /\ done = [l \in Leases |-> 0]

HandoffNext ==
    \/ \E l \in Leases :
          \/ SendOutbox(l) \/ SendInbox(l)
          \/ StoreLease(l) \/ StoreLeaseFails(l)
          \/ SendEnds(l) \/ SendFails(l) \/ Expire(l)
    \/ \E a \in Ackers :
          \/ \E l \in Leases, s \in AckStatuses : AckBegin(a, l, s)
          \/ AckMarkOutbox(a) \/ AckMarkInbox(a)
          \/ AckRow(a) \/ AckRowFails(a) \/ AckArchive(a)
    \/ \E x \in Listers : ListPending(x) \/ ListKnown(x) \/ ListFiles(x)
    \/ \E w \in Waiters :
          \/ \E l \in Leases : WaitBegin(w, l)
          \/ WaitRow(w) \/ WaitFiles(w)
    \/ Restart

HandoffSpec == HandoffInit /\ [][HandoffNext]_handoffVars

-----------------------------------------------------------------------------
(* Properties *)

\* Every variable has its type, and a call in progress names a lease.
HandoffTypeOK ==
    /\ box \in [Leases -> [Gens -> Packet]]
    /\ row \in [Leases -> [status : {"none", "pending", "not_required"}
                                    \cup AckStatuses, gen : 0..MaxSends]]
    /\ expired \subseteq Leases \X Gens
    /\ send \in [Leases -> {"idle", "inbox", "row", "audit"}]
    /\ \A a \in Ackers :
          \/ ack[a] = NoAck
          \/ ack[a] = [NoAck EXCEPT !.pc = "done"]
          \/ /\ ack[a].pc \in {"mark", "archive"} /\ ack[a].lease \in Leases
             /\ ack[a].status \in AckStatuses /\ ack[a].seen \in Gens
             /\ ack[a].left \subseteq {"in", "out"} /\ ack[a].marked \subseteq Gens
    /\ list \in [Listers ->
          [pc : {"idle", "known", "files", "answered", "error"},
           pend : SUBSET Leases, known : SUBSET Leases,
           failed : SUBSET {"pending", "known"},
           answer : SUBSET Leases, owed : SUBSET Leases, gone : SUBSET Leases]]
    /\ \A w \in Waiters :
          \/ wait[w] = NoWait
          \/ /\ wait[w].pc \in {"row", "files", "answered"}
             /\ wait[w].lease \in Leases /\ wait[w].since \in Gens
    /\ sent \in [Leases -> 0..MaxSends]
    /\ hfaults \in 0..MaxHandoffFaults
    /\ given \in [Leases -> 0..MaxSends] /\ done \in [Leases -> 0..MaxSends]

\* A handoff answered as delivered before a listing began, and not acked or
\* expired since, is in the listing's answer: the row and the packets, read at
\* different moments, never hide it between them (the merge by lease id in
\* handle_list_pending_handoffs). Two cases are left out, in which the code
\* does hide it: a resend whose row could not be stored over the row of an
\* earlier send, and a store that fails the first read and answers the second.
DeliveredIsListed ==
    \A x \in Listers :
        list[x].pc = "answered" /\ list[x].failed # {"pending"} =>
            \A l \in list[x].owed :
                l \in persisted \/ row[l].status = "none" => l \in list[x].answer

\* A lease whose row an ack had set before a listing began is not listed
\* again, even when its inbox packet was out of the ack sweep's reach, as long
\* as the resurrection guard (_known_lease_ids_for_agent) can be read.
AckedIsNotListed ==
    \A x \in Listers :
        list[x].pc = "answered" /\ "known" \notin list[x].failed =>
            list[x].gone \cap list[x].answer = {}

\* A listing shows the handoffs that wait for an ack and no others.
ListingMatchesAcks == DeliveredIsListed /\ AckedIsNotListed

\* A wait that times out polled before any ack of the last send was answered:
\* an ack answered before the poll is on the row or on a packet the poll
\* reads, also when the row could not be updated or read.
TimeoutMeansUnacked ==
    \A w \in Waiters : wait[w].answer \in {"timeout", "error"} => ~wait[w].acked

\* An ack is seen by whoever asks for it after it was answered.
AcksAreSeen == ListingMatchesAcks /\ TimeoutMeansUnacked

\* A status a wait reports was given by the recipient when it had the send the
\* wait is for, not only an earlier one under the same lease id.
AnswerIsForThisSend ==
    \A w \in Waiters : wait[w].answer \in AckStatuses =>
        given[wait[w].lease] >= wait[w].since
=============================================================================
