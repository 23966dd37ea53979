------------------------------ MODULE InboxFiles ------------------------------
(***************************************************************************)
(* The life of the files that hooks drop into a vault's inbox               *)
(* (afm_passes/inbox_ingest.py, inbox_archive.py, inbox_quarantine.py).    *)
(* An ingest scans every inbox, gives each candidate text a slot of its    *)
(* file and inserts it as a packet in one transaction. When a packet is    *)
(* resolved the file it came from is archived, if the packets carry all of *)
(* it and are all resolved. Files that will never be ingested are archived *)
(* or quarantined.                                                         *)
(*                                                                         *)
(* Vaults under an old name belong to the principal of the new one: their  *)
(* packets share the slots of a file name. The unique index on the slots   *)
(* is what Ingest computes, so its collision path is left out.             *)
(***************************************************************************)
EXTENDS Integers, Sequences, FiniteSets, FiniteSetsExt, Functions

CONSTANTS
    Vaults,     \* the inboxes, as a sequence in the order they are discovered
    Owner,      \* Owner[v]: the canonical principal of vault v
    Renamed,    \* the vaults whose own name is an alias of their owner
    Names, Texts,
    Echo,       \* a candidate text that is refused: an audit echo, listed, blank
    Docs,       \* what a file may hold: its kind and its candidate texts
    Ingesters,  \* the AFM loop and the command line tool
    MaxInboxFaults

VaultSet == Range(Vaults)

ASSUME InboxFilesAssumption ==
    /\ Vaults \in Seq(VaultSet)
    /\ Owner \in [VaultSet -> VaultSet] /\ Renamed \subseteq VaultSet /\ Echo \notin Texts
    /\ \A d \in Docs : /\ d.kind \in {"stop", "other agent", "dead letter"}
                       /\ d.cands \in Seq(Texts \cup {Echo})
    /\ MaxInboxFaults \in Nat

Groups == Range(Owner) \X Names   \* the packets of one file name and owner
NoEntry == [place |-> "none", kind |-> "none", cands |-> << >>, old |-> FALSE]
IdleIngest == [on |-> FALSE, batch |-> [g \in Groups |-> {}]]

VARIABLES
    entry,      \* entry[v][n]: the file n of vault v
    packets,   \* candidate_packets: group, slot, text, source vault, resolved
    ingester,  \* ingester[i]: the scan of i, not inserted yet
    archiving, \* packets resolved whose archive call has not been made yet
    ifaults

inboxVars == <<entry, packets, ingester, archiving, ifaults>>

-----------------------------------------------------------------------------
Live(v, n) == entry[v][n].place = "inbox"
\* _eligible_candidates: the places of a file that may become a packet.
Eligible(doc) == {j \in DOMAIN doc.cands : doc.cands[j] # Echo}
TextsOf(doc) == Range(doc.cands) \ {Echo}
Ingestible(v, n) == Live(v, n) /\ entry[v][n].kind = "stop"

\* _scan_inbox, for the files of a group: the requests, each with the vault and
\* the place it was found at; they are served in that order.
Scanned(g) ==
    UNION {{[at |-> <<k, j>>, slot |-> j - 1, from |-> Vaults[k],
             text |-> entry[Vaults[k]][g[2]].cands[j]] : j \in Eligible(entry[Vaults[k]][g[2]])} :
           k \in {i \in DOMAIN Vaults : Owner[Vaults[i]] = g[1] /\ Ingestible(Vaults[i], g[2])}}

Before(r, s) == \/ r.at[1] < s.at[1]
                \/ r.at[1] = s.at[1] /\ r.at[2] < s.at[2]

PacketsOf(g) == {p \in packets : p.group = g}

\* Mutant: a slot that is taken stands for its text, whichever that is.
AssignBySlot(req, rows) == [r \in req |->
    IF \/ r.slot \in {p.slot : p \in rows}
       \/ \E s \in req : Before(s, r) /\ s.slot = r.slot
    THEN -1 ELSE r.slot]

\* _assign_fill_indices: a text that the group has already, or that an earlier
\* request brings, is skipped (-1); the others keep their slot if it is free,
\* and go behind every slot in use if it is not.
New(r, req, rows) ==
    /\ \A p \in rows : p.text # r.text
    /\ \A s \in req : Before(s, r) => s.text # r.text
Keeps(r, req, rows) ==
    /\ New(r, req, rows) /\ \A p \in rows : p.slot # r.slot
    /\ \A s \in req : Before(s, r) /\ New(s, req, rows) => s.slot # r.slot
Extra(r, req, rows) == New(r, req, rows) /\ ~Keeps(r, req, rows)

LastSlot(req, rows) ==
    Max({p.slot : p \in rows} \cup {-1} \cup {r.slot : r \in {s \in req : Keeps(s, req, rows)}})
ExtrasTo(r, req, rows) == {s \in req : Extra(s, req, rows) /\ (s = r \/ Before(s, r))}

AssignFillIndices(req, rows) == [r \in req |->
    IF Keeps(r, req, rows) THEN r.slot
    ELSE IF Extra(r, req, rows) THEN LastSlot(req, rows) + Cardinality(ExtrasTo(r, req, rows))
    ELSE -1]

\* The requests that have a slot now, with it.
Placed(req, rows) ==
    LET at == AssignFillIndices(req, rows) IN
    {[r EXCEPT !.slot = at[r]] : r \in {s \in req : at[s] # -1}}

\* A packet left by an earlier version may hold any slot of a renamed vault's file.
Leftover ==
    {[group |-> <<Owner[v], n>>, slot |-> 0, text |-> t, from |-> v, resolved |-> FALSE] :
        v \in Renamed, n \in Names, t \in Texts}

InboxInit ==
    /\ entry = [v \in VaultSet |-> [n \in Names |-> NoEntry]]
    /\ packets = {} \/ \E left \in Leftover : packets = {left}
    /\ ingester = [i \in Ingesters |-> IdleIngest] /\ archiving = {} /\ ifaults = 0

-----------------------------------------------------------------------------
\* A hook writes a file once, under a name of its own.
WriteInbox(v, n, doc) ==
    /\ entry[v][n].place = "none"
    /\ entry' = [entry EXCEPT ![v][n] = [place |-> "inbox", kind |-> doc.kind,
                                       cands |-> doc.cands, old |-> FALSE]]
    /\ UNCHANGED <<packets, ingester, archiving, ifaults>>

\* The TTL of a file passes; it is read for files no ingest will take.
Age(v, n) == /\ Live(v, n) /\ ~entry[v][n].old /\ entry[v][n].kind # "stop"
             /\ entry' = [entry EXCEPT ![v][n].old = TRUE]
             /\ UNCHANGED <<packets, ingester, archiving, ifaults>>

\* ingest: the scan, and the slots by the packets it saw.
ScanInboxes(i) ==
    /\ ~ingester[i].on
    /\ LET batch == [g \in Groups |-> Placed(Scanned(g), PacketsOf(g))] IN
       /\ \E g \in Groups : batch[g] # {}
       /\ ingester' = [ingester EXCEPT ![i] = [on |-> TRUE, batch |-> batch]]
    /\ UNCHANGED <<entry, packets, archiving, ifaults>>

\* Mutant: what the scan computed is inserted as it is.
InsertAsScanned(i) ==
    /\ ingester[i].on
    /\ packets' = packets \cup UNION {
         {[group |-> g, slot |-> r.slot, text |-> r.text, from |-> r.from, resolved |-> FALSE] :
            r \in ingester[i].batch[g]} : g \in Groups}
    /\ ingester' = [ingester EXCEPT ![i] = IdleIngest]
    /\ UNCHANGED <<entry, archiving, ifaults>>

\* ingest: the transaction, by the packets there are now.
InsertCandidates(i) ==
    /\ ingester[i].on
    /\ packets' = packets \cup UNION {
         {[group |-> g, slot |-> r.slot, text |-> r.text, from |-> r.from, resolved |-> FALSE] :
            r \in Placed(ingester[i].batch[g], PacketsOf(g))} : g \in Groups}
    /\ ingester' = [ingester EXCEPT ![i] = IdleIngest]
    /\ UNCHANGED <<entry, archiving, ifaults>>

\* The transaction fails, or the process dies.
IngestFails(i) == /\ ingester[i].on /\ ifaults < MaxInboxFaults
                  /\ ifaults' = ifaults + 1
                  /\ ingester' = [ingester EXCEPT ![i] = IdleIngest]
                  /\ UNCHANGED <<entry, packets, archiving>>

\* A packet is accepted, rejected, ... by the loop or by an operator; then its
\* file is looked at.
Resolve(p) ==
    /\ p \in packets /\ ~p.resolved
    /\ LET done == [p EXCEPT !.resolved = TRUE] IN
       /\ packets' = (packets \ {p}) \cup {done} /\ archiving' = archiving \cup {done}
    /\ UNCHANGED <<entry, ingester, ifaults>>

\* Mutant: any resolved packet under the name will do.
ResolvedByName(v, n, p) == Live(v, n) /\ Owner[v] = p.group[1] /\ n = p.group[2]

\* _matching_rows_for_file: packets of the group carry every text of the file,
\* and those are resolved. The packet of a renamed vault speaks for that alone.
Archivable(v, n, p) ==
    LET rows == PacketsOf(p.group) IN
    /\ Ingestible(v, n) /\ <<Owner[v], n>> = p.group
    /\ p.from \in Renamed => v = p.from
    /\ TextsOf(entry[v][n]) # {}
    /\ \A t \in TextsOf(entry[v][n]) : \E q \in rows : q.text = t
    /\ \A q \in rows : q.text \in TextsOf(entry[v][n]) => q.resolved

\* maybe_archive_for_candidate: the first inbox with such a file.
MaybeArchive(p) ==
    /\ p \in archiving /\ archiving' = archiving \ {p}
    /\ LET n    == p.group[2]
           fits == {k \in DOMAIN Vaults : Archivable(Vaults[k], n, p)}
       IN  entry' = IF fits = {} THEN entry
                   ELSE [entry EXCEPT ![Vaults[Min(fits)]][n].place = "archive"]
    /\ UNCHANGED <<packets, ingester, ifaults>>

\* The archive call raises, or the process dies before it.
ArchiveFails(p) == /\ p \in archiving /\ archiving' = archiving \ {p}
                   /\ ifaults < MaxInboxFaults /\ ifaults' = ifaults + 1
                   /\ UNCHANGED <<entry, packets, ingester>>

\* archive_inert_files: no candidate of the file can become a packet.
ArchiveInert(v, n) ==
    /\ Ingestible(v, n) /\ TextsOf(entry[v][n]) = {}
    /\ entry' = [entry EXCEPT ![v][n].place = "archive"]
    /\ UNCHANGED <<packets, ingester, archiving, ifaults>>

\* quarantine_stale_agent_mismatch, quarantine_afm_dead_letter.
Quarantine(v, n) ==
    /\ Live(v, n) /\ entry[v][n].old /\ entry[v][n].kind # "stop"
    /\ entry' = [entry EXCEPT ![v][n].place = "quarantine"]
    /\ UNCHANGED <<packets, ingester, archiving, ifaults>>

InboxNext ==
    \/ \E v \in VaultSet, n \in Names :
         \/ \E doc \in Docs : WriteInbox(v, n, doc)
         \/ Age(v, n) \/ ArchiveInert(v, n) \/ Quarantine(v, n)
    \/ \E i \in Ingesters : ScanInboxes(i) \/ InsertCandidates(i) \/ IngestFails(i)
    \/ \E p \in packets : Resolve(p) \/ MaybeArchive(p) \/ ArchiveFails(p)

InboxSpec == InboxInit /\ [][InboxNext]_inboxVars

\* The loop's tick comes round, and runs each of its passes: the ingest, those that
\* look at what files say or how old they are, and those that decide.
Ingests == \E i \in Ingesters : ScanInboxes(i) \/ InsertCandidates(i)
Cleans  == \E v \in VaultSet, n \in Names :
              Age(v, n) \/ ArchiveInert(v, n) \/ Quarantine(v, n)
Decides == \E p \in packets : Resolve(p) \/ MaybeArchive(p)

-----------------------------------------------------------------------------
InboxTypeOK ==
    /\ \A v \in VaultSet, n \in Names :
         /\ entry[v][n].place \in {"none", "inbox", "archive", "quarantine"}
    /\ \A p \in packets : p.group \in Groups /\ p.slot \in Nat /\ p.text \in Texts
    /\ archiving \subseteq {p \in packets : p.resolved} /\ ifaults \in 0..MaxInboxFaults

\* A text of a file is one packet, and a slot of it too: however many ingests
\* overlap, and whatever a renamed vault has left in the slots.
OnePacketPerText ==
    \A p, q \in packets :
      p.group = q.group /\ (p.slot = q.slot \/ p.text = q.text) => p = q

\* No candidate leaves the inbox before it has been decided: a file is archived
\* only when packets of its own principal carry every text of it, resolved.
ArchivedIsDecided ==
    \A v \in VaultSet, n \in Names : entry[v][n].place = "archive" =>
      \A t \in TextsOf(entry[v][n]) :
        \E p \in packets : p.group = <<Owner[v], n>> /\ p.text = t /\ p.resolved

\* Every text is in one place: its file, one packet, or decided.
TextsAreAccountedFor == OnePacketPerText /\ ArchivedIsDecided

\* Every candidate becomes a packet, in whatever slot, and every file that has no
\* candidate for this vault leaves the inbox.
FilesAreDrained ==
    \A v \in VaultSet, n \in Names : Live(v, n) ~>
      \/ ~Live(v, n)
      \/ /\ TextsOf(entry[v][n]) # {} /\ entry[v][n].kind = "stop"
         /\ \A t \in TextsOf(entry[v][n]) : \E p \in PacketsOf(<<Owner[v], n>>) : p.text = t
===============================================================================
