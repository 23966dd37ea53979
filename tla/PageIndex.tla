------------------------------ MODULE PageIndex ------------------------------
(* Markdown pages and the rows of the index that stand for them: the vault    *)
(* sweep of indexer.py (one short transaction per file, everything slow       *)
(* outside it), the wiki indexer and the per-vault ingest of vault_ingest.py  *)
(* (the whole run in one transaction), and the author who edits the files     *)
(* meanwhile. Sweeps run on a timer of the daemon, from a file watcher and    *)
(* from the command line, and nothing keeps two of them apart.                *)
(*                                                                            *)
(* The text of a page is the time of the edit that made it.                   *)
EXTENDS Naturals, Sequences, FiniteSets, FiniteSetsExt

CONSTANTS
    Pages,      \* files under the root
    Virtual,    \* rows under _durable: they never have a file
    NoPage,
    Indexers,   \* runs of an indexer, each repeated for ever
    Mixes,      \* functions from Indexers to {"vault", "wiki", "ingest", "off"}
    MaxDoc,     \* bound: document ids handed out
    MaxEdit     \* bound: edits of the author

\* The vault, the wiki and the vaults of the agents are roots apart: whatever
\* runs on one of them is of one kind.
ASSUME PageConstants ==
    /\ MaxDoc \in Nat /\ MaxEdit \in Nat
    /\ IsFiniteSet(Pages) /\ IsFiniteSet(Virtual)
    /\ Pages \cap Virtual = {} /\ NoPage \notin Pages \cup Virtual
    /\ Mixes \subseteq [Indexers -> {"vault", "wiki", "ingest", "off"}]
    /\ \A m \in Mixes, i, j \in Indexers : m[i] = "off" \/ m[j] = "off" \/ m[i] = m[j]

Doc == 1..MaxDoc
NoDoc == 0

VARIABLES
    file,       \* the pages on disk
    now,        \* the clock: it moves with the edits
    docs,       \* documents, vault_fts and chunk_embeddings by doc_id
    lastDoc,    \* AUTOINCREMENT
    kind,       \* which indexer a run is
    run,        \* the runs in progress
    hidden      \* history: pages edited between the parse and the time stamp

pageVars == <<file, now, docs, lastDoc, kind, run, hidden>>

\* What the frontmatter says. "sealed" is privacy: blocked under a status the
\* wiki parser does not know.
Frontmatter == {"accepted", "draft", "complete", "blocked", "sealed"}
NoFile == [says |-> "nothing", mtime |-> 0]

Blank == [page |-> NoPage, canon |-> TRUE, mtime |-> 0, stamp |-> 0,
          status |-> "none", text |-> 0, vecs |-> 0]

\* UNEMBEDDED_STATUSES
Unembedded == {"draft", "complete"}

\* The status the vault sweep gives a row: _extract_frontmatter clamps what it
\* does not list, and it does not list complete.
VaultStatus(says) == IF says = "complete" THEN "candidate" ELSE says

RowsOf(p) == {d \in Doc : docs[d].page = p}
Canonical(p) == {d \in RowsOf(p) : docs[d].canon}
One(S) == IF S = {} THEN NoDoc ELSE Min(S)

Idle == [pc |-> "idle", walked |-> [p \in Pages |-> 0], alias |-> [p \in Pages |-> NoDoc],
         todo |-> {}, page |-> NoPage, row |-> NoDoc, seen |-> Blank,
         got |-> [p \in Pages |-> NoFile], stamp |-> [p \in Pages |-> 0]]

(* Rows an older version, a symlink or a hand-run indexer left behind: a      *)
(* draft with vectors, a row under another spelling of the path, or two.      *)
Legacy(p, says) ==
    LET old(canon, time) == [page |-> p, canon |-> canon, mtime |-> time, stamp |-> 1,
                             status |-> says, text |-> 1, vecs |-> 1]
        row == old(TRUE, 1)
        other(time) == old(FALSE, time)
    IN  IF says \in {"accepted", "draft"}
        THEN {<<>>, <<row>>, <<other(0)>>, <<other(1)>>, <<row, other(1)>>, <<other(0), other(1)>>}
        ELSE {<<>>}

PageInit ==
    /\ kind \in Mixes
    /\ now = 1
    /\ \E p \in Pages, says \in Frontmatter : \E legacy \in Legacy(p, says) :
          LET virtual == IF \E i \in Indexers : kind[i] = "vault" THEN Virtual ELSE {}
              n == Len(legacy)
          IN  /\ file = [q \in Pages |-> IF q = p THEN [says |-> says, mtime |-> 1] ELSE NoFile]
              /\ virtual = {} => \A k \in 1..n : legacy[k].canon
              /\ docs = [d \in Doc |->
                    IF d <= n THEN legacy[d]
                    ELSE IF d = n + 1 /\ virtual # {}
                    THEN [page |-> CHOOSE v \in virtual : TRUE, canon |-> TRUE, mtime |-> 0,
                          stamp |-> 0, status |-> "accepted", text |-> 1, vecs |-> 1]
                    ELSE Blank]
              /\ lastDoc = n + Cardinality(virtual)
    /\ run = [i \in Indexers |-> Idle]
    /\ hidden = {}

PageAt(i, pc) == run[i].pc = pc
Becomes(i, r) == run' = [run EXCEPT ![i] = r]
PageGoto(i, pc) == Becomes(i, [run[i] EXCEPT !.pc = pc])

\* The next page of the walk, or the prune when there is none.
NextPage(i) ==
    Becomes(i, [run[i] EXCEPT !.pc = "pages", !.row = NoDoc, !.seen = Blank, !.page = NoPage,
                              !.todo = @ \ {run[i].page}, !.got = [p \in Pages |-> NoFile]])

\* BEGIN IMMEDIATE: whole-run transactions exclude every other writer.
NoRunInTransaction == \A i \in Indexers : run[i].pc \notin {"parse", "stamp", "commit"}

-----------------------------------------------------------------------------
(* The author *)

Edit(p) ==
    /\ now <= MaxEdit
    /\ now' = now + 1
    /\ \/ \E says \in Frontmatter : file' = [file EXCEPT ![p] = [says |-> says, mtime |-> now + 1]]
       \/ file[p] # NoFile /\ file' = [file EXCEPT ![p] = NoFile]
    /\ UNCHANGED <<docs, lastDoc, kind, run, hidden>>

-----------------------------------------------------------------------------
(* The vault sweep *)

Walk(i) ==
    /\ PageAt(i, "idle") /\ kind[i] # "off"
    /\ kind[i] # "vault" => NoRunInTransaction
    /\ Becomes(i, [run[i] EXCEPT
          !.walked = [p \in Pages |-> file[p].mtime],
          !.todo = {p \in Pages : file[p] # NoFile},
          !.pc = IF kind[i] = "vault" THEN "aliases" ELSE "parse"])
    /\ UNCHANGED <<file, now, docs, lastDoc, kind, hidden>>

\* _noncanonical_rows: one row per file is kept aside, the others are deleted.
CollectAliases(i) ==
    /\ PageAt(i, "aliases") /\ NoRunInTransaction
    /\ LET aliases(p) == RowsOf(p) \ Canonical(p)
           extra == UNION {aliases(p) \ {One(aliases(p))} : p \in Pages}
       IN  /\ docs' = [d \in Doc |-> IF d \in extra THEN Blank ELSE docs[d]]
           /\ Becomes(i, [run[i] EXCEPT !.alias = [p \in Pages |-> One(aliases(p))],
                                          !.pc = "pages"])
    /\ UNCHANGED <<file, now, lastDoc, kind, hidden>>

\* Mutant: only the exact path is looked up.
LookUpExact(i) ==
    /\ PageAt(i, "pages")
    /\ \E p \in run[i].todo :
          LET row == One(Canonical(p))
              seen == IF row = NoDoc THEN Blank ELSE docs[row]
          IN  Becomes(i, [run[i] EXCEPT
                 !.page = p, !.row = row, !.seen = seen,
                 !.pc = IF row # NoDoc /\ seen.mtime >= run[i].walked[p]
                           THEN "unchanged" ELSE "read"])
    /\ UNCHANGED <<file, now, docs, lastDoc, kind, hidden>>

\* The row of the file: the canonical one, else the one kept aside. A canonical
\* row makes the other one go.
LookUp(i) ==
    /\ PageAt(i, "pages")
    /\ \E p \in run[i].todo :
          LET mine == One(Canonical(p))
              other == run[i].alias[p]
              row == IF mine = NoDoc THEN other ELSE mine
              seen == IF row = NoDoc THEN Blank ELSE docs[row]
          IN  /\ docs' = IF mine # NoDoc /\ other \notin {NoDoc, mine}
                         THEN [docs EXCEPT ![other] = Blank] ELSE docs
              /\ Becomes(i, [run[i] EXCEPT
                    !.page = p, !.row = row, !.seen = seen,
                    !.pc = IF row # NoDoc /\ seen.mtime >= run[i].walked[p]
                              THEN "unchanged" ELSE "read"])
    /\ docs' # docs => NoRunInTransaction
    /\ UNCHANGED <<file, now, lastDoc, kind, hidden>>

\* The file did not change: vectors of an unendorsed page go, and the path is
\* brought to its canonical spelling, unless another row has it by now.
KeepUnchanged(i) ==
    /\ PageAt(i, "unchanged")
    /\ LET r == run[i].row
           seen == run[i].seen
           strip == [docs EXCEPT ![r] =
                         [docs[r] EXCEPT !.vecs = IF seen.status \in Unembedded THEN 0 ELSE @]]
       IN  docs' = IF docs[r] # Blank /\ ~seen.canon /\ Canonical(run[i].page) = {}
                   THEN [strip EXCEPT ![r] = [strip[r] EXCEPT !.canon = TRUE]] ELSE strip
    /\ docs' # docs => NoRunInTransaction
    /\ NextPage(i)
    /\ UNCHANGED <<file, now, lastDoc, kind, hidden>>

\* The content is read, and encoded, before the transaction.
ReadPage(i) ==
    /\ PageAt(i, "read")
    /\ LET p == run[i].page
       IN  IF file[p] = NoFile THEN NextPage(i)
           ELSE Becomes(i, [run[i] EXCEPT !.got = [@ EXCEPT ![p] = file[p]],
                                               !.pc = "write"])
    /\ UNCHANGED <<file, now, docs, lastDoc, kind, hidden>>

\* The row a page gets, stamped with the mtime of the walk.
Fresh(p, got, mtime, status, embed) ==
    [page |-> p, canon |-> TRUE, mtime |-> mtime, stamp |-> now, status |-> status,
     text |-> got.mtime, vecs |-> IF embed THEN got.mtime ELSE 0]

\* Mutant: the row is stamped with the time of the file when it is written.
WriteStampsLate(i) ==
    /\ PageAt(i, "write") /\ NoRunInTransaction
    /\ LET p == run[i].page
           r == IF run[i].row = NoDoc THEN lastDoc + 1 ELSE run[i].row
           got == run[i].got[p]
       IN  /\ r \in Doc
           /\ docs' = [docs EXCEPT ![r] =
                          Fresh(p, got, file[p].mtime, VaultStatus(got.says),
                                VaultStatus(got.says) \notin Unembedded)]
           /\ lastDoc' = IF r > lastDoc THEN r ELSE lastDoc
    /\ NextPage(i)
    /\ UNCHANGED <<file, now, kind, hidden>>

(* One transaction. A blocked page is purged. A new row fails on the UNIQUE   *)
(* path when another run was first; so does an adopted one. When the row is   *)
(* gone by now, the UPDATE finds nothing: chunks fail on their foreign key,   *)
(* and without chunks the text is inserted under no row at all.               *)
WritePage(i) ==
    /\ PageAt(i, "write") /\ NoRunInTransaction
    /\ LET p == run[i].page
           r == run[i].row
           got == run[i].got[p]
           status == VaultStatus(got.says)
           fresh == Fresh(p, got, run[i].walked[p], status, status \notin Unembedded)
           taken == Canonical(p) \ {r} # {}
           gone == r # NoDoc /\ docs[r].page = NoPage
       IN  CASE got.says \in {"blocked", "sealed"} ->
                  docs' = (IF r = NoDoc THEN docs ELSE [docs EXCEPT ![r] = Blank])
                  /\ UNCHANGED lastDoc
             [] got.says \notin {"blocked", "sealed"} /\ gone ->
                  docs' = (IF fresh.vecs > 0 THEN docs
                           ELSE [docs EXCEPT ![r] = [docs[r] EXCEPT !.text = fresh.text]])
                  /\ UNCHANGED lastDoc
             [] got.says \notin {"blocked", "sealed"} /\ ~gone /\ taken ->
                  UNCHANGED <<docs, lastDoc>>
             [] OTHER ->
                  /\ r = NoDoc => lastDoc < MaxDoc
                  /\ lastDoc' = IF r = NoDoc THEN lastDoc + 1 ELSE lastDoc
                  /\ docs' = [docs EXCEPT ![IF r = NoDoc THEN lastDoc' ELSE r] = fresh]
    /\ NextPage(i)
    /\ UNCHANGED <<file, now, kind, hidden>>

\* Mutant: rows of the durable store have no file either.
PruneAll(i) ==
    /\ PageAt(i, "pages") /\ run[i].todo = {} /\ NoRunInTransaction
    /\ docs' = [d \in Doc |->
          IF docs[d].page \notin {p \in Pages : run[i].walked[p] > 0} THEN Blank ELSE docs[d]]
    /\ Becomes(i, Idle)
    /\ UNCHANGED <<file, now, lastDoc, kind, hidden>>

\* Rows whose file the walk did not see, except those of _durable.
Prune(i) ==
    /\ PageAt(i, "pages") /\ run[i].todo = {} /\ NoRunInTransaction
    /\ docs' = [d \in Doc |->
          IF docs[d].page \in {p \in Pages : run[i].walked[p] = 0} THEN Blank ELSE docs[d]]
    /\ Becomes(i, Idle)
    /\ UNCHANGED <<file, now, lastDoc, kind, hidden>>

-----------------------------------------------------------------------------
(* The wiki indexer and the ingest: one transaction for the run *)

\* The gate: the wiki indexer compares the file with the mtime it stored, the
\* ingest with the time at which it indexed.
Skipped(i, p) ==
    \E d \in Canonical(p) : run[i].walked[p] <=
        (IF kind[i] = "wiki" THEN docs[d].mtime ELSE docs[d].stamp)

ParsePage(i) ==
    /\ PageAt(i, "parse")
    /\ IF run[i].todo = {} THEN PageGoto(i, "commit")
       ELSE \E p \in run[i].todo :
               Becomes(i, [run[i] EXCEPT
                   !.todo = @ \ {p},
                   !.page = p,
                   !.got = [@ EXCEPT ![p] = IF Skipped(i, p) THEN NoFile ELSE file[p]],
                   !.pc = IF Skipped(i, p) \/ file[p] = NoFile THEN "parse" ELSE "stamp"])
    /\ UNCHANGED <<file, now, docs, lastDoc, kind, hidden>>

\* now = time.time(), taken after the parse.
StampPage(i) ==
    /\ PageAt(i, "stamp")
    /\ LET p == run[i].page
       IN  /\ Becomes(i, [run[i] EXCEPT !.stamp = [@ EXCEPT ![p] = now], !.pc = "parse"])
           /\ hidden' = IF kind[i] = "ingest" /\ file[p] \notin {run[i].got[p], NoFile}
                        THEN hidden \cup {p} ELSE hidden
    /\ UNCHANGED <<file, now, docs, lastDoc, kind>>

(* Every page parsed: a completed plan keeps its row and loses its payload, a *)
(* page that does not validate is left as it was, a blocked one is purged,    *)
(* every other one is indexed with vectors. Rows without a file are pruned.   *)
Indexed(i, p, d) ==
    LET got == run[i].got[p]
        row == [Fresh(p, got, run[i].walked[p], got.says, TRUE)
                    EXCEPT !.stamp = run[i].stamp[p]]
    IN  CASE got.says = "complete" -> [row EXCEPT !.text = 0, !.vecs = 0]
          [] got.says = "blocked"  -> Blank
          [] got.says \in {"accepted", "draft"} -> row
          [] OTHER -> docs[d]

\* Of a new page only what is indexed gets a row.
CommitRun(i) ==
    /\ PageAt(i, "commit")
    /\ LET fresh == {p \in Pages : run[i].got[p].says \in {"accepted", "draft"}
                                   /\ Canonical(p) = {}}
           walked == {p \in Pages : run[i].walked[p] > 0}
       IN  /\ Cardinality(fresh) <= 1 /\ lastDoc + Cardinality(fresh) <= MaxDoc
           /\ lastDoc' = lastDoc + Cardinality(fresh)
           /\ docs' = [d \in Doc |->
                 IF d > lastDoc /\ d <= lastDoc'
                 THEN Indexed(i, CHOOSE p \in fresh : TRUE, d)
                 ELSE IF docs[d].page \in walked /\ docs[d].canon
                      THEN Indexed(i, docs[d].page, d)
                 ELSE IF docs[d].page \in walked /\ kind[i] = "wiki" THEN docs[d]
                 ELSE Blank]
    /\ Becomes(i, Idle)
    /\ UNCHANGED <<file, now, kind, hidden>>

IndexerStep(i) ==
    \/ Walk(i) \/ CollectAliases(i) \/ LookUp(i) \/ KeepUnchanged(i)
    \/ ReadPage(i) \/ WritePage(i) \/ Prune(i)
    \/ ParsePage(i) \/ StampPage(i) \/ CommitRun(i)

PageNext == (\E p \in Pages : Edit(p)) \/ (\E i \in Indexers : IndexerStep(i))

PageSpec == PageInit /\ [][PageNext]_pageVars
PageFairness == \A i \in Indexers : WF_pageVars(IndexerStep(i))
PageLiveSpec == PageSpec /\ PageFairness

-----------------------------------------------------------------------------
(* Properties *)

(* Types, and at most one row per path: documents.path is UNIQUE.             *)
PageTypeOK ==
    /\ \A p \in Pages : file[p].says \in Frontmatter \cup {"nothing"} /\ file[p].mtime \in 0..now
    /\ \A p \in Pages : Cardinality(Canonical(p)) <= 1
    /\ \A d \in Doc : docs[d].text \in 0..now /\ docs[d].vecs \in {0, docs[d].text}
                      /\ (d > lastDoc => docs[d] = Blank)
    /\ hidden \subseteq Pages

\* The gate of the indexer: is the row taken for up to date?
TakenForCurrent(d, p) ==
    file[p].mtime <= (IF \E i \in Indexers : kind[i] = "ingest"
                      THEN docs[d].stamp ELSE docs[d].mtime)

(* No edit is lost: a row the gate takes for up to date holds the text of the *)
(* file as it is (or none, for a completed plan), however edits fall between  *)
(* the walk, the read and the transaction, and however runs overlap           *)
(* (indexer.py:331). Except a page edited between the parse of the ingest and *)
(* the time it stamps (vault_ingest.py:234).                                  *)
NoEditIsLost ==
    \A p \in Pages \ hidden : \A d \in Canonical(p) :
        file[p] # NoFile /\ TakenForCurrent(d, p)
            => docs[d].text \in {file[p].mtime} \cup (IF docs[d].status = "complete" THEN {0} ELSE {})

(* The prune of the vault sweep spares the rows of promoted learnings, which  *)
(* never have a file (indexer.py:491).                                        *)
DurableRowsSurvive ==
    [][\A d \in Doc : docs[d].page \in Virtual => docs'[d] = docs[d]]_pageVars

(* Both: the indexers lose neither an edit nor a row that has no file.        *)
IndexersLoseNothing == []NoEditIsLost /\ DurableRowsSurvive

(* The index says of a page what its file says.                               *)
Settled(p) ==
    LET says == file[p].says
        vault == \E i \in Indexers : kind[i] = "vault"
    IN  CASE says = "nothing" -> RowsOf(p) = {}
          [] says = "blocked" -> RowsOf(p) = {}
          [] says = "sealed"  -> vault => RowsOf(p) = {}
          [] OTHER ->
               \E d \in Doc :
                  /\ vault \/ Canonical(p) # {} => d \in Canonical(p)
                  /\ vault => RowsOf(p) = {d}
                  /\ docs[d].text = file[p].mtime \/ (~vault /\ says = "complete")
                  /\ vault /\ says = "draft" => docs[d].vecs = 0

(* When the author stops, the sweeps settle every page: its text is indexed   *)
(* under one row, an unendorsed page has no vectors, a blocked or deleted one *)
(* no row. Except pages hidden by the stamp of the ingest, and sealed pages,  *)
(* which only the vault sweep purges.                                         *)
PagesSettle == \A p \in Pages : <>[](p \in hidden \/ Settled(p))
==============================================================================
