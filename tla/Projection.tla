------------------------------ MODULE Projection ------------------------------
(***************************************************************************)
(* How a durable learning becomes searchable text, and stops being it.     *)
(* Learnings with one (agent, content) share one document row: its         *)
(* identity is the digest of the pair (durable_doc_path). Three actors     *)
(* write that row, each in its own transaction: the commit that maps a     *)
(* learning to it (graph_commit), the post-commit index or purge the same  *)
(* handler delivers later (retrieval), and the repair sweep (backfill).    *)
(* A key below is one such pair; a row's text stands for its vault_fts row *)
(* and chunks. Authorisation of the writes is modelled in Governance.      *)
(***************************************************************************)
EXTENDS Naturals, FiniteSets, FiniteSetsExt

CONSTANTS
    Keys,        \* (agent, content) pairs
    Restricted,  \* keys whose frontmatter closes the row (draft, blocked, ...)
    Broken,      \* keys whose repair raises every time
    NoKey,       \* superseded_by NULL
    MaxLearn,    \* rows of learnings
    MaxOld,      \* ids one correction may supersede
    Batch,       \* LIMIT of one repair batch
    MaxFaults    \* lost deliveries, failed repairs and daemon restarts

ASSUME ProjectionAssumption ==
    /\ Restricted \subseteq Keys /\ Broken \subseteq Keys
    /\ NoKey \notin Keys
    /\ MaxLearn \in Nat /\ MaxOld \in Nat /\ Batch \in Nat \ {0}
    /\ MaxFaults \in Nat

LearnIds == 1..MaxLearn

\* joined: a learning_documents row maps the learning to the row of its key.
Learning == [status : {"absent", "active", "superseded"}, key : Keys,
             sup : 0..MaxLearn, joined : BOOLEAN]

Document == [page : {"none", "accepted", "draft", "superseded"},
             sup : Keys \cup {NoKey}, text : BOOLEAN]

\* A delivery a handler still owes after its commit, for learning "of"; "by"
\* is the learning whose commit owes it.
Delivery == [op : {"index", "purge"}, of : LearnIds, by : LearnIds]

\* The sweep: rows read for this batch and not looked at yet, the learning
\* whose text is being encoded (0: none), and the cursor kept between batches.
Sweep == [todo : SUBSET LearnIds, cur : 0..MaxLearn, cursor : 0..MaxLearn]

VARIABLES
    learn,   \* learnings and learning_documents
    doc,     \* documents and vault_fts, by key
    nLearn,  \* last AUTOINCREMENT id
    owed,    \* deliveries in the memory of handler threads
    sweep,   \* the repair sweep
    stale,   \* history: keys whose text outlived its learnings unpurged
    faults   \* faults so far

vars == <<learn, doc, nLearn, owed, sweep, stale, faults>>

-----------------------------------------------------------------------------
(* Reads *)

\* ACTIVE_LEARNING_SQL
IsActive(lv, l) == lv[l].status = "active" /\ lv[l].sup = 0

Having(lv, k) == {l \in LearnIds : lv[l].status # "absent" /\ lv[l].key = k}

Backed(lv, k) == \E l \in Having(lv, k) : IsActive(lv, l)

Mapped(lv, k) == {l \in Having(lv, k) : lv[l].joined}

ActiveNode(lv, k) == \E l \in Mapped(lv, k) : IsActive(lv, l)

\* canonical_node_learning_state: the row that the latest successor among the
\* mapped learnings is mapped to, if it is mapped at all.
Successor(lv, k) ==
    LET s == Max({lv[l].sup : l \in Mapped(lv, k)} \cup {0})
    IN  IF s # 0 /\ lv[s].joined THEN lv[s].key ELSE NoKey

\* durable_metadata
MetaPage(k) == IF k \in Restricted THEN "draft" ELSE "accepted"

\* projection_row_closed
Closed(row) == row.page \in {"draft", "superseded"}

NoDocument == [page |-> "none", sup |-> NoKey, text |-> FALSE]

-----------------------------------------------------------------------------
(* Commits *)

\* Mutant: reopening does not ask whether the new learning is active.
ReopensForAny(lv, k, n) ==
    /\ doc[k].page = "superseded" /\ k \notin Restricted
    /\ Mapped(lv, k) # {} /\ ~ActiveNode(lv, k)
    /\ doc[k].sup = Successor(lv, k)

\* _reconcile_new_active_mapping: the row's supersession is exactly what the
\* learnings already mapped to it explain, and the new learning is active.
Reopens(lv, k, n) ==
    /\ doc[k].page = "superseded" /\ k \notin Restricted
    /\ Mapped(lv, k) # {} /\ ~ActiveNode(lv, k)
    /\ doc[k].sup = Successor(lv, k)
    /\ IsActive(lv, n)

\* ensure_canonical_learning_node: the row is created without text, reopened,
\* or left as it is.
CanonicalRow(lv, k, n) ==
    IF doc[k].page = "none" THEN [NoDocument EXCEPT !.page = MetaPage(k)]
    ELSE IF Reopens(lv, k, n)
         THEN [doc[k] EXCEPT !.page = "accepted", !.sup = NoKey]
         ELSE doc[k]

\* A learning committed with its canonical node: force learn (which may set
\* superseded_by of any row, its own included, and purges nothing), the accept
\* paths and the AFM promotion (older = 0). The index delivery follows.
Learn(k, older) ==
    LET n     == nLearn + 1
        fresh == [learn EXCEPT ![n] = [status |-> "active", key |-> k,
                                       sup |-> 0, joined |-> FALSE]]
        lv    == IF older = 0 THEN fresh ELSE [fresh EXCEPT ![older].sup = n]
    IN  /\ nLearn < MaxLearn
        /\ older \in 0..n
        /\ learn' = [lv EXCEPT ![n].joined = TRUE]
        /\ doc' = [doc EXCEPT ![k] = CanonicalRow(lv, k, n)]
        /\ nLearn' = n
        /\ owed' = owed \cup {[op |-> "index", of |-> n, by |-> n]}
        /\ stale' = stale \cup {j \in Keys : /\ doc[j].text
                                             /\ Backed(learn, j)
                                             /\ ~Backed(lv, j)}
        /\ UNCHANGED <<sweep, faults>>

\* Mutant: only the first superseded id is purged.
CorrectPurgesOne(k, old) ==
    /\ nLearn < MaxLearn
    /\ old # {} /\ Cardinality(old) <= MaxOld /\ old \subseteq 1..nLearn
    /\ learn' = [l \in LearnIds |->
          IF l = nLearn + 1
          THEN [status |-> "active", key |-> k, sup |-> 0, joined |-> FALSE]
          ELSE IF l \in old
               THEN [learn[l] EXCEPT !.status = "superseded", !.sup = nLearn + 1]
               ELSE learn[l]]
    /\ nLearn' = nLearn + 1
    /\ owed' = owed \cup {[op |-> "purge", of |-> Min(old), by |-> nLearn + 1]}
    /\ UNCHANGED <<doc, sweep, stale, faults>>

\* Mutant: a rowid is issued twice.
CorrectReusesId(k, old) ==
    LET n == nLearn + 1
    IN  /\ nLearn < MaxLearn
        /\ old # {} /\ Cardinality(old) <= MaxOld /\ old \subseteq 1..nLearn
        /\ learn' = [l \in LearnIds |->
              IF l = n
              THEN [status |-> "active", key |-> k, sup |-> 0, joined |-> FALSE]
              ELSE IF l \in old
                   THEN [learn[l] EXCEPT !.status = "superseded", !.sup = n]
                   ELSE learn[l]]
        /\ owed' = owed \cup {[op |-> "purge", of |-> l, by |-> n] : l \in old}
        /\ UNCHANGED <<doc, nLearn, sweep, stale, faults>>

\* handle_resolve_contradiction: the new learning is neither mapped to a row
\* nor indexed; one purge per superseded id follows the commit.
Correct(k, old) ==
    LET n == nLearn + 1
    IN  /\ nLearn < MaxLearn
        /\ old # {} /\ Cardinality(old) <= MaxOld /\ old \subseteq 1..nLearn
        /\ learn' = [l \in LearnIds |->
              IF l = n
              THEN [status |-> "active", key |-> k, sup |-> 0, joined |-> FALSE]
              ELSE IF l \in old
                   THEN [learn[l] EXCEPT !.status = "superseded", !.sup = n]
                   ELSE learn[l]]
        /\ nLearn' = n
        /\ owed' = owed \cup {[op |-> "purge", of |-> l, by |-> n] : l \in old}
        /\ UNCHANGED <<doc, sweep, stale, faults>>

-----------------------------------------------------------------------------
(* Deliveries *)

\* index_durable_document at store time: the row is published again whatever
\* became of the learning since its commit; superseded_by is not touched.
DeliverIndex(d) ==
    LET k == learn[d.of].key
    IN  /\ d \in owed /\ d.op = "index"
        /\ doc' = [doc EXCEPT ![k].page = MetaPage(k), ![k].text = TRUE]
        /\ owed' = owed \ {d}
        /\ stale' = IF Backed(learn, k) THEN stale ELSE stale \cup {k}
        /\ UNCHANGED <<learn, nLearn, sweep, faults>>

\* purge_durable_document: an unmapped row goes; a row an active learning is
\* mapped to stays; any other row loses its text and, unless it was closed
\* already, is retired under the aggregate state of its learnings.
PurgedRow(k) ==
    IF Mapped(learn, k) = {} THEN NoDocument
    ELSE IF ActiveNode(learn, k) /\ ~Closed(doc[k]) THEN doc[k]
    ELSE IF Closed(doc[k]) THEN [doc[k] EXCEPT !.text = FALSE]
    ELSE [doc[k] EXCEPT !.text = FALSE, !.page = "superseded",
                        !.sup = Successor(learn, k)]

DeliverPurge(d) ==
    LET k == learn[d.of].key
    IN  /\ d \in owed /\ d.op = "purge"
        /\ doc' = [doc EXCEPT ![k] = PurgedRow(k)]
        /\ owed' = owed \ {d}
        /\ stale' = IF doc'[k].text THEN stale ELSE stale \ {k}
        /\ UNCHANGED <<learn, nLearn, sweep, faults>>

\* Both deliveries are fail-open: an error is logged and the delivery is gone.
LoseDelivery(d) ==
    LET k == learn[d.of].key
    IN  /\ d \in owed /\ faults < MaxFaults
        /\ owed' = owed \ {d}
        /\ stale' = IF d.op = "purge" /\ doc[k].text /\ ~Backed(learn, k)
                    THEN stale \cup {k} ELSE stale
        /\ faults' = faults + 1
        /\ UNCHANGED <<learn, doc, nLearn, sweep>>

-----------------------------------------------------------------------------
(* The repair sweep *)

SweepRows(after) == {l \in LearnIds : IsActive(learn, l) /\ l > after}

\* Mutant: the cursor does not wrap when the tail is exhausted.
ReadBatchNoWrap ==
    LET rows == SweepRows(sweep.cursor)
        head == {l \in rows : Cardinality({x \in rows : x <= l}) <= Batch}
    IN  /\ sweep.todo = {} /\ sweep.cur = 0
        /\ sweep' = [sweep EXCEPT !.todo = head,
                                  !.cursor = Max(head \cup {sweep.cursor})]
        /\ UNCHANGED <<learn, doc, nLearn, owed, stale, faults>>

\* _cursor_batch: the next active learnings after the cursor, wrapping to the
\* head; the cursor moves before any row of the batch is looked at.
ReadBatch ==
    LET tail == SweepRows(sweep.cursor)
        rows == IF tail = {} THEN SweepRows(0) ELSE tail
        head == {l \in rows : Cardinality({x \in rows : x <= l}) <= Batch}
    IN  /\ sweep.todo = {} /\ sweep.cur = 0
        /\ sweep' = [sweep EXCEPT !.todo = head, !.cursor = Max(head \cup {0})]
        /\ UNCHANGED <<learn, doc, nLearn, owed, stale, faults>>

\* backfill_learning_projections, one row: skip a row with text, a closed row
\* and text whose metadata is closed; otherwise start to encode.
LookAtRow ==
    LET l == Min(sweep.todo)
        k == learn[l].key
        skip == doc[k].text \/ Closed(doc[k]) \/ k \in Restricted
    IN  /\ sweep.todo # {} /\ sweep.cur = 0
        /\ sweep' = [sweep EXCEPT !.todo = @ \ {l},
                                  !.cur = IF skip THEN 0 ELSE l]
        /\ UNCHANGED <<learn, doc, nLearn, owed, stale, faults>>

\* index_durable_document, repair_projection: liveness, an existing text and
\* the stored row's state are read again in the transaction that fills it.
RepairedRow(k) ==
    IF ~Backed(learn, k) \/ doc[k].text \/ Closed(doc[k]) THEN doc[k]
    ELSE [doc[k] EXCEPT !.page = IF @ = "none" THEN MetaPage(k) ELSE @,
                        !.text = TRUE]

CommitRepair ==
    LET k == learn[sweep.cur].key
    IN  /\ sweep.cur # 0 /\ k \notin Broken
        /\ doc' = [doc EXCEPT ![k] = RepairedRow(k)]
        /\ sweep' = [sweep EXCEPT !.cur = 0]
        /\ UNCHANGED <<learn, nLearn, owed, stale, faults>>

\* The exception is counted and logged; the sweep goes on with the next row.
FailRepair ==
    /\ sweep.cur # 0
    /\ \/ learn[sweep.cur].key \in Broken /\ faults' = faults
       \/ faults < MaxFaults /\ faults' = faults + 1
    /\ sweep' = [sweep EXCEPT !.cur = 0]
    /\ UNCHANGED <<learn, doc, nLearn, owed, stale>>

\* The daemon stops: deliveries, batch and cursor were in its memory only.
Restart ==
    /\ faults < MaxFaults /\ faults' = faults + 1
    /\ stale' = stale \cup {k \in Keys :
                               /\ doc[k].text /\ ~Backed(learn, k)
                               /\ \E d \in owed : /\ d.op = "purge"
                                                  /\ learn[d.of].key = k}
    /\ owed' = {}
    /\ sweep' = [todo |-> {}, cur |-> 0, cursor |-> 0]
    /\ UNCHANGED <<learn, doc, nLearn>>

-----------------------------------------------------------------------------
Init ==
    \E k \in Keys :
        learn = [l \in LearnIds |-> [status |-> "absent", key |-> k,
                                     sup |-> 0, joined |-> FALSE]]
    /\ doc = [j \in Keys |-> NoDocument]
    /\ nLearn = 0 /\ owed = {} /\ stale = {} /\ faults = 0
    /\ sweep = [todo |-> {}, cur |-> 0, cursor |-> 0]

Deliver(d) == DeliverIndex(d) \/ DeliverPurge(d)

Repair == ReadBatch \/ LookAtRow \/ CommitRepair \/ FailRepair

Next ==
    \/ \E k \in Keys, older \in 0..MaxLearn : Learn(k, older)
    \/ \E k \in Keys, old \in SUBSET LearnIds : Correct(k, old)
    \/ \E d \in owed : DeliverIndex(d)
    \/ \E d \in owed : DeliverPurge(d)
    \/ \E d \in owed : LoseDelivery(d)
    \/ ReadBatch \/ LookAtRow \/ CommitRepair \/ FailRepair
    \/ Restart

Spec == Init /\ [][Next]_vars

\* The runner starts a sweep every interval for as long as the daemon lives,
\* and a handler thread runs its deliveries to the end.
LiveSpec ==
    Spec /\ WF_vars(Repair) /\ WF_vars(\E d \in owed : Deliver(d))

-----------------------------------------------------------------------------
(* Properties *)

\* Rows, deliveries and the sweep keep the shapes the schema and the code give
\* them; ids beyond the last one issued were never inserted.
TypeOK ==
    /\ learn \in [LearnIds -> Learning]
    /\ doc \in [Keys -> Document]
    /\ nLearn \in 0..MaxLearn
    /\ owed \subseteq Delivery
    /\ sweep \in Sweep
    /\ stale \subseteq Keys
    /\ faults \in 0..MaxFaults
    /\ \A l \in LearnIds : l > nLearn <=> learn[l].status = "absent"

\* A row retired as superseded (purge_durable_document, projection_row_closed)
\* carries no text, whichever of commit, index, purge and repair ran last.
RetiredHasNoText ==
    \A k \in Keys : doc[k].page = "superseded" => ~doc[k].text

\* Text that no active learning backs is on its way out: a purge of its row is
\* owed, or its learnings went in one of the ways nothing purges (a forced
\* supersession, a lost purge, an index delivered late). In particular the
\* purge that spares a shared row leaves nothing behind once the learning it
\* was spared for is corrected too.
UnbackedTextIsOwedAPurge ==
    \A k \in Keys : doc[k].text /\ ~Backed(learn, k) =>
        \/ k \in stale
        \/ \E d \in owed : d.op = "purge" /\ learn[d.of].key = k

\* Text and status of a row agree, or the step that makes them agree is owed.
TextFollowsStatus == RetiredHasNoText /\ UnbackedTextIsOwedAPurge

\* The text of a row follows its learnings. No step takes it from a learning
\* that stays active and mapped to the row: correcting one of several learnings
\* of a shared row (N:1 liveness in purge_durable_document) leaves the others
\* searchable. The repair gives text to no row whose learning is gone or that
\* was closed after its cursor was taken ("learnings do not regain visibility
\* through repair"), and a commit reopens a retired row only for a learning that
\* is active and mapped to it once the commit is done.
TextIsEarned ==
    [][\A k \in Keys :
          /\ /\ doc[k].text /\ ~Closed(doc[k])
             /\ \E l \in Mapped(learn, k) : IsActive(learn, l) /\ IsActive(learn', l)
             => doc'[k].text
          /\ ~doc[k].text /\ doc'[k].text /\ owed' = owed =>
                 Backed(learn, k) /\ ~Closed(doc[k])
          /\ doc[k].page = "superseded" /\ doc'[k].page = "accepted" /\ ~doc'[k].text =>
                 \E l \in Mapped(learn', k) : IsActive(learn', l)]_vars

\* An active learning whose row is open, and whose repair does not raise,
\* gets its text: the cursor starves no row behind a failing one, and a lost
\* delivery or a restart is made good (_cursor_batch, _backfill_runner).
Repairable(k) == Backed(learn, k) /\ k \notin Restricted /\ ~Closed(doc[k])

RepairReachesEveryRow ==
    \A k \in Keys \ Broken : Repairable(k) ~> (doc[k].text \/ ~Repairable(k))

\* "superseded learnings must stop surfacing in doc search": once nothing is
\* owed, the text of a corrected learning is only there for another learning.
CorrectedStopsSurfacing ==
    owed = {} => \A l \in LearnIds :
        learn[l].status = "superseded" /\ doc[learn[l].key].text =>
            Backed(learn, learn[l].key)
=============================================================================
