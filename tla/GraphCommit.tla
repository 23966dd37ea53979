----------------------------- MODULE GraphCommit -----------------------------
(***************************************************************************)
(* The two-phase write of a learning with its edges (graph_coordinator).   *)
(* Phase A runs outside any transaction: targets are read from the index,  *)
(* shown to a classifier and kept as a detached payload. Phase B writes the *)
(* learning, its node, its edges and the retirements in one transaction,   *)
(* after reading every target again. A standing repair fills the node of   *)
(* one committed learning the same way and may not retire. A node is the   *)
(* document of one (agent, text) pair; what the classifier answers is a    *)
(* choice, and the validation of its answer is left out.                   *)
(***************************************************************************)
EXTENDS Naturals, FiniteSets, FiniteSetsExt

CONSTANTS
    Owners,       \* agents
    Readers,      \* agents whose principal reads every agent's nodes
    Texts,        \* contents of learnings
    Committers,   \* callers of the coordinator
    NoNode,       \* superseded_by NULL
    Answers,      \* the verdicts the classifier gives
    MaxRows,      \* rows of learnings
    MaxPairs,     \* MAX_CLASSIFIER_PAIRS
    MaxDrift,     \* changes from outside the coordinator
    MaxGraphCalls \* calls of the coordinator

\* What a persisted classification says of the pair (new, target): the new one
\* updates the target at the floor for supersession or below it, the target
\* updates the new one, they contradict each other, the new one extends it.
Verdicts == {"replaces", "refines", "replaced", "disputes", "extends"}

ASSUME GraphAssumption ==
    /\ Readers \subseteq Owners /\ Owners # {} /\ Texts # {}
    /\ NoNode \notin Owners \X Texts
    /\ MaxRows \in Nat /\ MaxPairs \in Nat /\ MaxDrift \in Nat
    /\ MaxGraphCalls \in Nat
    /\ Answers \subseteq Verdicts

RowIds == 1..MaxRows
Nodes  == Owners \X Texts

Row == [status : {"absent", "active", "superseded", "expired"},
        node : Nodes, sup : 0..MaxRows]

\* "other" is an open page_status that is not accepted; "shut" stands for
\* rejected, expired, draft and blocked.
Node == [page : {"none", "accepted", "other", "superseded", "shut"},
         sup : Nodes \cup {NoNode}, text : BOOLEAN, vectors : BOOLEAN]

\* One call: a learning to write, or a committed one to repair (of # 0);
\* supersedes is LearningFields.supersedes.
Call == [step : {"idle", "search", "ready"}, by : Owners, node : Nodes,
         of : 0..MaxRows, supersedes : 0..MaxRows, vectors : BOOLEAN,
         seen : [Nodes -> {"unread", "accepted", "other"}],
         found : UNION {[ns -> Verdicts] : ns \in SUBSET Nodes}]

VARIABLES
    learnt,      \* learnings and learning_documents
    nodes,       \* documents, vault_fts and chunk_embeddings
    links,       \* typed memory_links
    asks,        \* pending graph_update_review rows: <<new, old>>
    payloads,    \* prepared, in the callers' hands
    drifts,      \* changes from outside so far
    nGraphCalls  \* calls so far

graphVars == <<learnt, nodes, links, asks, payloads, drifts, nGraphCalls>>

-----------------------------------------------------------------------------
(* Reads *)

\* ACTIVE_LEARNING_SQL
Lives(rv, l) == rv[l].status = "active" /\ rv[l].sup = 0

Members(rv, n) == {l \in RowIds : rv[l].status # "absent" /\ rv[l].node = n}

LiveMembers(rv, n) == {l \in Members(rv, n) : Lives(rv, l)}

\* can_read_document, for memory whose owner keeps it to itself
MayRead(a, n) == a \in Readers \/ n[1] = a

\* _metadata_eligible
Open(n) == nodes[n].page \in {"accepted", "other"}

\* projection_row_closed
Shut(n) == nodes[n].page \in {"superseded", "shut"}

NoPayload == [step |-> "idle", by |-> CHOOSE a \in Owners : TRUE,
        node |-> CHOOSE n \in Nodes : TRUE,
            of |-> 0, supersedes |-> 0, vectors |-> FALSE,
            seen |-> [n \in Nodes |-> "unread"], found |-> <<>>]

Seen(k) == {n \in Nodes : payloads[k].seen[n] # "unread"}

-----------------------------------------------------------------------------
(* Phase A: no transaction is open *)

\* prepare_learning_with_graph up to the search. With the graph on, a text
\* that cannot be embedded is an error and nothing was prepared.
Prepare(k, a, t, old, graph, vec) ==
    /\ payloads[k].step = "idle" /\ nGraphCalls < MaxGraphCalls /\ (graph => vec)
    /\ old # 0 => learnt[old].status # "absent"
    /\ payloads' = [payloads EXCEPT ![k] =
           [NoPayload EXCEPT !.by = a, !.step = IF graph THEN "search" ELSE "ready",
                           !.node = <<a, t>>, !.supersedes = old,
                           !.vectors = vec]]
    /\ nGraphCalls' = nGraphCalls + 1
    /\ UNCHANGED <<learnt, nodes, links, asks, drifts>>

\* repair_learning_projection up to the search, under principal a. Without
\* vectors it goes on with the text alone.
PrepareRepair(k, a, l, vec) ==
    /\ payloads[k].step = "idle" /\ nGraphCalls < MaxGraphCalls /\ Lives(learnt, l)
    /\ payloads' = [payloads EXCEPT ![k] =
           [NoPayload EXCEPT !.by = a, !.step = IF vec THEN "search" ELSE "ready",
                           !.node = learnt[l].node, !.of = l, !.vectors = vec]]
    /\ nGraphCalls' = nGraphCalls + 1
    /\ UNCHANGED <<learnt, nodes, links, asks, drifts>>

\* prepare_candidate_shortlist: a hit is admitted on its stored metadata, of
\* which _capture_target_metadata keeps a copy.
ReadTarget(k, n) ==
    /\ payloads[k].step = "search" /\ payloads[k].seen[n] = "unread"
    /\ Cardinality(Seen(k)) < MaxPairs
    /\ nodes[n].vectors /\ MayRead(payloads[k].by, n) /\ Open(n)
    /\ payloads' = [payloads EXCEPT ![k].seen[n] = nodes[n].page]
    /\ UNCHANGED <<learnt, nodes, links, asks, drifts, nGraphCalls>>

\* The texts of the shortlist are read and the classifier's answer validated;
\* what is below the persist floor leaves no finding.
Classify(k, found) ==
    /\ payloads[k].step = "search"
    /\ \A n \in Seen(k) : Open(n) /\ nodes[n].text
    /\ DOMAIN found \subseteq Seen(k)
    /\ payloads' = [payloads EXCEPT ![k].step = "ready", ![k].found = found]
    /\ UNCHANGED <<learnt, nodes, links, asks, drifts, nGraphCalls>>

\* A text could not be read or the classifier failed: a new learning stays
\* unwritten, a repair goes on without edges.
ClassifyFails(k) ==
    /\ payloads[k].step = "search" /\ Seen(k) # {}
    /\ payloads' = IF payloads[k].of = 0
                THEN [payloads EXCEPT ![k] = NoPayload]
                ELSE [payloads EXCEPT ![k].step = "ready"]
    /\ UNCHANGED <<learnt, nodes, links, asks, drifts, nGraphCalls>>

-----------------------------------------------------------------------------
(* Phase B: one transaction *)

\* Mutant: a target that backs no active learning any more is let through.
StaleIfDrifted(rv, k, n) ==
    \/ ~MayRead(payloads[k].by, n)
    \/ nodes[n].page # payloads[k].seen[n]
    \/ ~nodes[n].text

\* _revalidate_target
Stale(rv, k, n) ==
    \/ ~MayRead(payloads[k].by, n)
    \/ nodes[n].page # payloads[k].seen[n]
    \/ ~nodes[n].text
    \/ LiveMembers(rv, n) = {}

Targets(k) == DOMAIN payloads[k].found \ {payloads[k].node}

\* _bind_edges
Bound(k) ==
    LET s == payloads[k].node
        Edges(n) ==
            CASE payloads[k].found[n] \in {"replaces", "refines"} -> {<<s, n, "updates">>}
              [] payloads[k].found[n] = "replaced" -> {<<n, s, "updates">>}
              [] payloads[k].found[n] = "disputes" ->
                     {<<s, n, "contradicts">>, <<n, s, "contradicts">>}
              [] OTHER -> {<<s, n, "extends">>}
    IN  UNION {Edges(n) : n \in Targets(k)}

\* _plan_updates_action: the targets whose learnings a commit retires.
Retiring(k) == {n \in Targets(k) : /\ payloads[k].found[n] = "replaces"
                                   /\ n[1] = payloads[k].node[1]}

\* The member a review of target n names: for one that would be retired an
\* active one, the first one otherwise.
Reviewed(rv, k, n) ==
    LET live == LiveMembers(rv, n)
    IN  Min(IF payloads[k].found[n] = "replaces" /\ live # {}
            THEN live ELSE Members(rv, n))

\* _queue_update_review, for the targets ns and learning l; a pending review
\* of the same two learnings is kept.
Reviews(rv, k, l, ns) ==
    {<<l, Reviewed(rv, k, n)>> : n \in
        {m \in ns : payloads[k].found[m] \in {"replaces", "refines", "replaced"}}}

\* ensure_canonical_learning_node and _fill_projection, for a row that is open
Filled(k) == [nodes[payloads[k].node] EXCEPT
                 !.page = IF @ = "none" THEN "accepted" ELSE @,
                 !.text = TRUE, !.vectors = @ \/ payloads[k].vectors]

\* The row of the new learning, and of the one its caller says it supersedes.
Inserted(k, l) ==
    LET old  == payloads[k].supersedes
        base == [learnt EXCEPT ![l] = [status |-> "active", sup |-> 0,
                                     node |-> payloads[k].node]]
    IN  IF old = 0 THEN base ELSE [base EXCEPT ![old].sup = l]

FreeIds == {l \in RowIds : learnt[l].status = "absent"}

Refused(k, rv) == Shut(payloads[k].node)
                  \/ \E n \in DOMAIN payloads[k].found : Stale(rv, k, n)

\* commit_prepared_learning and its outer transaction
Commit(k) ==
    LET l  == Min(FreeIds)
        rv == Inserted(k, l)
        rs == UNION {LiveMembers(rv, n) : n \in Retiring(k)}
        s  == payloads[k].node
    IN  /\ payloads[k].step = "ready" /\ payloads[k].of = 0 /\ FreeIds # {}
        /\ ~Refused(k, rv)
        /\ learnt' = [m \in RowIds |->
               IF m \in rs THEN [rv[m] EXCEPT !.status = "superseded", !.sup = l]
                           ELSE rv[m]]
        /\ nodes' = [n \in Nodes |->
               IF n = s THEN Filled(k)
               ELSE IF n \in Retiring(k) /\ nodes[n].page = "accepted"
                       /\ LiveMembers(learnt', n) = {}
               THEN [nodes[n] EXCEPT !.page = "superseded", !.sup = s]
               ELSE nodes[n]]
        /\ links' = links \cup Bound(k)
        /\ asks' = asks \cup Reviews(rv, k, l, Targets(k) \ Retiring(k))
        /\ payloads' = [payloads EXCEPT ![k] = NoPayload]
        /\ UNCHANGED <<drifts, nGraphCalls>>

\* The transaction of repair_learning_projection: the learning is read again,
\* and a target that qualifies for retirement is queued for review instead.
CommitRepair(k) ==
    LET l == payloads[k].of
    IN  /\ payloads[k].step = "ready" /\ l # 0
        /\ Lives(learnt, l) /\ ~Refused(k, learnt)
        /\ nodes' = [nodes EXCEPT ![payloads[k].node] = Filled(k)]
        /\ links' = links \cup Bound(k)
        /\ asks' = asks \cup Reviews(learnt, k, l, Targets(k))
        /\ payloads' = [payloads EXCEPT ![k] = NoPayload]
        /\ UNCHANGED <<learnt, drifts, nGraphCalls>>

\* GraphCommitAborted: the transaction is rolled back.
Abort(k) ==
    /\ payloads[k].step = "ready"
    /\ IF payloads[k].of = 0
       THEN FreeIds # {} /\ Refused(k, Inserted(k, Min(FreeIds)))
       ELSE ~Lives(learnt, payloads[k].of) \/ Refused(k, learnt)
    /\ payloads' = [payloads EXCEPT ![k] = NoPayload]
    /\ UNCHANGED <<learnt, nodes, links, asks, drifts, nGraphCalls>>

-----------------------------------------------------------------------------
(* What the rest of the daemon does between the phases *)

Drifts == drifts < MaxDrift /\ drifts' = drifts + 1

\* A learning expires.
LearningExpires(l) ==
    /\ Lives(learnt, l)
    /\ learnt' = [learnt EXCEPT ![l].status = "expired"]
    /\ Drifts /\ UNCHANGED <<nodes, links, asks, payloads, nGraphCalls>>

\* purge_durable_document, for a row that learnings are mapped to
Purge(n) ==
    LET sup  == Max({learnt[l].sup : l \in Members(learnt, n)} \cup {0})
        gone == [nodes[n] EXCEPT !.text = FALSE, !.vectors = FALSE]
    IN  /\ Members(learnt, n) # {} /\ nodes[n].text
        /\ LiveMembers(learnt, n) = {} \/ Shut(n)
        /\ nodes' = [nodes EXCEPT ![n] =
               IF Shut(n) THEN gone
               ELSE [gone EXCEPT !.page = IF sup = 0 THEN "shut" ELSE "superseded",
                                 !.sup = IF sup = 0 THEN NoNode
                                                    ELSE learnt[sup].node]]
        /\ Drifts /\ UNCHANGED <<learnt, links, asks, payloads, nGraphCalls>>

\* The document row is relabelled, or restricted.
Relabel(n, page) ==
    /\ Open(n) /\ page \in {"other", "shut"} /\ page # nodes[n].page
    /\ nodes' = [nodes EXCEPT ![n].page = page]
    /\ Drifts /\ UNCHANGED <<learnt, links, asks, payloads, nGraphCalls>>

-----------------------------------------------------------------------------
GraphInit ==
    /\ learnt = [l \in RowIds |-> [status |-> "absent", sup |-> 0,
                                    node |-> CHOOSE n \in Nodes : TRUE]]
    /\ nodes = [n \in Nodes |-> [page |-> "none", sup |-> NoNode,
                                 text |-> FALSE, vectors |-> FALSE]]
    /\ links = {} /\ asks = {} /\ drifts = 0 /\ nGraphCalls = 0
    /\ payloads = [k \in Committers |-> NoPayload]

CallNext(k) ==
    \/ \E a \in Owners, t \in Texts, old \in 0..MaxRows, graph, vec \in BOOLEAN :
           Prepare(k, a, t, old, graph, vec)
    \/ \E a \in Owners, l \in RowIds, vec \in BOOLEAN : PrepareRepair(k, a, l, vec)
    \/ \E n \in Nodes : ReadTarget(k, n)
    \/ \E ns \in SUBSET Seen(k) : \E found \in [ns -> Answers] : Classify(k, found)
    \/ ClassifyFails(k) \/ Commit(k) \/ CommitRepair(k) \/ Abort(k)

GraphNext ==
    \/ \E k \in Committers : CallNext(k)
    \/ \E l \in RowIds : LearningExpires(l)
    \/ \E n \in Nodes : Purge(n)
    \/ \E n \in Nodes, page \in {"other", "shut"} : Relabel(n, page)

GraphSpec == GraphInit /\ [][GraphNext]_graphVars

-----------------------------------------------------------------------------
(* Properties *)

\* The tables and the payloads keep the shapes of their schemas (documents,
\* learnings, memory_links, PreparedLearningCommit).
GraphTypeOK ==
    /\ learnt \in [RowIds -> Row]
    /\ nodes \in [Nodes -> Node]
    /\ links \subseteq Nodes \X Nodes \X {"updates", "contradicts", "extends"}
    /\ asks \subseteq RowIds \X RowIds
    /\ \A k \in Committers : payloads[k] \in Call
    /\ drifts \in 0..MaxDrift /\ nGraphCalls \in 0..MaxGraphCalls

\* A step that closes learnings as superseded brings their successor with it:
\* a new active learning of the same agent with another text; it leaves none
\* of their siblings active and no accepted page behind (retire_superseded_
\* members). A learning no step of its own closed is not on a superseded page.
RetirementIsComplete ==
    \A l \in RowIds :
        learnt[l].status = "active" /\ learnt'[l].status = "superseded" =>
            LET s == learnt'[l].sup
                n == learnt'[l].node
            IN  /\ learnt[s].status = "absent" /\ Lives(learnt', s)
                /\ learnt'[s].node[1] = n[1] /\ learnt'[s].node # n
                /\ LiveMembers(learnt', n) = {}
                /\ nodes'[n].page # "accepted"

\* An edge is written between nodes that back active learnings then: evidence
\* gathered before the transaction is not used for memory that died meanwhile.
EdgesJoinLiveMemory ==
    \A e \in links' \ links : \A i \in {1, 2} :
        \E l \in RowIds : learnt'[l].node = e[i] /\ (Lives(learnt, l) \/ Lives(learnt', l))

\* graph_coordinator: what the classifier saw before the transaction closes or
\* joins memory only as it stands in the transaction, and no active learning
\* is left on a page that says superseded.
GraphWritesAreEarned ==
    [][/\ RetirementIsComplete /\ EdgesJoinLiveMemory
       /\ \A n \in Nodes : nodes'[n].page = "superseded" => LiveMembers(learnt', n) = {}
      ]_graphVars
===============================================================================
