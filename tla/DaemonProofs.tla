----------------------------- MODULE DaemonProofs -----------------------------
(***************************************************************************)
(* Proofs about parts of the daemon that MCDaemon checks: the graph        *)
(* coordinator, the semantic index and the index of pages.                 *)
(***************************************************************************)
EXTENDS MCDaemon, TLAPS, FiniteSetTheorems

-----------------------------------------------------------------------------
(* The coordinator: GraphCommit *)

LEMMA LeastNat ==
    ASSUME NEW S \in SUBSET Nat, S # {}
    PROVE  \E x \in S : \A y \in S : x <= y
<1> DEFINE R == StrictSubsetOrdering(Nat)
           T == {0..x : x \in S}
<1>1. IsWellFoundedOn(R, FiniteSubsetsOf(Nat))
  BY FS_StrictSubsetOrderingWellFounded
<1>2. T \subseteq FiniteSubsetsOf(Nat) /\ T # {}
  <2>1. ASSUME NEW x \in S PROVE 0..x \in FiniteSubsetsOf(Nat)
    <3>1. IsFiniteSet(0..x)
      BY FS_Interval
    <3> QED BY <3>1 DEF FiniteSubsetsOf
  <2> QED BY <2>1
<1>3. PICK t \in T : \A u \in T : <<u, t>> \notin R
  <2> HIDE DEF R, T
  <2> QED BY <1>1, <1>2, WFMin
<1>4. PICK x \in S : t = 0..x
  OBVIOUS
<1>5. ASSUME NEW y \in S PROVE x <= y
  <2>1. <<0..y, 0..x>> \notin R
    BY <1>3, <1>4
  <2>2. 0..y \in SUBSET Nat /\ 0..x \in SUBSET Nat
    OBVIOUS
  <2>3. 0..y \subseteq 0..x => 0..y = 0..x
    BY <2>1, <2>2 DEF StrictSubsetOrdering
  <2>4. CASE ~(x <= y)
    <3>1. 0..y \subseteq 0..x /\ x \in 0..x /\ x \notin 0..y
      BY <2>4
    <3> QED BY <2>3, <3>1
  <2> QED BY <2>4
<1> QED BY <1>5

LEMMA MinOf ==
    ASSUME NEW S \in SUBSET Nat, S # {}
    PROVE  Min(S) \in S /\ \A y \in S : Min(S) <= y
BY LeastNat DEF Min

\* What a payload names is there, and no learning lives on a superseded page.
GraphShape ==
    /\ learnt \in [RowIds -> Row]
    /\ nodes \in [Nodes -> Node]
    /\ links \subseteq Nodes \X Nodes \X {"updates", "contradicts", "extends"}
    /\ asks \subseteq RowIds \X RowIds
    /\ payloads \in [Committers -> Call]
    /\ drifts \in 0..MaxDrift /\ nGraphCalls \in 0..MaxGraphCalls
PayloadsAreOfRows ==
    \A k \in Committers :
        /\ payloads[k].supersedes # 0 => learnt[payloads[k].supersedes].status # "absent"
        /\ payloads[k].of # 0 => /\ learnt[payloads[k].of].status # "absent"
                                /\ learnt[payloads[k].of].node = payloads[k].node
SupersededIsDead ==
    \A n \in Nodes : nodes[n].page = "superseded" => LiveMembers(learnt, n) = {}

GraphInv == GraphShape /\ PayloadsAreOfRows /\ SupersededIsDead

LEMMA NodesExist == Nodes # {}
<1>1. PICK a \in Owners, t \in Texts : TRUE
  BY GraphAssumption
<1>2. <<a, t>> \in Nodes
  BY DEF Nodes
<1> QED BY <1>2

LEMMA NoPayloadIsCall == NoPayload \in Call /\ NoPayload.of = 0 /\ NoPayload.supersedes = 0
<1>1. (CHOOSE a \in Owners : TRUE) \in Owners
  BY GraphAssumption
<1>2. (CHOOSE n \in Nodes : TRUE) \in Nodes
  BY NodesExist
<1>3. <<>> \in UNION {[ns -> Verdicts] : ns \in SUBSET Nodes}
  <2>1. <<>> \in [{} -> Verdicts]
    OBVIOUS
  <2> QED BY <2>1
<1> QED BY <1>1, <1>2, <1>3, GraphAssumption DEF NoPayload, Call

LEMMA GraphInitInv == GraphInit => GraphInv
<1> SUFFICES ASSUME GraphInit PROVE GraphInv
  OBVIOUS
<1>1. (CHOOSE n \in Nodes : TRUE) \in Nodes
  BY NodesExist
<1>2. GraphShape
  BY <1>1, NoPayloadIsCall, GraphAssumption DEF GraphInit, GraphShape, Row, Node
<1>3. PayloadsAreOfRows /\ SupersededIsDead
  BY NoPayloadIsCall DEF GraphInit, PayloadsAreOfRows, SupersededIsDead
<1> QED BY <1>2, <1>3 DEF GraphInv

\* A step of one caller's payload.
LEMMA PayloadStep ==
    ASSUME GraphInv, NEW k \in Committers, NEW p \in Call,
           payloads' = [payloads EXCEPT ![k] = p],
           p.supersedes # 0 => learnt[p.supersedes].status # "absent",
           p.of # 0 => learnt[p.of].status # "absent" /\ learnt[p.of].node = p.node,
           UNCHANGED <<learnt, nodes, links, asks, drifts>>, nGraphCalls' \in 0..MaxGraphCalls
    PROVE  GraphInv'
<1>1. /\ payloads' \in [Committers -> Call] /\ payloads'[k] = p
      /\ \A c \in Committers : c # k => payloads'[c] = payloads[c]
  BY DEF GraphInv, GraphShape
<1>2. GraphShape'
  BY <1>1 DEF GraphInv, GraphShape
<1>3. PayloadsAreOfRows'
  BY <1>1 DEF GraphInv, PayloadsAreOfRows
<1>4. SupersededIsDead'
  BY DEF GraphInv, SupersededIsDead, LiveMembers, Members, Lives
<1> QED BY <1>2, <1>3, <1>4 DEF GraphInv

LEMMA PrepareKeepsGraph ==
    ASSUME GraphInv, NEW k \in Committers, NEW a \in Owners, NEW t \in Texts,
           NEW old \in 0..MaxRows, NEW graph \in BOOLEAN, NEW vec \in BOOLEAN,
           Prepare(k, a, t, old, graph, vec)
    PROVE  GraphInv'
<1>1. PICK p \in Call : /\ payloads' = [payloads EXCEPT ![k] = p]
                        /\ p.supersedes = old /\ p.of = 0
  <2> DEFINE p == [NoPayload EXCEPT !.by = a, !.step = IF graph THEN "search" ELSE "ready",
                                    !.node = <<a, t>>, !.supersedes = old, !.vectors = vec]
  <2>1. <<a, t>> \in Nodes
    BY DEF Nodes
  <2>2. p \in Call /\ p.supersedes = old /\ p.of = 0
    BY <2>1, NoPayloadIsCall DEF Call
  <2>3. payloads' = [payloads EXCEPT ![k] = p]
    BY DEF Prepare
  <2> QED BY <2>2, <2>3
<1>2. nGraphCalls' \in 0..MaxGraphCalls
  BY GraphAssumption DEF Prepare, GraphInv, GraphShape
<1> QED BY <1>1, <1>2, PayloadStep DEF Prepare

LEMMA RepairKeepsGraph ==
    ASSUME GraphInv, NEW k \in Committers, NEW a \in Owners, NEW l \in RowIds,
           NEW vec \in BOOLEAN, PrepareRepair(k, a, l, vec)
    PROVE  GraphInv'
<1>1. PICK p \in Call : /\ payloads' = [payloads EXCEPT ![k] = p]
                        /\ p.supersedes = 0 /\ p.of = l /\ p.node = learnt[l].node
  <2> DEFINE p == [NoPayload EXCEPT !.by = a, !.step = IF vec THEN "search" ELSE "ready",
                                    !.node = learnt[l].node, !.of = l, !.vectors = vec]
  <2>1. learnt[l].node \in Nodes /\ l \in 0..MaxRows
    BY GraphAssumption DEF GraphInv, GraphShape, Row, RowIds
  <2>2. p \in Call /\ p.supersedes = 0 /\ p.of = l /\ p.node = learnt[l].node
    BY <2>1, NoPayloadIsCall DEF Call
  <2>3. payloads' = [payloads EXCEPT ![k] = p]
    BY DEF PrepareRepair
  <2> QED BY <2>2, <2>3
<1>2. nGraphCalls' \in 0..MaxGraphCalls
  BY GraphAssumption DEF PrepareRepair, GraphInv, GraphShape
<1>3. learnt[l].status # "absent"
  BY DEF PrepareRepair, Lives
<1> QED BY <1>1, <1>2, <1>3, PayloadStep DEF PrepareRepair

LEMMA ReadKeepsGraph ==
    ASSUME GraphInv, NEW k \in Committers, NEW n \in Nodes, ReadTarget(k, n)
    PROVE  GraphInv'
<1>1. payloads[k] \in Call /\ nodes[n].page \in {"accepted", "other"}
  BY DEF GraphInv, GraphShape, ReadTarget, Open
<1>2. PICK p \in Call : /\ payloads' = [payloads EXCEPT ![k] = p]
                        /\ p.supersedes = payloads[k].supersedes
                        /\ p.of = payloads[k].of /\ p.node = payloads[k].node
  <2> DEFINE seen == [payloads[k].seen EXCEPT ![n] = nodes[n].page]
             p == [payloads[k] EXCEPT !.seen = seen]
  <2>1. seen \in [Nodes -> {"unread", "accepted", "other"}]
    BY <1>1 DEF Call
  <2>2. p \in Call
    BY <1>1, <2>1 DEF Call
  <2>3. payloads' = [payloads EXCEPT ![k] = p]
    BY DEF ReadTarget
  <2>4. p.supersedes = payloads[k].supersedes /\ p.of = payloads[k].of /\ p.node = payloads[k].node
    BY <1>1 DEF Call
  <2> QED BY <2>2, <2>3, <2>4
<1>3. /\ payloads[k].supersedes # 0 => learnt[payloads[k].supersedes].status # "absent"
      /\ payloads[k].of # 0 => /\ learnt[payloads[k].of].status # "absent"
                               /\ learnt[payloads[k].of].node = payloads[k].node
  BY DEF GraphInv, PayloadsAreOfRows
<1>4. nGraphCalls' \in 0..MaxGraphCalls /\ UNCHANGED <<learnt, nodes, links, asks, drifts>>
  BY DEF ReadTarget, GraphInv, GraphShape
<1> QED BY <1>2, <1>3, <1>4, PayloadStep

LEMMA ClassifyKeepsGraph ==
    ASSUME GraphInv, NEW k \in Committers, NEW ns \in SUBSET Nodes,
           NEW found \in [ns -> Answers], Classify(k, found)
    PROVE  GraphInv'
<1>1. payloads[k] \in Call
  BY DEF GraphInv, GraphShape
<1>2. PICK p \in Call : /\ payloads' = [payloads EXCEPT ![k] = p]
                        /\ p.supersedes = payloads[k].supersedes
                        /\ p.of = payloads[k].of /\ p.node = payloads[k].node
  <2> DEFINE p == [payloads[k] EXCEPT !.step = "ready", !.found = found]
  <2>1. found \in UNION {[ms -> Verdicts] : ms \in SUBSET Nodes}
    <3>1. found \in [ns -> Verdicts]
      BY GraphAssumption
    <3> QED BY <3>1
  <2>2. p \in Call
    BY <1>1, <2>1 DEF Call
  <2>3. payloads' = [payloads EXCEPT ![k] = p]
    BY DEF Classify
  <2>4. p.supersedes = payloads[k].supersedes /\ p.of = payloads[k].of /\ p.node = payloads[k].node
    BY <1>1 DEF Call
  <2> QED BY <2>2, <2>3, <2>4
<1>3. /\ payloads[k].supersedes # 0 => learnt[payloads[k].supersedes].status # "absent"
      /\ payloads[k].of # 0 => /\ learnt[payloads[k].of].status # "absent"
                               /\ learnt[payloads[k].of].node = payloads[k].node
  BY DEF GraphInv, PayloadsAreOfRows
<1>4. nGraphCalls' \in 0..MaxGraphCalls /\ UNCHANGED <<learnt, nodes, links, asks, drifts>>
  BY DEF Classify, GraphInv, GraphShape
<1> QED BY <1>2, <1>3, <1>4, PayloadStep

LEMMA FailureKeepsGraph ==
    ASSUME GraphInv, NEW k \in Committers, ClassifyFails(k)
    PROVE  GraphInv'
<1>1. payloads[k] \in Call
  BY DEF GraphInv, GraphShape
<1>2. PICK p \in Call : /\ payloads' = [payloads EXCEPT ![k] = p]
                        /\ \/ p = NoPayload
                           \/ /\ p.supersedes = payloads[k].supersedes
                              /\ p.of = payloads[k].of /\ p.node = payloads[k].node
  <2>1. CASE payloads[k].of = 0
    BY <2>1, NoPayloadIsCall DEF ClassifyFails
  <2>2. CASE payloads[k].of # 0
    <3> DEFINE p == [payloads[k] EXCEPT !.step = "ready"]
    <3>1. p \in Call
      BY <1>1 DEF Call
    <3>2. payloads' = [payloads EXCEPT ![k] = p]
      BY <2>2 DEF ClassifyFails
    <3>3. p.supersedes = payloads[k].supersedes /\ p.of = payloads[k].of
          /\ p.node = payloads[k].node
      BY <1>1 DEF Call
    <3> QED BY <3>1, <3>2, <3>3
  <2> QED BY <2>1, <2>2
<1>3. /\ payloads[k].supersedes # 0 => learnt[payloads[k].supersedes].status # "absent"
      /\ payloads[k].of # 0 => /\ learnt[payloads[k].of].status # "absent"
                               /\ learnt[payloads[k].of].node = payloads[k].node
  BY DEF GraphInv, PayloadsAreOfRows
<1>4. nGraphCalls' \in 0..MaxGraphCalls /\ UNCHANGED <<learnt, nodes, links, asks, drifts>>
  BY DEF ClassifyFails, GraphInv, GraphShape
<1> QED BY <1>2, <1>3, <1>4, NoPayloadIsCall, PayloadStep

\* The edges of a commit join its own node to its targets.
LEMMA BoundJoinsTargets ==
    ASSUME GraphInv, NEW k \in Committers, NEW e \in Bound(k)
    PROVE  /\ e \in Nodes \X Nodes \X {"updates", "contradicts", "extends"}
           /\ \E n \in Targets(k) : {e[1], e[2]} = {payloads[k].node, n}
<1>1. payloads[k] \in Call
  BY DEF GraphInv, GraphShape
<1>2. PICK s \in Nodes : s = payloads[k].node
  BY <1>1 DEF Call
<1>3. Targets(k) \subseteq Nodes
  BY <1>1 DEF Call, Targets
<1>4. PICK n \in Targets(k) :
        e \in {<<s, n, "updates">>, <<n, s, "updates">>, <<s, n, "contradicts">>,
               <<n, s, "contradicts">>, <<s, n, "extends">>}
  BY <1>2 DEF Bound
<1>5. n \in Nodes
  BY <1>3
<1>6. e \in Nodes \X Nodes \X {"updates", "contradicts", "extends"}
  BY <1>4, <1>5
<1>7. {e[1], e[2]} = {s, n}
  BY <1>4
<1> QED BY <1>2, <1>6, <1>7

\* A review names two rows that exist.
LEMMA ReviewsAreOfRows ==
    ASSUME GraphInv, NEW k \in Committers, NEW l \in RowIds, NEW rv \in [RowIds -> Row],
           ~Refused(k, rv), NEW ns \in SUBSET Targets(k)
    PROVE  Reviews(rv, k, l, ns) \subseteq RowIds \X RowIds
<1>1. SUFFICES ASSUME NEW n \in ns PROVE Reviewed(rv, k, n) \in RowIds
  BY DEF Reviews
<1>2. LiveMembers(rv, n) # {} /\ LiveMembers(rv, n) \subseteq Members(rv, n)
  BY DEF Refused, Stale, Targets, LiveMembers
<1>3. Members(rv, n) \in SUBSET Nat /\ Members(rv, n) \subseteq RowIds
  BY GraphAssumption DEF Members, RowIds
<1>4. \A S \in SUBSET RowIds : S # {} => Min(S) \in RowIds
  <2>1. RowIds \subseteq Nat
    BY GraphAssumption DEF RowIds
  <2> QED BY <2>1, MinOf
<1> QED BY <1>2, <1>3, <1>4 DEF Reviewed

\* The transaction of a new learning: its row, and the rows as they are before
\* the retirements.
LEMMA CommitFacts ==
    ASSUME GraphInv, NEW k \in Committers, Commit(k)
    PROVE  \E l \in RowIds, rv \in [RowIds -> Row] :
             /\ learnt[l].status = "absent"
             /\ rv[l].status = "active" /\ rv[l].sup = 0 /\ rv[l].node = payloads[k].node
             /\ \A m \in RowIds \ {l} :
                   /\ rv[m].status = learnt[m].status /\ rv[m].node = learnt[m].node
                   /\ rv[m].sup \in {learnt[m].sup, l}
             /\ ~Refused(k, rv)
             /\ learnt' = [m \in RowIds |->
                   IF \E n \in Retiring(k) : m \in LiveMembers(rv, n)
                   THEN [rv[m] EXCEPT !.status = "superseded", !.sup = l] ELSE rv[m]]
             /\ nodes' = [n \in Nodes |->
                   IF n = payloads[k].node THEN Filled(k)
                   ELSE IF n \in Retiring(k) /\ nodes[n].page = "accepted"
                           /\ LiveMembers(learnt', n) = {}
                   THEN [nodes[n] EXCEPT !.page = "superseded", !.sup = payloads[k].node]
                   ELSE nodes[n]]
             /\ links' = links \cup Bound(k)
             /\ asks' = asks \cup Reviews(rv, k, l, Targets(k) \ Retiring(k))
             /\ payloads' = [payloads EXCEPT ![k] = NoPayload]
             /\ UNCHANGED <<drifts, nGraphCalls>>
<1>1. PICK l : l = Min(FreeIds)
  OBVIOUS
<1>2. l \in RowIds /\ learnt[l].status = "absent" /\ l # 0 /\ RowIds \subseteq Nat
  <2>0. RowIds \subseteq Nat /\ 0 \notin RowIds
    BY GraphAssumption DEF RowIds
  <2>1. FreeIds \in SUBSET Nat /\ FreeIds # {} /\ RowIds \subseteq Nat /\ 0 \notin RowIds
    BY <2>0 DEF FreeIds, Commit
  <2>2. l \in FreeIds
    BY <1>1, <2>1, MinOf
  <2> QED BY <2>1, <2>2 DEF FreeIds
<1>3. PICK p \in Call : p = payloads[k]
  BY DEF GraphInv, GraphShape
<1>4. PICK old \in 0..MaxRows : old = p.supersedes
  BY <1>3 DEF Call
<1>5. old # 0 => old \in RowIds /\ old # l
  <2>1. old # 0 => old \in RowIds
    BY <1>4, GraphAssumption DEF RowIds
  <2> QED BY <2>1, <1>2, <1>3, <1>4 DEF GraphInv, PayloadsAreOfRows
<1>6. PICK rv : rv = Inserted(k, l)
  OBVIOUS
<1>7. /\ rv \in [RowIds -> Row]
      /\ rv[l].status = "active" /\ rv[l].sup = 0 /\ rv[l].node = p.node
      /\ \A m \in RowIds \ {l} : /\ rv[m].status = learnt[m].status
                                 /\ rv[m].node = learnt[m].node
                                 /\ rv[m].sup \in {learnt[m].sup, l}
  <2> DEFINE fresh == [status |-> "active", sup |-> 0, node |-> p.node]
             base == [learnt EXCEPT ![l] = fresh]
  <2>1. fresh \in Row /\ l \in 0..MaxRows
    BY <1>2, <1>3, GraphAssumption DEF Row, Call, RowIds
  <2>2. base \in [RowIds -> Row] /\ base[l] = fresh /\ \A m \in RowIds \ {l} : base[m] = learnt[m]
    BY <1>2, <2>1 DEF GraphInv, GraphShape
  <2>3. rv = IF old = 0 THEN base ELSE [base EXCEPT ![old].sup = l]
    BY <1>3, <1>4, <1>6 DEF Inserted
  <2>4. /\ fresh.status = "active" /\ fresh.sup = 0 /\ fresh.node = p.node
    OBVIOUS
  <2> HIDE DEF base, fresh
  <2>5. CASE old = 0
    BY <2>2, <2>3, <2>4, <2>5
  <2>6. CASE old # 0
    <3>1. base[old] \in Row /\ old \in RowIds /\ old # l
      BY <2>2, <2>6, <1>5
    <3>2. [base[old] EXCEPT !.sup = l] \in Row
      BY <2>1, <3>1 DEF Row
    <3>3. /\ rv = [base EXCEPT ![old] = [base[old] EXCEPT !.sup = l]]
      BY <2>3, <2>6
    <3>4. /\ rv \in [RowIds -> Row] /\ rv[old] = [base[old] EXCEPT !.sup = l]
          /\ \A m \in RowIds : m # old => rv[m] = base[m]
      BY <2>2, <3>1, <3>2, <3>3
    <3>5. rv[old].status = base[old].status /\ rv[old].node = base[old].node /\ rv[old].sup = l
      BY <3>1, <3>4 DEF Row
    <3>6. rv[l] = base[l]
      BY <1>2, <3>1, <3>4
    <3>7. ASSUME NEW m \in RowIds \ {l}
          PROVE  /\ rv[m].status = learnt[m].status /\ rv[m].node = learnt[m].node
                 /\ rv[m].sup \in {learnt[m].sup, l}
      <4>1. base[m] = learnt[m]
        BY <2>2
      <4> QED BY <4>1, <3>4, <3>5
    <3> QED BY <2>2, <2>4, <3>4, <3>6, <3>7
  <2> QED BY <2>5, <2>6
<1>8. ~Refused(k, rv)
  BY <1>1, <1>6 DEF Commit
<1>9. learnt' = [m \in RowIds |->
        IF \E n \in Retiring(k) : m \in LiveMembers(rv, n)
        THEN [rv[m] EXCEPT !.status = "superseded", !.sup = l] ELSE rv[m]]
  BY <1>1, <1>6 DEF Commit
<1>10. /\ nodes' = [n \in Nodes |->
             IF n = payloads[k].node THEN Filled(k)
             ELSE IF n \in Retiring(k) /\ nodes[n].page = "accepted"
                     /\ LiveMembers(learnt', n) = {}
             THEN [nodes[n] EXCEPT !.page = "superseded", !.sup = payloads[k].node]
             ELSE nodes[n]]
       /\ links' = links \cup Bound(k)
       /\ asks' = asks \cup Reviews(rv, k, l, Targets(k) \ Retiring(k))
       /\ payloads' = [payloads EXCEPT ![k] = NoPayload]
       /\ UNCHANGED <<drifts, nGraphCalls>>
  BY <1>1, <1>6 DEF Commit
<1> QED BY <1>2, <1>3, <1>7, <1>8, <1>9, <1>10

\* What the property says of a step: retirements, edges, superseded nodes.
StepIsEarned ==
    /\ RetirementIsComplete /\ EdgesJoinLiveMemory
    /\ \A n \in Nodes : nodes'[n].page = "superseded" => LiveMembers(learnt', n) = {}

\* A step that closes and joins nothing is earned once superseded nodes are dead.
LEMMA QuietStepIsEarned ==
    ASSUME GraphInv, UNCHANGED <<learnt, links>>, SupersededIsDead'
    PROVE  StepIsEarned
BY DEF GraphInv, StepIsEarned, RetirementIsComplete, EdgesJoinLiveMemory, SupersededIsDead

\* The node of a payload, as the transaction leaves it.
LEMMA FilledStands ==
    ASSUME GraphInv, NEW k \in Committers, ~Shut(payloads[k].node)
    PROVE  Filled(k) \in Node /\ Filled(k).page \in {"accepted", "other"}
<1>1. PICK p \in Call : p = payloads[k]
  BY DEF GraphInv, GraphShape
<1>2. p.node \in Nodes /\ p.vectors \in BOOLEAN
  BY <1>1 DEF Call
<1>3. nodes[p.node] \in Node /\ nodes[p.node].page \notin {"superseded", "shut"}
  BY <1>1, <1>2 DEF GraphInv, GraphShape, Shut
<1>4. PICK b \in BOOLEAN : b = (nodes[p.node].vectors \/ p.vectors)
  OBVIOUS
<1>5. PICK page : page = IF nodes[p.node].page = "none" THEN "accepted" ELSE nodes[p.node].page
  OBVIOUS
<1>6. page \in {"accepted", "other"}
  BY <1>3, <1>5 DEF Node
<1>7. Filled(k) = [nodes[p.node] EXCEPT !.page = page, !.text = TRUE, !.vectors = b]
  BY <1>1, <1>4, <1>5 DEF Filled
<1> QED BY <1>3, <1>6, <1>7 DEF Node

LEMMA CommitKeepsGraph ==
    ASSUME GraphInv, NEW k \in Committers, Commit(k)
    PROVE  GraphInv' /\ StepIsEarned
<1> DEFINE p == payloads[k]
<1>1. p \in Call
  BY DEF GraphInv, GraphShape
<1>2. PICK l \in RowIds, rv \in [RowIds -> Row] :
        /\ learnt[l].status = "absent"
        /\ rv[l].status = "active" /\ rv[l].sup = 0 /\ rv[l].node = p.node
        /\ \A m \in RowIds \ {l} :
              /\ rv[m].status = learnt[m].status /\ rv[m].node = learnt[m].node
              /\ rv[m].sup \in {learnt[m].sup, l}
        /\ ~Refused(k, rv)
        /\ learnt' = [m \in RowIds |->
              IF \E n \in Retiring(k) : m \in LiveMembers(rv, n)
              THEN [rv[m] EXCEPT !.status = "superseded", !.sup = l] ELSE rv[m]]
        /\ nodes' = [n \in Nodes |->
              IF n = p.node THEN Filled(k)
              ELSE IF n \in Retiring(k) /\ nodes[n].page = "accepted"
                      /\ LiveMembers(learnt', n) = {}
              THEN [nodes[n] EXCEPT !.page = "superseded", !.sup = p.node]
              ELSE nodes[n]]
        /\ links' = links \cup Bound(k)
        /\ asks' = asks \cup Reviews(rv, k, l, Targets(k) \ Retiring(k))
        /\ payloads' = [payloads EXCEPT ![k] = NoPayload]
        /\ UNCHANGED <<drifts, nGraphCalls>>
  BY CommitFacts
<1>3. p.node \in Nodes /\ Targets(k) \subseteq Nodes \ {p.node} /\ Retiring(k) \subseteq Targets(k)
  BY <1>1 DEF Call, Targets, Retiring
<1>4. l \in 1..MaxRows /\ l # 0 /\ l \in 0..MaxRows
  BY GraphAssumption DEF RowIds
\* The rows.
<1>5. ASSUME NEW m \in RowIds
      PROVE  /\ learnt'[m] \in Row
             /\ learnt'[m].node = rv[m].node
             /\ learnt'[m].status = IF \E n \in Retiring(k) : m \in LiveMembers(rv, n)
                                    THEN "superseded" ELSE rv[m].status
             /\ learnt'[m].sup = IF \E n \in Retiring(k) : m \in LiveMembers(rv, n)
                                 THEN l ELSE rv[m].sup
  <2>1. rv[m] \in Row
    OBVIOUS
  <2> QED BY <1>2, <1>4, <2>1 DEF Row
<1>6. learnt' \in [RowIds -> Row]
  BY <1>2, <1>5
<1>7. \A n \in Retiring(k) : l \notin LiveMembers(rv, n)
  BY <1>2, <1>3 DEF LiveMembers, Members
<1>8. Lives(learnt', l) /\ learnt'[l].node = p.node
  BY <1>2, <1>5, <1>7 DEF Lives
<1>9. \A m \in RowIds \ {l} : /\ learnt'[m].node = learnt[m].node
                              /\ Lives(learnt', m) => Lives(rv, m)
                              /\ Lives(rv, m) => Lives(learnt, m)
  BY <1>2, <1>4, <1>5 DEF Lives
<1>10. \A n \in Retiring(k) : LiveMembers(learnt', n) = {}
  <2> SUFFICES ASSUME NEW n \in Retiring(k), NEW m \in RowIds, Lives(learnt', m),
                      learnt'[m].status # "absent", learnt'[m].node = n
               PROVE  FALSE
    BY DEF LiveMembers, Members
  <2>1. m # l
    BY <1>3, <1>8
  <2>2. m \in LiveMembers(rv, n)
    BY <2>1, <1>5, <1>9 DEF LiveMembers, Members, Lives
  <2>3. learnt'[m].status = "superseded"
    BY <2>2, <1>5
  <2> QED BY <2>3 DEF Lives
<1>11. \A n \in Nodes \ {p.node} : LiveMembers(learnt', n) \subseteq LiveMembers(learnt, n)
  BY <1>8, <1>9 DEF LiveMembers, Members, Lives
\* The nodes.
<1>12. Filled(k) \in Node /\ Filled(k).page \in {"accepted", "other"}
  <2>1. ~Shut(payloads[k].node)
    BY <1>2 DEF Refused
  <2> QED BY <2>1, FilledStands
<1>13. ASSUME NEW n \in Nodes
       PROVE  /\ nodes'[n] \in Node
              /\ nodes'[n].page = "superseded" =>
                   n # p.node /\ (nodes[n].page = "superseded" \/ LiveMembers(learnt', n) = {})
              /\ n \in Retiring(k) => nodes'[n].page # "accepted"
  <2>1. nodes[n] \in Node
    BY DEF GraphInv, GraphShape
  <2>2. CASE n = p.node
    <3>1. nodes'[n] = Filled(k)
      BY <1>2, <2>2
    <3> QED BY <3>1, <1>3, <1>12, <2>2
  <2>3. CASE n # p.node /\ n \in Retiring(k) /\ nodes[n].page = "accepted"
    <3>1. LiveMembers(learnt', n) = {}
      BY <1>10, <2>3
    <3>2. nodes'[n] = [nodes[n] EXCEPT !.page = "superseded", !.sup = p.node]
      BY <1>2, <2>3, <3>1
    <3> QED BY <3>1, <3>2, <2>1, <2>3, <1>3 DEF Node
  <2>4. CASE n # p.node /\ ~(n \in Retiring(k) /\ nodes[n].page = "accepted")
    <3>1. nodes'[n] = nodes[n]
      BY <1>2, <2>4
    <3> QED BY <3>1, <2>1, <2>4
  <2> QED BY <2>2, <2>3, <2>4
<1>14. nodes' \in [Nodes -> Node]
  BY <1>2, <1>13
<1>15. \A n \in Nodes : nodes'[n].page = "superseded" => LiveMembers(learnt', n) = {}
  BY <1>11, <1>13 DEF GraphInv, SupersededIsDead
\* The edges.
<1>16. ASSUME NEW e \in Bound(k)
       PROVE  /\ e \in Nodes \X Nodes \X {"updates", "contradicts", "extends"}
              /\ \A i \in {1, 2} : \E m \in RowIds :
                    learnt'[m].node = e[i] /\ (Lives(learnt, m) \/ Lives(learnt', m))
  <2>1. PICK n \in Targets(k) : {e[1], e[2]} = {p.node, n}
    BY <1>1, BoundJoinsTargets
  <2>2. LiveMembers(rv, n) # {} /\ n # p.node
    BY <1>2, <1>3 DEF Refused, Stale, Targets
  <2>3. PICK m \in RowIds : Lives(rv, m) /\ rv[m].node = n
    BY <2>2 DEF LiveMembers, Members
  <2>4. m # l
    BY <2>2, <2>3, <1>2
  <2>5. learnt'[m].node = n /\ Lives(learnt, m)
    BY <2>3, <2>4, <1>5, <1>9
  <2>6. \A i \in {1, 2} : e[i] \in {p.node, n}
    BY <2>1
  <2> QED BY <2>5, <2>6, <1>8, BoundJoinsTargets
\* The payloads.
<1>17. /\ payloads' \in [Committers -> Call] /\ payloads'[k] = NoPayload
       /\ \A c \in Committers : c # k => payloads'[c] = payloads[c]
  BY <1>2, NoPayloadIsCall DEF GraphInv, GraphShape
<1>18. PayloadsAreOfRows'
  <2> SUFFICES ASSUME NEW c \in Committers
               PROVE  /\ payloads'[c].supersedes # 0 =>
                            learnt'[payloads'[c].supersedes].status # "absent"
                      /\ payloads'[c].of # 0 =>
                            /\ learnt'[payloads'[c].of].status # "absent"
                            /\ learnt'[payloads'[c].of].node = payloads'[c].node
    BY DEF PayloadsAreOfRows
  <2>1. CASE c = k
    BY <2>1, <1>17, NoPayloadIsCall
  <2>2. CASE c # k
    <3>1. ASSUME NEW m \in RowIds, learnt[m].status # "absent"
          PROVE  learnt'[m].status # "absent" /\ learnt'[m].node = learnt[m].node
      <4>1. m # l /\ rv[m].status = learnt[m].status
        BY <1>2, <3>1
      <4>2. learnt'[m].status \in {"superseded", rv[m].status}
        BY <1>5
      <4> QED BY <3>1, <4>1, <4>2, <1>9
    <3>2. PICK q \in Call : q = payloads[c]
      BY DEF GraphInv, GraphShape
    <3>3. /\ q.supersedes # 0 => q.supersedes \in RowIds /\ learnt[q.supersedes].status # "absent"
          /\ q.of # 0 => q.of \in RowIds /\ learnt[q.of].status # "absent" /\ learnt[q.of].node = q.node
      <4>1. q.supersedes \in 0..MaxRows /\ q.of \in 0..MaxRows
        BY DEF Call
      <4>2. /\ q.supersedes # 0 => q.supersedes \in RowIds
            /\ q.of # 0 => q.of \in RowIds
        BY <4>1, GraphAssumption DEF RowIds
      <4> QED BY <3>2, <4>2 DEF GraphInv, PayloadsAreOfRows
    <3> QED BY <2>2, <3>1, <3>2, <3>3, <1>17
  <2> QED BY <2>1, <2>2
<1>19. GraphShape'
  <2>1. asks' \subseteq RowIds \X RowIds
    <3>1. Reviews(rv, k, l, Targets(k) \ Retiring(k)) \subseteq RowIds \X RowIds
      BY <1>2, ReviewsAreOfRows
    <3> QED BY <3>1, <1>2 DEF GraphInv, GraphShape
  <2>2. links' \subseteq Nodes \X Nodes \X {"updates", "contradicts", "extends"}
    BY <1>2, <1>16 DEF GraphInv, GraphShape
  <2> QED BY <2>1, <2>2, <1>2, <1>6, <1>14, <1>17 DEF GraphInv, GraphShape
<1>20. EdgesJoinLiveMemory
  BY <1>2, <1>16 DEF EdgesJoinLiveMemory
<1>21. RetirementIsComplete
  <2> SUFFICES ASSUME NEW m \in RowIds, learnt[m].status = "active",
                      learnt'[m].status = "superseded"
               PROVE  LET s == learnt'[m].sup
                          n == learnt'[m].node
                      IN  /\ learnt[s].status = "absent" /\ Lives(learnt', s)
                          /\ learnt'[s].node[1] = n[1] /\ learnt'[s].node # n
                          /\ LiveMembers(learnt', n) = {}
                          /\ nodes'[n].page # "accepted"
    BY DEF RetirementIsComplete
  <2>1. m # l /\ rv[m].status = "active"
    BY <1>2
  <2>2. PICK n \in Retiring(k) : m \in LiveMembers(rv, n)
    BY <2>1, <1>5
  <2>3. learnt'[m].sup = l /\ learnt'[m].node = n
    BY <2>2, <1>5 DEF LiveMembers, Members
  <2>4. n \in Nodes /\ n # p.node /\ n[1] = p.node[1]
    BY <2>2, <1>1, <1>3 DEF Retiring
  <2>5. nodes'[n].page # "accepted" /\ LiveMembers(learnt', n) = {}
    BY <2>2, <2>4, <1>10, <1>13
  <2> QED BY <2>3, <2>4, <2>5, <1>2, <1>8
<1> QED BY <1>15, <1>18, <1>19, <1>20, <1>21 DEF GraphInv, SupersededIsDead, StepIsEarned

LEMMA RepairCommitKeepsGraph ==
    ASSUME GraphInv, NEW k \in Committers, CommitRepair(k)
    PROVE  GraphInv' /\ StepIsEarned
<1> DEFINE p == payloads[k]
           l == p.of
<1>1. p \in Call /\ p.node \in Nodes /\ l \in RowIds
  <2>1. p \in Call
    BY DEF GraphInv, GraphShape
  <2>2. p.node \in Nodes /\ l \in 0..MaxRows /\ l # 0
    BY <2>1 DEF Call, CommitRepair
  <2> QED BY <2>1, <2>2, GraphAssumption DEF RowIds
<1>2. /\ Lives(learnt, l) /\ learnt[l].node = p.node /\ ~Refused(k, learnt)
      /\ nodes' = [nodes EXCEPT ![p.node] = Filled(k)]
      /\ links' = links \cup Bound(k)
      /\ asks' = asks \cup Reviews(learnt, k, l, Targets(k))
      /\ payloads' = [payloads EXCEPT ![k] = NoPayload]
      /\ UNCHANGED <<learnt, drifts, nGraphCalls>>
  BY DEF CommitRepair, GraphInv, PayloadsAreOfRows
<1>3. Filled(k) \in Node /\ Filled(k).page \in {"accepted", "other"}
  <2>1. ~Shut(p.node)
    BY <1>2 DEF Refused
  <2> QED BY <2>1, FilledStands
<1>4. /\ nodes' \in [Nodes -> Node] /\ nodes'[p.node] = Filled(k)
      /\ \A n \in Nodes : n # p.node => nodes'[n] = nodes[n]
  BY <1>1, <1>2, <1>3 DEF GraphInv, GraphShape
<1>5. SupersededIsDead'
  BY <1>2, <1>3, <1>4 DEF GraphInv, SupersededIsDead
<1>6. Reviews(learnt, k, l, Targets(k)) \subseteq RowIds \X RowIds
  BY <1>1, <1>2, ReviewsAreOfRows DEF GraphInv, GraphShape
<1>7. ASSUME NEW e \in Bound(k)
      PROVE  /\ e \in Nodes \X Nodes \X {"updates", "contradicts", "extends"}
             /\ \A i \in {1, 2} : \E m \in RowIds : learnt[m].node = e[i] /\ Lives(learnt, m)
  <2>1. PICK n \in Targets(k) : {e[1], e[2]} = {p.node, n}
    BY BoundJoinsTargets
  <2>2. LiveMembers(learnt, n) # {}
    BY <1>2 DEF Refused, Stale, Targets
  <2>3. PICK m \in RowIds : Lives(learnt, m) /\ learnt[m].node = n
    BY <2>2 DEF LiveMembers, Members
  <2>4. \A i \in {1, 2} : e[i] \in {p.node, n}
    BY <2>1
  <2> QED BY <2>3, <2>4, <1>1, <1>2, BoundJoinsTargets
<1>8. payloads' \in [Committers -> Call]
  BY <1>2, NoPayloadIsCall DEF GraphInv, GraphShape
<1>9. GraphShape'
  <2>1. links' \subseteq Nodes \X Nodes \X {"updates", "contradicts", "extends"}
    BY <1>2, <1>7 DEF GraphInv, GraphShape
  <2> QED BY <2>1, <1>2, <1>4, <1>6, <1>8 DEF GraphInv, GraphShape
<1>10. PayloadsAreOfRows'
  <2>1. \A c \in Committers : c # k => payloads'[c] = payloads[c]
    BY <1>2 DEF GraphInv, GraphShape
  <2>2. payloads'[k] = NoPayload
    BY <1>2 DEF GraphInv, GraphShape
  <2> QED BY <2>1, <2>2, <1>2, NoPayloadIsCall DEF GraphInv, PayloadsAreOfRows
<1>11. RetirementIsComplete
  BY <1>2 DEF RetirementIsComplete
<1>12. EdgesJoinLiveMemory
  BY <1>2, <1>7 DEF EdgesJoinLiveMemory
<1> QED BY <1>5, <1>9, <1>10, <1>11, <1>12 DEF GraphInv, StepIsEarned, SupersededIsDead

LEMMA AbortKeepsGraph ==
    ASSUME GraphInv, NEW k \in Committers, Abort(k)
    PROVE  GraphInv'
<1>1. /\ payloads' = [payloads EXCEPT ![k] = NoPayload]
      /\ UNCHANGED <<learnt, nodes, links, asks, drifts, nGraphCalls>>
      /\ nGraphCalls' \in 0..MaxGraphCalls
  BY DEF Abort, GraphInv, GraphShape
<1> QED BY <1>1, NoPayloadIsCall, PayloadStep

LEMMA MaxOf ==
    ASSUME NEW N \in Nat, NEW S \in SUBSET (0..N), S # {}
    PROVE  Max(S) \in S /\ \A y \in S : y <= Max(S)
<1> DEFINE T == {N - x : x \in S}
<1>1. T \in SUBSET Nat /\ T # {}
  <2>1. ASSUME NEW x \in S PROVE N - x \in Nat
    <3>1. x \in 0..N
      OBVIOUS
    <3> QED BY <3>1
  <2> QED BY <2>1
<1>2. PICK t \in T : \A u \in T : t <= u
  BY <1>1, LeastNat
<1>3. PICK x \in S : t = N - x
  BY <1>2
<1>4. \A y \in S : x >= y
  BY <1>2, <1>3
<1>5. Max(S) \in S /\ \A y \in S : Max(S) >= y
  BY <1>4 DEF Max
<1> QED BY <1>5

LEMMA ExpiryKeepsGraph ==
    ASSUME GraphInv, NEW l \in RowIds, LearningExpires(l)
    PROVE  GraphInv' /\ StepIsEarned
<1>1. /\ Lives(learnt, l) /\ learnt' = [learnt EXCEPT ![l].status = "expired"]
      /\ UNCHANGED <<nodes, links, asks, payloads, nGraphCalls>>
      /\ drifts' \in 0..MaxDrift
  BY GraphAssumption DEF LearningExpires, Drifts, GraphInv, GraphShape
<1>2. /\ learnt' \in [RowIds -> Row]
      /\ learnt'[l].status = "expired" /\ learnt'[l].node = learnt[l].node
      /\ \A m \in RowIds : m # l => learnt'[m] = learnt[m]
  BY <1>1 DEF GraphInv, GraphShape, Row
<1>3. \A m \in RowIds : /\ learnt'[m].node = learnt[m].node
                        /\ learnt[m].status # "absent" => learnt'[m].status # "absent"
                        /\ Lives(learnt', m) => Lives(learnt, m)
  BY <1>2 DEF Lives
<1>4. SupersededIsDead'
  BY <1>1, <1>3 DEF GraphInv, SupersededIsDead, LiveMembers, Members, Lives
<1>5. PayloadsAreOfRows'
  <2> SUFFICES ASSUME NEW c \in Committers
               PROVE  /\ payloads[c].supersedes # 0 =>
                            learnt'[payloads[c].supersedes].status # "absent"
                      /\ payloads[c].of # 0 => /\ learnt'[payloads[c].of].status # "absent"
                                               /\ learnt'[payloads[c].of].node = payloads[c].node
    BY <1>1 DEF PayloadsAreOfRows
  <2>1. payloads[c].supersedes \in 0..MaxRows /\ payloads[c].of \in 0..MaxRows
    BY DEF GraphInv, GraphShape, Call
  <2>2. /\ payloads[c].supersedes # 0 => payloads[c].supersedes \in RowIds
        /\ payloads[c].of # 0 => payloads[c].of \in RowIds
    BY <2>1, GraphAssumption DEF RowIds
  <2> QED BY <2>2, <1>3 DEF GraphInv, PayloadsAreOfRows
<1>6. GraphShape'
  BY <1>1, <1>2 DEF GraphInv, GraphShape
<1>7. RetirementIsComplete /\ EdgesJoinLiveMemory
  BY <1>1, <1>2 DEF RetirementIsComplete, EdgesJoinLiveMemory
<1> QED BY <1>4, <1>5, <1>6, <1>7 DEF GraphInv, StepIsEarned, SupersededIsDead

\* A step that changes one document row.
LEMMA NodeStep ==
    ASSUME GraphInv, NEW n \in Nodes, NEW x \in Node, nodes' = [nodes EXCEPT ![n] = x],
           x.page = "superseded" => LiveMembers(learnt, n) = {},
           UNCHANGED <<learnt, links, asks, payloads, nGraphCalls>>, drifts' \in 0..MaxDrift
    PROVE  GraphInv'
<1>1. /\ nodes' \in [Nodes -> Node] /\ nodes'[n] = x
      /\ \A m \in Nodes : m # n => nodes'[m] = nodes[m]
  BY DEF GraphInv, GraphShape
<1>2. GraphShape' /\ PayloadsAreOfRows'
  BY <1>1 DEF GraphInv, GraphShape, PayloadsAreOfRows
<1>3. SupersededIsDead'
  BY <1>1 DEF GraphInv, SupersededIsDead
<1> QED BY <1>2, <1>3 DEF GraphInv

LEMMA PurgeKeepsGraph ==
    ASSUME GraphInv, NEW n \in Nodes, Purge(n)
    PROVE  GraphInv'
<1>1. PICK sup : sup = Max({learnt[l].sup : l \in Members(learnt, n)} \cup {0})
  OBVIOUS
<1>2. sup \in 0..MaxRows
  <2> DEFINE S == {learnt[l].sup : l \in Members(learnt, n)} \cup {0}
  <2>1. S \in SUBSET (0..MaxRows) /\ S # {}
    BY GraphAssumption DEF GraphInv, GraphShape, Row, Members
  <2>2. Max(S) \in S
    BY <2>1, MaxOf, GraphAssumption
  <2> QED BY <1>1, <2>1, <2>2
<1>3. PICK successor \in Nodes \cup {NoNode} :
        successor = IF sup = 0 THEN NoNode ELSE learnt[sup].node
  BY <1>2, GraphAssumption DEF GraphInv, GraphShape, Row, RowIds
<1>4. nodes[n] \in Node
  BY DEF GraphInv, GraphShape
<1>5. PICK gone \in Node : /\ gone = [nodes[n] EXCEPT !.text = FALSE, !.vectors = FALSE]
                           /\ gone.page = nodes[n].page
  <2> DEFINE gone == [nodes[n] EXCEPT !.text = FALSE, !.vectors = FALSE]
  <2>1. gone \in Node /\ gone.page = nodes[n].page
    BY <1>4 DEF Node
  <2> QED BY <2>1
<1>6. PICK x \in Node : /\ nodes' = [nodes EXCEPT ![n] = x]
                        /\ Shut(n) => x.page = nodes[n].page
  <2>1. CASE Shut(n)
    BY <1>1, <1>5, <2>1 DEF Purge
  <2>2. CASE ~Shut(n)
    <3> DEFINE x == [gone EXCEPT !.page = IF sup = 0 THEN "shut" ELSE "superseded",
                                 !.sup = successor]
    <3>1. x \in Node
      BY <1>5 DEF Node
    <3>2. nodes' = [nodes EXCEPT ![n] = x]
      BY <1>1, <1>3, <1>5, <2>2 DEF Purge
    <3> QED BY <2>2, <3>1, <3>2
  <2> QED BY <2>1, <2>2
<1>7. x.page = "superseded" => LiveMembers(learnt, n) = {}
  <2>1. LiveMembers(learnt, n) = {} \/ Shut(n)
    BY DEF Purge
  <2> QED BY <2>1, <1>6 DEF GraphInv, SupersededIsDead
<1>8. drifts' \in 0..MaxDrift /\ UNCHANGED <<learnt, links, asks, payloads, nGraphCalls>>
  BY GraphAssumption DEF Purge, Drifts, GraphInv, GraphShape
<1> QED BY <1>6, <1>7, <1>8, NodeStep

LEMMA RelabelKeepsGraph ==
    ASSUME GraphInv, NEW n \in Nodes, NEW page \in {"other", "shut"}, Relabel(n, page)
    PROVE  GraphInv'
<1>1. nodes[n] \in Node
  BY DEF GraphInv, GraphShape
<1>2. PICK x \in Node : nodes' = [nodes EXCEPT ![n] = x] /\ x.page = page
  <2> DEFINE x == [nodes[n] EXCEPT !.page = page]
  <2>1. x \in Node /\ x.page = page
    BY <1>1 DEF Node
  <2>2. nodes' = [nodes EXCEPT ![n] = x]
    BY DEF Relabel
  <2> QED BY <2>1, <2>2
<1>3. drifts' \in 0..MaxDrift /\ UNCHANGED <<learnt, links, asks, payloads, nGraphCalls>>
  BY GraphAssumption DEF Relabel, Drifts, GraphInv, GraphShape
<1> QED BY <1>2, <1>3, NodeStep

\* Every transaction of the coordinator retires and joins memory as it stands in
\* the transaction, whatever the classifier answered before it and whatever
\* expires, is purged or relabelled between the two.
THEOREM CommitsAreEarned == GraphSpec => GraphWritesAreEarned
<1>1. GraphInv /\ [GraphNext]_graphVars => GraphInv' /\ [StepIsEarned]_graphVars
  <2> SUFFICES ASSUME GraphInv, [GraphNext]_graphVars
               PROVE  GraphInv' /\ [StepIsEarned]_graphVars
    OBVIOUS
  <2>1. ASSUME NEW k \in Committers, Commit(k) PROVE GraphInv' /\ StepIsEarned
    BY <2>1, CommitKeepsGraph
  <2>2. ASSUME NEW k \in Committers, CommitRepair(k) PROVE GraphInv' /\ StepIsEarned
    BY <2>2, RepairCommitKeepsGraph
  <2>3. ASSUME NEW l \in RowIds, LearningExpires(l) PROVE GraphInv' /\ StepIsEarned
    BY <2>3, ExpiryKeepsGraph
  <2>4. ASSUME GraphInv', UNCHANGED <<learnt, links>> PROVE StepIsEarned
    BY <2>4, QuietStepIsEarned DEF GraphInv
  <2>5. ASSUME NEW k \in Committers, NEW a \in Owners, NEW t \in Texts, NEW old \in 0..MaxRows,
               NEW graph \in BOOLEAN, NEW vec \in BOOLEAN, Prepare(k, a, t, old, graph, vec)
        PROVE  GraphInv' /\ StepIsEarned
    BY <2>4, <2>5, PrepareKeepsGraph DEF Prepare
  <2>6. ASSUME NEW k \in Committers, NEW a \in Owners, NEW l \in RowIds, NEW vec \in BOOLEAN,
               PrepareRepair(k, a, l, vec)
        PROVE  GraphInv' /\ StepIsEarned
    BY <2>4, <2>6, RepairKeepsGraph DEF PrepareRepair
  <2>7. ASSUME NEW k \in Committers, NEW n \in Nodes, ReadTarget(k, n)
        PROVE  GraphInv' /\ StepIsEarned
    BY <2>4, <2>7, ReadKeepsGraph DEF ReadTarget
  <2>8. ASSUME NEW k \in Committers, NEW ns \in SUBSET Seen(k), NEW found \in [ns -> Answers],
               Classify(k, found)
        PROVE  GraphInv' /\ StepIsEarned
    <3>1. ns \in SUBSET Nodes
      BY DEF Seen
    <3>2. GraphInv'
      BY <2>8, <3>1, ClassifyKeepsGraph
    <3> QED BY <2>4, <2>8, <3>2 DEF Classify
  <2>9. ASSUME NEW k \in Committers, ClassifyFails(k) PROVE GraphInv' /\ StepIsEarned
    BY <2>4, <2>9, FailureKeepsGraph DEF ClassifyFails
  <2>10. ASSUME NEW k \in Committers, Abort(k) PROVE GraphInv' /\ StepIsEarned
    BY <2>4, <2>10, AbortKeepsGraph DEF Abort
  <2>11. ASSUME NEW n \in Nodes, Purge(n) PROVE GraphInv' /\ StepIsEarned
    BY <2>4, <2>11, PurgeKeepsGraph DEF Purge
  <2>12. ASSUME NEW n \in Nodes, NEW page \in {"other", "shut"}, Relabel(n, page)
         PROVE  GraphInv' /\ StepIsEarned
    BY <2>4, <2>12, RelabelKeepsGraph DEF Relabel
  <2>13. CASE UNCHANGED graphVars
    BY <2>13 DEF graphVars, GraphInv, GraphShape, PayloadsAreOfRows, SupersededIsDead,
       LiveMembers, Members, Lives
  <2>14. ASSUME NEW k \in Committers, CallNext(k) PROVE GraphInv' /\ StepIsEarned
    BY <2>1, <2>2, <2>5, <2>6, <2>7, <2>8, <2>9, <2>10, <2>14 DEF CallNext
  <2> QED BY <2>3, <2>11, <2>12, <2>13, <2>14 DEF GraphNext
<1> QED BY GraphInitInv, <1>1, PTL DEF GraphSpec, GraphWritesAreEarned, StepIsEarned

-----------------------------------------------------------------------------
(* The vectors: VectorIndex *)

\* A set of ids has an increasing enumeration: a smallest one that had none
\* could lose its last element and would still have none.
LEMMA IncreasingExists ==
    ASSUME NEW N \in Nat, NEW R \in SUBSET (0..N)
    PROVE  /\ Cardinality(R) \in Nat /\ IsFiniteSet(R)
           /\ \E s \in [1..Cardinality(R) -> R] :
                 \A i, j \in 1..Cardinality(R) : i < j => s[i] < s[j]
<1> DEFINE Sorted(s, n) == \A i, j \in 1..n : i < j => s[i] < s[j]
           Bad == {S \in SUBSET R : ~\E s \in [1..Cardinality(S) -> S] : Sorted(s, Cardinality(S))}
<1>1. \A S \in SUBSET R : IsFiniteSet(S) /\ Cardinality(S) \in Nat
  <2>1. IsFiniteSet(0..N)
    BY FS_Interval
  <2> QED BY <2>1, FS_Subset, FS_CardinalityType
<1>2. Bad = {}
  <2> SUFFICES ASSUME Bad # {} PROVE FALSE
    OBVIOUS
  <2> DEFINE Sizes == {Cardinality(S) : S \in Bad}
  <2>1. Sizes \in SUBSET Nat /\ Sizes # {}
    BY <1>1
  <2>2. PICK n \in Sizes : \A m \in Sizes : n <= m
    BY <2>1, LeastNat
  <2>3. PICK S \in Bad : n = Cardinality(S)
    BY <2>2
  <2>4. S \in SUBSET R /\ IsFiniteSet(S) /\ n \in Nat /\ S \subseteq Nat
    BY <1>1, <2>3
  <2>5. CASE S = {}
    <3>1. n = 0 /\ 1..n = {}
      BY <2>3, <2>5, FS_EmptySet
    <3>2. <<>> \in [1..n -> S]
      BY <3>1
    <3>3. Sorted(<<>>, n)
      BY <3>1
    <3> QED BY <2>3, <3>2, <3>3
  <2>6. CASE S # {}
    <3>1. PICK m \in S : \A y \in S : y <= m
      <4>1. S \in SUBSET (0..N)
        BY <2>4
      <4> QED BY <4>1, <2>6, MaxOf
    <3>2. PICK T : T = S \ {m}
      OBVIOUS
    <3>3. T \in SUBSET R /\ Cardinality(T) = n - 1
      BY <2>3, <2>4, <3>1, <3>2, FS_RemoveElement
    <3>4. T \notin Bad /\ n - 1 \in Nat
      <4>1. n - 1 \in Nat
        BY <1>1, <3>3
      <4>2. T \in Bad => n - 1 \in Sizes
        BY <3>3
      <4> QED BY <4>1, <4>2, <2>2, <2>4
    <3>5. PICK s \in [1..(n - 1) -> T] : Sorted(s, n - 1)
      BY <3>3, <3>4
    <3> DEFINE t == [i \in 1..n |-> IF i = n THEN m ELSE s[i]]
    <3>6. \A i \in 1..(n - 1) : s[i] \in S /\ s[i] < m
      <4> SUFFICES ASSUME NEW i \in 1..(n - 1) PROVE s[i] \in S /\ s[i] < m
        OBVIOUS
      <4>1. s[i] \in T
        BY <3>5
      <4>2. s[i] \in S /\ s[i] # m
        BY <4>1, <3>2
      <4>3. s[i] <= m /\ s[i] \in Nat /\ m \in Nat
        BY <4>2, <2>4, <3>1
      <4> QED BY <4>2, <4>3
    <3>7. t \in [1..n -> S]
      BY <2>4, <3>1, <3>6
    <3>8. ASSUME NEW i \in 1..n, NEW j \in 1..n, i < j PROVE t[i] < t[j]
      <4>1. i \in 1..(n - 1) /\ t[i] = s[i]
        BY <2>4, <3>8
      <4>2. CASE j = n
        BY <3>6, <4>1, <4>2
      <4>3. CASE j # n
        <5>1. j \in 1..(n - 1) /\ t[j] = s[j]
          BY <2>4, <4>3
        <5> QED BY <3>5, <3>8, <4>1, <5>1
      <4> QED BY <4>2, <4>3
    <3>9. Sorted(t, n)
      BY <3>8
    <3> HIDE DEF t, Sorted
    <3> QED BY <2>3, <3>7, <3>9
  <2> QED BY <2>5, <2>6
<1> QED BY <1>1, <1>2

\* The rows that a build reads, and the ids that an add appends.
LEMMA SelectedIs ==
    ASSUME NEW N \in Nat, NEW R \in SUBSET (0..N)
    PROVE  Selected(R) \in Seq(Nat) /\ ToSet(Selected(R)) = R
<1>1. PICK n \in Nat : n = Cardinality(R)
  BY IncreasingExists
<1>2. PICK s : s = Selected(R)
  OBVIOUS
<1>3. s \in [1..n -> R] /\ \A i, j \in 1..n : i < j => s[i] < s[j]
  BY <1>1, <1>2, IncreasingExists DEF Selected
<1>4. s \in Injection(1..n, R)
  <2> SUFFICES ASSUME NEW i \in 1..n, NEW j \in 1..n, s[i] = s[j] PROVE i = j
    BY <1>3 DEF Injection, IsInjective
  <2>1. s[i] \in R /\ R \subseteq Nat
    BY <1>3
  <2>2. s[i] \in Nat
    BY <2>1
  <2>3. ~(s[i] < s[j]) /\ ~(s[j] < s[i])
    BY <2>2
  <2>4. ~(i < j) /\ ~(j < i)
    BY <1>3, <2>3
  <2> QED BY <2>4
<1>5. s \in Surjection(1..n, R)
  <2>1. IsFiniteSet(R)
    BY IncreasingExists
  <2>2. Cardinality(1..n) = IF 1 > n THEN 0 ELSE n - 1 + 1
    BY FS_Interval
  <2>3. Cardinality(1..n) = Cardinality(R)
    BY <1>1, <2>2
  <2> QED BY <2>1, <2>3, <1>4, FS_Injection
<1>6. s \in Seq(Nat) /\ DOMAIN s = 1..n
  <2>1. R \subseteq Nat
    OBVIOUS
  <2>2. s \in [1..n -> Nat]
    BY <1>3, <2>1
  <2> QED BY <2>2, <1>3
<1> QED BY <1>2, <1>3, <1>5, <1>6 DEF ToSet, Surjection

Sums == {<<>>} \cup (Nat \X Nat)
CallRow == [pc : IndexPcs, old : SUBSET Nat, new : SUBSET Nat, gen : Nat, sum : Sums,
            got : Seq(Nat), honest : BOOLEAN, tries : Nat]
IndexRow == [ready : BOOLEAN, sound : BOOLEAN, gen : Nat, ids : Seq(Nat), vecs : Seq(Nat),
             live : SUBSET Nat]
ManifestRow == [ids : Seq(Nat), sum : Sums, honest : BOOLEAN]

VecShape ==
    /\ chunks \in Nat /\ rows \subseteq 1..chunks
    /\ index \in IndexRow
    /\ disk \in [file : Seq(Nat), manifest : ManifestRow]
    /\ call \in [IndexCalls -> CallRow]
    /\ loading \in IndexCalls \cup {NoCall}

\* The rows that were there when a checksum was taken are among some ids: what
\* is there by now and no younger than the checksum's last id is one of them.
Within(sum, ids) == sum[2] <= chunks /\ \A r \in rows : r <= sum[2] => r \in ToSet(ids)

\* A load holds the load lock from its look at the disk until it has saved, and
\* finds the index cold until it publishes.
Loading == {"disk", "restore", "sample", "select", "verify", "publish", "save", "manifest"}
Building == {"restore", "sample", "select", "verify", "publish"}

LEMMA ChecksumIs ==
    ASSUME NEW N \in Nat, NEW R \in SUBSET (1..N)
    PROVE  /\ Checksum(R) \in Nat \X Nat /\ Checksum(R)[2] <= N
           /\ \A r \in R : r <= Checksum(R)[2]
<1>1. Cardinality(R) \in Nat
  <2>1. R \in SUBSET (0..N)
    OBVIOUS
  <2> QED BY <2>1, IncreasingExists
<1>2. CASE R = {}
  BY <1>2 DEF Checksum
<1>3. CASE R # {}
  <2>1. R \in SUBSET (0..N)
    OBVIOUS
  <2>2. Max(R) \in R /\ \A y \in R : y <= Max(R)
    BY <2>1, <1>3, MaxOf
  <2>3. Max(R) \in Nat /\ Max(R) <= N
    <3>1. Max(R) \in 1..N
      BY <2>2
    <3> HIDE DEF Max
    <3> QED BY <3>1
  <2> HIDE DEF Max
  <2> QED BY <1>1, <1>3, <2>2, <2>3 DEF Checksum
<1> QED BY <1>2, <1>3

\* What holds of one call: what a load is about to publish in the generation it
\* has sampled misses no row that is not announced, and what is saved under a
\* checksum has the rows of it.
CallHolds(c) ==
    /\ call[c].pc = "idle" => call[c] = IdleCall
    /\ call[c].new \subseteq 1..chunks
    /\ c \in Stores /\ call[c].pc = "write" => call[c].new = {}
    /\ c \in Purges /\ call[c].pc = "tombstone" =>
         call[c].old \subseteq 1..chunks /\ call[c].old \cap rows = {}
    /\ c \in Rebuilders =>
         /\ call[c].pc \in {"idle", "save", "manifest", "done"}
         /\ call[c].pc \in {"save", "manifest"} =>
              /\ ToSet(call[c].got) \subseteq 1..chunks
              /\ Within(Checksum(ToSet(call[c].got)), call[c].got)
    /\ c \notin Rebuilders =>
         /\ call[c].pc \in Loading => loading = c
         /\ call[c].pc \in Building => ~index.ready /\ call[c].gen <= index.gen
         /\ call[c].pc \in {"verify", "publish"} /\ call[c].gen = index.gen =>
              rows \subseteq ToSet(call[c].got) \cup Announced \cup unseen
         /\ call[c].pc \in {"select", "verify", "publish", "save", "manifest", "restore"} =>
              call[c].sum \in Nat \X Nat
         /\ call[c].pc = "select" => call[c].sum[2] <= chunks
         /\ call[c].pc \in {"verify", "publish", "manifest"} => Within(call[c].sum, call[c].got)
         /\ call[c].pc = "save" /\ index.ready => Within(call[c].sum, index.ids)
         /\ call[c].pc = "restore" /\ call[c].honest => Within(call[c].sum, call[c].got)

ColdIsEmpty == ~index.ready => index = ColdIndex(index.gen)
IdsStand ==
    /\ index.ready /\ index.sound => index.ids = index.vecs
    /\ index.live \subseteq ToSet(index.ids)
WarmIsWhole ==
    index.ready /\ index.sound => rows \subseteq index.live \cup Announced \cup unseen
DiskIsOfRows ==
    disk.manifest.honest /\ disk.manifest.sum # <<>> =>
        Within(disk.manifest.sum, disk.manifest.ids)

VecInv ==
    /\ VecShape
    /\ \A c \in IndexCalls : CallHolds(c)
    /\ ColdIsEmpty /\ IdsStand /\ WarmIsWhole /\ DiskIsOfRows

\* The rows that a call still has to announce.
AnnouncedBy(c) ==
    {r \in call[c].new \cup call[c].old :
        \/ /\ c \in Stores \cup Sweeps /\ call[c].pc \in {"write", "refresh", "behind"}
           /\ r \in call[c].new
        \/ c \in Stores /\ call[c].pc = "write" /\ r \in call[c].old}

LEMMA AnnouncedIs ==
    ASSUME NEW r
    PROVE  r \in Announced <=> \E c \in Stores \cup Sweeps : r \in AnnouncedBy(c)
<1>1. ASSUME r \in Announced PROVE \E c \in Stores \cup Sweeps : r \in AnnouncedBy(c)
  <2>1. \/ \E c \in Stores \cup Sweeps : /\ call[c].pc \in {"write", "refresh", "behind"}
                                         /\ r \in call[c].new
        \/ \E s \in Stores : call[s].pc = "write" /\ r \in call[s].old
    BY <1>1 DEF Announced, At
  <2> QED BY <2>1 DEF AnnouncedBy
<1>2. ASSUME NEW c \in Stores \cup Sweeps, r \in AnnouncedBy(c) PROVE r \in Announced
  <2>1. CASE call[c].pc \in {"write", "refresh", "behind"} /\ r \in call[c].new
    BY <2>1 DEF Announced
  <2>2. CASE c \in Stores /\ call[c].pc = "write" /\ r \in call[c].old
    BY <2>2 DEF Announced, At
  <2> QED BY <1>2, <2>1, <2>2 DEF AnnouncedBy
<1> QED BY <1>1, <1>2

LEMMA AnnouncedIsNext ==
    ASSUME NEW c \in Stores \cup Sweeps, NEW r, r \in AnnouncedBy(c)'
    PROVE  r \in Announced'
<1>1. CASE call'[c].pc \in {"write", "refresh", "behind"} /\ r \in call'[c].new
  BY <1>1 DEF Announced
<1>2. CASE c \in Stores /\ call'[c].pc = "write" /\ r \in call'[c].old
  BY <1>2 DEF Announced, At
<1> QED BY <1>1, <1>2 DEF AnnouncedBy

\* A step of one call leaves what the others announce.
LEMMA AnnouncedStep ==
    ASSUME VecShape, NEW c \in IndexCalls, NEW x \in CallRow, call' = [call EXCEPT ![c] = x]
    PROVE  /\ \A r \in Announced : r \in AnnouncedBy(c) \/ r \in Announced'
           /\ c \in Stores \cup Sweeps /\ x.pc \in {"write", "refresh", "behind"} =>
                x.new \subseteq Announced'
           /\ c \in Stores /\ x.pc = "write" => x.old \subseteq Announced'
<1>1. \A d \in IndexCalls : d # c => call'[d] = call[d]
  BY DEF VecShape
<1>2. Stores \cup Sweeps \subseteq IndexCalls /\ call'[c] = x
  BY DEF IndexCalls, VecShape
<1>3. ASSUME NEW r \in Announced, r \notin AnnouncedBy(c) PROVE r \in Announced'
  <2>1. PICK d \in Stores \cup Sweeps : r \in AnnouncedBy(d)
    BY AnnouncedIs
  <2>2. d # c
    BY <1>3, <2>1
  <2>3. call'[d] = call[d]
    BY <1>1, <1>2, <2>2
  <2>4. r \in AnnouncedBy(d)'
    BY <2>1, <2>3 DEF AnnouncedBy
  <2> QED BY <2>4, AnnouncedIsNext
<1>4. ASSUME c \in Stores \cup Sweeps, x.pc \in {"write", "refresh", "behind"}, NEW r \in x.new
      PROVE  r \in Announced'
  <2>1. r \in AnnouncedBy(c)'
    BY <1>2, <1>4 DEF AnnouncedBy
  <2> QED BY <1>4, <2>1, AnnouncedIsNext
<1>5. ASSUME c \in Stores, x.pc = "write", NEW r \in x.old
      PROVE  r \in Announced'
  <2>1. r \in AnnouncedBy(c)'
    BY <1>2, <1>5 DEF AnnouncedBy
  <2> QED BY <1>5, <2>1, AnnouncedIsNext
<1> QED BY <1>3, <1>4, <1>5

\* What a step of one call may do to the rest: it does not open a build of
\* another load to rows that nobody announces.
Gentle(c) ==
    /\ chunks' \in Nat /\ chunks <= chunks' /\ chunks' <= chunks + 1
    /\ rows' \subseteq 1..chunks' /\ \A r \in rows' : r \in rows \/ r = chunks + 1
    /\ loading' = loading \/ loading \in {c, NoCall}
    /\ index.gen <= index'.gen
    /\ index'.ready => loading = c \/ (index.ready /\ ToSet(index.ids) \subseteq ToSet(index'.ids))
    /\ loading \notin {c, NoCall} /\ index'.gen = index.gen /\ ~index.ready =>
         \A r \in rows' : \/ r \in Announced' \cup unseen'
                          \/ r \in rows /\ r \notin Announced \cup unseen

LEMMA OthersHold ==
    ASSUME VecInv, VecShape', NEW c \in IndexCalls, NEW x \in CallRow,
           call' = [call EXCEPT ![c] = x], Gentle(c),
           NEW d \in IndexCalls, d # c
    PROVE  CallHolds(d)'
<1>1. PICK y \in CallRow : y = call[d] /\ y = call'[d]
  BY DEF VecInv, VecShape
<1>2. CallHolds(d) /\ VecShape
  BY DEF VecInv
<1>3. NoCall \notin IndexCalls
  BY IndexConstants DEF IndexCalls
<1>4. chunks \in Nat /\ index \in IndexRow /\ index' \in IndexRow /\ rows \subseteq Nat /\ rows' \subseteq Nat
  BY <1>2 DEF VecShape
<1>5. index.gen \in Nat /\ index'.gen \in Nat /\ y.gen \in Nat
  BY <1>1, <1>4 DEF IndexRow, CallRow
<1>6. \A s \in Nat \X Nat : \A ids, more : Within(s, ids) /\ ToSet(ids) \subseteq ToSet(more)
         => s[2] <= chunks' /\ \A r \in rows' : r <= s[2] => r \in ToSet(more)
  <2> SUFFICES ASSUME NEW s \in Nat \X Nat, NEW ids, NEW more, Within(s, ids),
                      ToSet(ids) \subseteq ToSet(more)
               PROVE  s[2] <= chunks' /\ \A r \in rows' : r <= s[2] => r \in ToSet(more)
    OBVIOUS
  <2>1. s[2] \in Nat /\ s[2] <= chunks
    BY DEF Within
  <2>2. ASSUME NEW r \in rows', r <= s[2] PROVE r \in rows
    <3>1. r \in Nat /\ r # chunks + 1
      BY <2>1, <2>2, <1>4
    <3> QED BY <3>1 DEF Gentle
  <2> QED BY <2>1, <2>2, <1>4 DEF Within, Gentle
<1>7. y.pc = "idle" => y = IdleCall
  BY <1>1, <1>2 DEF CallHolds
<1>8. y.new \subseteq 1..chunks'
  <2>1. y.new \subseteq 1..chunks
    BY <1>1, <1>2 DEF CallHolds
  <2> QED BY <2>1, <1>4 DEF Gentle
<1>9. d \in Stores /\ y.pc = "write" => y.new = {}
  BY <1>1, <1>2 DEF CallHolds
<1>10. ASSUME d \in Purges, y.pc = "tombstone" PROVE y.old \subseteq 1..chunks' /\ y.old \cap rows' = {}
  <2>1. y.old \subseteq 1..chunks /\ y.old \cap rows = {}
    BY <1>1, <1>2, <1>10 DEF CallHolds
  <2>2. chunks + 1 \notin y.old
    BY <2>1, <1>4
  <2> QED BY <2>1, <2>2, <1>4 DEF Gentle
<1>11. ASSUME d \in Rebuilders
       PROVE  /\ y.pc \in {"idle", "save", "manifest", "done"}
              /\ y.pc \in {"save", "manifest"} =>
                   /\ ToSet(y.got) \subseteq 1..chunks'
                   /\ Checksum(ToSet(y.got))[2] <= chunks'
                   /\ \A r \in rows' : r <= Checksum(ToSet(y.got))[2] => r \in ToSet(y.got)
  <2>1. y.pc \in {"idle", "save", "manifest", "done"}
    BY <1>1, <1>2, <1>11 DEF CallHolds
  <2>2. ASSUME y.pc \in {"save", "manifest"}
        PROVE  /\ ToSet(y.got) \subseteq 1..chunks'
               /\ Checksum(ToSet(y.got))[2] <= chunks'
               /\ \A r \in rows' : r <= Checksum(ToSet(y.got))[2] => r \in ToSet(y.got)
    <3>1. Within(Checksum(ToSet(y.got)), y.got) /\ ToSet(y.got) \subseteq 1..chunks
      BY <1>1, <1>2, <1>11, <2>2 DEF CallHolds
    <3>2. Checksum(ToSet(y.got)) \in Nat \X Nat
      BY <3>1, <1>4, ChecksumIs
    <3>3. ToSet(y.got) \subseteq 1..chunks'
      BY <3>1, <1>4 DEF Gentle
    <3> HIDE DEF Checksum
    <3> QED BY <3>1, <3>2, <3>3, <1>6
  <2> QED BY <2>1, <2>2
<1>12. ASSUME d \notin Rebuilders, y.pc \in Loading PROVE loading = d /\ loading' = d
  <2>1. loading = d
    BY <1>1, <1>2, <1>12 DEF CallHolds
  <2> QED BY <2>1, <1>3 DEF Gentle
<1>13. ASSUME d \notin Rebuilders, y.pc \in Loading, index'.ready
       PROVE  index.ready /\ ToSet(index.ids) \subseteq ToSet(index'.ids)
  BY <1>12, <1>13 DEF Gentle
<1>14. ASSUME d \notin Rebuilders, y.pc \in Building PROVE ~index.ready /\ ~index'.ready /\ y.gen <= index.gen /\ y.gen <= index'.gen
  <2>1. ~index.ready /\ y.gen <= index.gen
    BY <1>1, <1>2, <1>14 DEF CallHolds
  <2>2. y.pc \in Loading
    BY <1>14 DEF Building, Loading
  <2>3. ~index'.ready
    BY <2>1, <2>2, <1>13, <1>14
  <2>4. y.gen <= index'.gen
    BY <2>1, <1>5 DEF Gentle
  <2> QED BY <2>1, <2>3, <2>4
<1>15. ASSUME d \notin Rebuilders, y.pc \in {"verify", "publish"}, y.gen = index'.gen
       PROVE  rows' \subseteq ToSet(y.got) \cup Announced' \cup unseen'
  <2>1. y.pc \in Building /\ y.pc \in Loading
    BY <1>15 DEF Building, Loading
  <2>2. index.gen = index'.gen /\ ~index.ready
    BY <2>1, <1>14, <1>15, <1>5 DEF Gentle
  <2>3. rows \subseteq ToSet(y.got) \cup Announced \cup unseen
    <3>1. call[d].gen = index.gen
      BY <1>1, <1>15, <2>2
    <3> QED BY <3>1, <1>1, <1>2, <1>15 DEF CallHolds
  <2>4. loading \notin {c, NoCall}
    BY <1>3, <1>12, <1>15, <2>1
  <2>5. \A r \in rows' : \/ r \in Announced' \cup unseen'
                         \/ r \in rows /\ r \notin Announced \cup unseen
    BY <2>2, <2>4 DEF Gentle
  <2> QED BY <2>3, <2>5
<1>16. ASSUME d \notin Rebuilders,
              y.pc \in {"select", "verify", "publish", "save", "manifest", "restore"}
       PROVE  y.sum \in Nat \X Nat
  BY <1>1, <1>2, <1>16 DEF CallHolds
<1>17. ASSUME d \notin Rebuilders, y.pc = "select" PROVE y.sum[2] <= chunks'
  <2>1. y.sum[2] <= chunks /\ y.sum \in Nat \X Nat
    BY <1>1, <1>2, <1>16, <1>17 DEF CallHolds
  <2> QED BY <2>1, <1>4 DEF Gentle
<1>18. ASSUME d \notin Rebuilders,
              y.pc \in {"verify", "publish", "manifest"} \/ (y.pc = "restore" /\ y.honest)
       PROVE  y.sum[2] <= chunks' /\ \A r \in rows' : r <= y.sum[2] => r \in ToSet(y.got)
  <2>1. Within(y.sum, y.got)
    BY <1>1, <1>2, <1>18 DEF CallHolds
  <2> QED BY <2>1, <1>6, <1>16, <1>18
<1>19. ASSUME d \notin Rebuilders, y.pc = "save", index'.ready
       PROVE  y.sum[2] <= chunks' /\ \A r \in rows' : r <= y.sum[2] => r \in ToSet(index'.ids)
  <2>1. y.pc \in Loading
    BY <1>19 DEF Loading
  <2>2. index.ready /\ ToSet(index.ids) \subseteq ToSet(index'.ids)
    BY <1>13, <1>19, <2>1
  <2>3. Within(y.sum, index.ids)
    BY <1>1, <1>2, <1>19, <2>2 DEF CallHolds
  <2> QED BY <2>2, <2>3, <1>6, <1>16, <1>19
<1> HIDE DEF Checksum
<1> QED BY <1>1, <1>7, <1>8, <1>9, <1>10, <1>11, <1>12, <1>14, <1>15, <1>16, <1>17, <1>18, <1>19
        DEF CallHolds, Within

\* Every row was there and announced by nobody, or is announced or given up.
Covered == \A r \in rows' : \/ r \in Announced' \cup unseen'
                            \/ r \in rows /\ r \notin Announced \cup unseen

LEMMA StepHolds ==
    ASSUME VecInv, NEW c \in IndexCalls, NEW x \in CallRow,
           call' = [call EXCEPT ![c] = x], Gentle(c),
           index' \in IndexRow, disk' \in [file : Seq(Nat), manifest : ManifestRow],
           loading' \in IndexCalls \cup {NoCall}
    PROVE  /\ VecShape'
           /\ CallHolds(c)' /\ ColdIsEmpty' /\ IdsStand' /\ WarmIsWhole' /\ DiskIsOfRows' => VecInv'
<1>1. VecShape'
  BY DEF VecInv, VecShape, Gentle
<1>2. ASSUME CallHolds(c)' PROVE \A d \in IndexCalls : CallHolds(d)'
  <2> SUFFICES ASSUME NEW d \in IndexCalls PROVE CallHolds(d)'
    OBVIOUS
  <2>1. CASE d = c
    BY <1>2, <2>1
  <2>2. CASE d # c
    BY <1>1, <2>2, OthersHold
  <2> QED BY <2>1, <2>2
<1>3. ASSUME CallHolds(c)', ColdIsEmpty', IdsStand', WarmIsWhole', DiskIsOfRows' PROVE VecInv'
  BY <1>1, <1>2, <1>3 DEF VecInv
<1> QED BY <1>1, <1>3

\* What is on disk stays the rows of its checksum.
LEMMA DiskStays ==
    ASSUME VecInv, NEW c, Gentle(c), disk'.manifest = disk.manifest
    PROVE  DiskIsOfRows'
<1>1. disk.manifest.sum \in Sums /\ chunks \in Nat /\ rows \subseteq Nat
  BY DEF VecInv, VecShape, ManifestRow
<1>2. CASE disk.manifest.honest /\ disk.manifest.sum # <<>>
  <2>1. disk.manifest.sum[2] \in Nat
    BY <1>1, <1>2 DEF Sums
  <2>2. Within(disk.manifest.sum, disk.manifest.ids)
    BY <1>2 DEF VecInv, DiskIsOfRows
  <2>3. disk.manifest.sum[2] <= chunks'
    BY <1>1, <2>1, <2>2 DEF Within, Gentle
  <2>4. ASSUME NEW r \in rows', r <= disk.manifest.sum[2] PROVE r \in ToSet(disk.manifest.ids)
    <3>1. r \in rows
      BY <1>1, <2>1, <2>2, <2>4 DEF Gentle, Within
    <3> QED BY <2>2, <2>4, <3>1 DEF Within
  <2> QED BY <2>3, <2>4 DEF DiskIsOfRows, Within
<1> QED BY <1>2 DEF DiskIsOfRows

\* A step that leaves the index alone, while a row that the call stops
\* announcing is given up.
LEMMA IndexKept ==
    ASSUME VecInv, NEW c \in IndexCalls, NEW x \in CallRow, call' = [call EXCEPT ![c] = x],
           index' = index, disk' \in [file : Seq(Nat), manifest : ManifestRow],
           disk'.manifest = disk.manifest \/ DiskIsOfRows',
           chunks' \in Nat, chunks <= chunks', chunks' <= chunks + 1, rows' \subseteq 1..chunks',
           \A r \in rows' : r \in rows \/ r = chunks + 1,
           loading' = loading \/ loading \in {c, NoCall}, loading' \in IndexCalls \cup {NoCall},
           Covered
    PROVE  Gentle(c) /\ VecShape' /\ (CallHolds(c)' => VecInv')
<1>1. index \in IndexRow
  BY DEF VecInv, VecShape
<1>2. Gentle(c)
  BY <1>1 DEF Gentle, Covered, IndexRow
<1>3. ColdIsEmpty' /\ IdsStand'
  <2>1. ColdIsEmpty /\ IdsStand
    BY DEF VecInv
  <2> QED BY <2>1 DEF ColdIsEmpty, IdsStand
<1>4. WarmIsWhole'
  BY DEF VecInv, WarmIsWhole, Covered
<1>5. DiskIsOfRows'
  BY <1>2, DiskStays
<1> QED BY <1>1, <1>2, <1>3, <1>4, <1>5, StepHolds

\* A call that announces nothing lets every row be as covered as it was.
LEMMA SilentCovers ==
    ASSUME VecShape, NEW c \in IndexCalls, NEW x \in CallRow, call' = [call EXCEPT ![c] = x],
           rows' \subseteq rows, unseen' = unseen, AnnouncedBy(c) = {}
    PROVE  Covered /\ Announced \subseteq Announced'
BY AnnouncedStep DEF Covered

LEMMA AnnouncesNothing ==
    ASSUME NEW c \in IndexCalls,
           c \notin Stores \cup Sweeps \/ call[c].pc \notin {"write", "refresh", "behind"}
    PROVE  AnnouncedBy(c) = {}
<1> SUFFICES ASSUME NEW r \in AnnouncedBy(c) PROVE FALSE
  OBVIOUS
<1>1. c \in Stores \cup Sweeps /\ call[c].pc \in {"write", "refresh", "behind"}
  BY DEF AnnouncedBy
<1> QED BY <1>1

LEMMA GotoRow ==
    ASSUME VecShape, NEW c \in IndexCalls, NEW pc \in IndexPcs, Goto(c, pc)
    PROVE  \E x \in CallRow :
              /\ call' = [call EXCEPT ![c] = x] /\ call'[c] = x /\ x.pc = pc
              /\ x.old = call[c].old /\ x.new = call[c].new /\ x.gen = call[c].gen
              /\ x.sum = call[c].sum /\ x.got = call[c].got /\ x.honest = call[c].honest
<1> DEFINE x == [call[c] EXCEPT !.pc = pc]
<1>1. call[c] \in CallRow /\ call \in [IndexCalls -> CallRow]
  BY DEF VecShape
<1>2. x \in CallRow /\ call' = [call EXCEPT ![c] = x] /\ call'[c] = x
  BY <1>1 DEF CallRow, Goto
<1>3. /\ x.pc = pc /\ x.old = call[c].old /\ x.new = call[c].new /\ x.gen = call[c].gen
      /\ x.sum = call[c].sum /\ x.got = call[c].got /\ x.honest = call[c].honest
  BY <1>1 DEF CallRow
<1> HIDE DEF x
<1> QED BY <1>2, <1>3

LEMMA EndsRow ==
    ASSUME VecShape, NEW c \in IndexCalls, Ends(c)
    PROVE  \E x \in CallRow :
              /\ call' = [call EXCEPT ![c] = x] /\ call'[c] = x /\ x = Over
              /\ x.pc = "done" /\ x.old = {} /\ x.new = {}
<1> DEFINE x == Over
<1>1. call \in [IndexCalls -> CallRow]
  BY DEF VecShape
<1>2. x.pc = "done" /\ x.old = {} /\ x.new = {}
  BY DEF Over, IdleCall
<1>2a. x \in CallRow
  <2>1. <<>> \in Sums /\ <<>> \in Seq(Nat) /\ "done" \in IndexPcs
    BY DEF Sums, IndexPcs
  <2> QED BY <2>1 DEF Over, IdleCall, CallRow
<1>3. call' = [call EXCEPT ![c] = x] /\ call'[c] = x
  BY <1>1 DEF Ends
<1> HIDE DEF x
<1>4. x = Over
  BY DEF x
<1> QED BY <1>2, <1>2a, <1>3, <1>4

\* A call that is over holds nothing.
LEMMA OverHolds ==
    ASSUME NEW c \in IndexCalls, call'[c].pc = "done", call'[c].new = {}
    PROVE  CallHolds(c)'
BY DEF CallHolds, Loading, Building

\* A call on its way to a load holds what it has told.
LEMMA WaitingHolds ==
    ASSUME NEW c \in IndexCalls, c \notin Rebuilders, call'[c].pc \in {"load", "behind"},
           call'[c].new \subseteq 1..chunks'
    PROVE  CallHolds(c)'
BY DEF CallHolds, Loading, Building

\* A step in which a call that announces nothing moves, and nothing else.
LEMMA Unmoved ==
    ASSUME VecInv, NEW c \in IndexCalls, NEW x \in CallRow, call' = [call EXCEPT ![c] = x],
           UNCHANGED <<rows, chunks, index, disk, unseen>>, AnnouncedBy(c) = {},
           loading' = loading \/ loading \in {c, NoCall}, loading' \in IndexCalls \cup {NoCall},
           CallHolds(c)'
    PROVE  VecInv'
<1>1. VecShape /\ chunks \in Nat /\ rows \subseteq 1..chunks
  BY DEF VecInv, VecShape
<1>2. Covered
  BY <1>1, SilentCovers
<1>3. chunks' \in Nat /\ chunks <= chunks' /\ chunks' <= chunks + 1 /\ rows' \subseteq 1..chunks'
  BY <1>1
<1>4. /\ index' = index /\ disk' \in [file : Seq(Nat), manifest : ManifestRow]
      /\ disk'.manifest = disk.manifest /\ \A r \in rows' : r \in rows \/ r = chunks + 1
  BY <1>1 DEF VecShape
<1> QED BY <1>2, <1>3, <1>4, IndexKept

LEMMA SearchKeepsVectors ==
    ASSUME VecInv, NEW q \in Searches, Search(q)
    PROVE  VecInv'
<1>1. /\ q \in IndexCalls /\ q \notin Rebuilders /\ q \notin Stores \cup Sweeps
  BY IndexConstants DEF IndexCalls
<1>2. /\ VecShape /\ CallHolds(q)
  BY <1>1 DEF VecInv
<1>3. PICK x \in CallRow : /\ call' = [call EXCEPT ![q] = x] /\ call'[q] = x
                           /\ x.pc \in {"done", "load"} /\ x.new \subseteq call[q].new
                           /\ x.pc = "done" => x.new = {}
  <2>1. CASE index.ready
    BY <1>1, <1>2, <2>1, EndsRow DEF Search
  <2>2. CASE ~index.ready
    <3>1. Goto(q, "load") /\ "load" \in IndexPcs
      BY <2>2 DEF Search, IndexPcs
    <3> QED BY <1>1, <1>2, <3>1, GotoRow
  <2> QED BY <2>1, <2>2
<1>4. call[q].new \subseteq 1..chunks /\ chunks' = chunks
  BY <1>2 DEF CallHolds, Search
<1>5. CallHolds(q)'
  BY <1>1, <1>3, <1>4, OverHolds, WaitingHolds
<1>6. AnnouncedBy(q) = {}
  BY <1>1, AnnouncesNothing
<1> QED BY <1>1, <1>2, <1>3, <1>5, <1>6, Unmoved DEF Search, VecShape

\* A load that ends without touching the index.
LEMMA GivingUpKeepsVectors ==
    ASSUME VecInv, NEW c \in IndexCalls, Ends(c),
           call[c].pc \notin {"write", "refresh", "behind"},
           loading' = IF loading = c THEN NoCall ELSE loading,
           UNCHANGED <<rows, chunks, index, disk, unseen>>
    PROVE  VecInv'
<1>1. VecShape /\ chunks \in Nat
  BY DEF VecInv, VecShape
<1>2. PICK x \in CallRow : /\ call' = [call EXCEPT ![c] = x] /\ call'[c] = x
                           /\ x.pc = "done" /\ x.new = {}
  BY <1>1, EndsRow
<1>3. CallHolds(c)'
  BY <1>2, OverHolds
<1>4. AnnouncedBy(c) = {}
  BY AnnouncesNothing
<1> QED BY <1>1, <1>2, <1>3, <1>4, Unmoved DEF VecShape

LEMMA LoadEntryKeepsVectors ==
    ASSUME VecInv, NEW c \in IndexCalls,
           LoadIsWarm(c) \/ LoadLocks(c) \/ (c \in Searches /\ SearchGivesUp(c))
    PROVE  VecInv'
<1>1. VecShape /\ chunks \in Nat /\ CallHolds(c)
  BY DEF VecInv, VecShape
<1>2. CASE LoadIsWarm(c)
  <2>1. call[c].pc = "load" /\ c \notin Rebuilders
    BY <1>1, <1>2 DEF LoadIsWarm, At, CallHolds
  <2>2. PICK x \in CallRow : /\ call' = [call EXCEPT ![c] = x] /\ call'[c] = x
                             /\ x.pc = "done" /\ x.new = {}
    BY <1>1, <1>2, EndsRow DEF LoadIsWarm
  <2>3. CallHolds(c)'
    BY <2>2, OverHolds
  <2>4. AnnouncedBy(c) = {}
    BY <2>1, AnnouncesNothing
  <2> QED BY <1>1, <1>2, <2>2, <2>3, <2>4, Unmoved DEF LoadIsWarm, VecShape
<1>3. CASE LoadLocks(c)
  <2>1. call[c].pc = "load" /\ c \notin Rebuilders /\ Goto(c, "disk") /\ "disk" \in IndexPcs
    BY <1>1, <1>3 DEF LoadLocks, At, CallHolds, IndexPcs
  <2>2. PICK x \in CallRow : /\ call' = [call EXCEPT ![c] = x] /\ call'[c] = x
                             /\ x.pc = "disk" /\ x.new = call[c].new
    BY <1>1, <2>1, GotoRow
  <2>3. CallHolds(c)'
    <3>1. loading' = c /\ x.new \subseteq 1..chunks'
      BY <1>1, <1>3, <2>2 DEF CallHolds, LoadLocks
    <3> QED BY <2>1, <2>2, <3>1 DEF CallHolds, Loading, Building
  <2>4. AnnouncedBy(c) = {}
    BY <2>1, AnnouncesNothing
  <2> QED BY <1>1, <1>3, <2>2, <2>3, <2>4, Unmoved DEF LoadLocks, VecShape
<1>4. CASE c \in Searches /\ SearchGivesUp(c)
  BY <1>4, GivingUpKeepsVectors DEF SearchGivesUp
<1> QED BY <1>2, <1>3, <1>4

LEMMA SeqValues ==
    ASSUME NEW s \in Seq(Nat)
    PROVE  ToSet(s) \subseteq Nat
BY DEF ToSet

LEMMA ColdStep ==
    ASSUME VecInv, NEW c \in IndexCalls, NEW x \in CallRow, call' = [call EXCEPT ![c] = x],
           UNCHANGED <<rows, chunks, disk>>, index' = ColdIndex(index.gen + 1),
           loading' = loading \/ loading \in {c, NoCall}, loading' \in IndexCalls \cup {NoCall},
           CallHolds(c)'
    PROVE  VecInv'
<1>1. /\ VecShape /\ chunks \in Nat /\ rows \subseteq 1..chunks /\ index.gen \in Nat
      /\ disk \in [file : Seq(Nat), manifest : ManifestRow]
  BY DEF VecInv, VecShape, IndexRow
<1>2. PICK ix \in IndexRow : /\ ix = index' /\ ix = ColdIndex(index.gen + 1) /\ ~ix.ready
                             /\ ix.gen = index.gen + 1 /\ ix.live = {}
  <2> DEFINE ix == ColdIndex(index.gen + 1)
  <2>1. ix \in IndexRow /\ ~ix.ready /\ ix.gen = index.gen + 1 /\ ix.live = {}
    <3>1. <<>> \in Seq(Nat) /\ index.gen + 1 \in Nat
      BY <1>1
    <3> QED BY <3>1 DEF ColdIndex, IndexRow
  <2>2. ix = ColdIndex(index.gen + 1) /\ ix = index'
    OBVIOUS
  <2> HIDE DEF ix
  <2> QED BY <2>1, <2>2
<1>3. Gentle(c)
  BY <1>1, <1>2 DEF Gentle
<1>4. ColdIsEmpty' /\ IdsStand' /\ WarmIsWhole'
  BY <1>2 DEF ColdIsEmpty, IdsStand, WarmIsWhole
<1>5. DiskIsOfRows'
  BY <1>3, DiskStays
<1> QED BY <1>1, <1>2, <1>3, <1>4, <1>5, StepHolds

LEMMA PublishStep ==
    ASSUME VecInv, NEW c \in IndexCalls, NEW x \in CallRow, call' = [call EXCEPT ![c] = x],
           UNCHANGED <<rows, chunks, disk>>,
           loading = c, loading' \in {c, NoCall},
           NEW ids \in Seq(Nat), NEW vecs \in Seq(Nat), NEW sound \in BOOLEAN,
           index' = Built(ids, vecs, sound), sound => ids = vecs,
           sound => rows \subseteq ToSet(ids) \cup Announced' \cup unseen',
           CallHolds(c)'
    PROVE  VecInv'
<1>1. /\ VecShape /\ chunks \in Nat /\ rows \subseteq 1..chunks /\ index.gen \in Nat
      /\ disk \in [file : Seq(Nat), manifest : ManifestRow]
  BY DEF VecInv, VecShape, IndexRow
<1>2. PICK ix \in IndexRow : /\ ix = index' /\ ix.ready /\ ix.gen = index.gen
                             /\ ix.live = ToSet(ids) /\ ix.ids = ids /\ ix.vecs = vecs
                             /\ ix.sound = sound
  <2> DEFINE ix == Built(ids, vecs, sound)
  <2>1. /\ ix.ready /\ ix.gen = index.gen /\ ix.sound = sound
        /\ ix.live = ToSet(ids) /\ ix.ids = ids /\ ix.vecs = vecs
    BY DEF Built
  <2>2. ix \in IndexRow
    BY <1>1, SeqValues DEF Built, IndexRow
  <2>3. ix = index'
    OBVIOUS
  <2> HIDE DEF ix
  <2> QED BY <2>1, <2>2, <2>3
<1>3. Gentle(c)
  BY <1>1, <1>2 DEF Gentle
<1>4. ColdIsEmpty' /\ IdsStand'
  BY <1>2 DEF ColdIsEmpty, IdsStand
<1>5. WarmIsWhole'
  BY <1>2 DEF WarmIsWhole
<1>6. DiskIsOfRows'
  BY <1>3, DiskStays
<1>7. loading' \in IndexCalls \cup {NoCall}
  OBVIOUS
<1> QED BY <1>1, <1>2, <1>3, <1>4, <1>5, <1>6, <1>7, StepHolds

LEMMA SumIsNotEmpty ==
    ASSUME NEW s \in Nat \X Nat
    PROVE  s # <<>>
<1>1. PICK a \in Nat, b \in Nat : s = <<a, b>>
  OBVIOUS
<1>2. Len(<<a, b>>) = 2 /\ Len(<<>>) = 0
  OBVIOUS
<1> QED BY <1>1, <1>2

LEMMA LooksKeepsVectors ==
    ASSUME VecInv, NEW c \in IndexCalls, LoadLooksAtDisk(c)
    PROVE  VecInv'
<1>1. VecShape /\ chunks \in Nat /\ rows \subseteq 1..chunks /\ CallHolds(c) /\ index.gen \in Nat
  BY DEF VecInv, VecShape, IndexRow
<1>2. call[c].pc = "disk" /\ c \notin Rebuilders
  BY <1>1 DEF LoadLooksAtDisk, At, CallHolds
<1>3. loading = c
  BY <1>1, <1>2 DEF CallHolds, Loading
<1>4. CASE index.ready
  BY <1>2, <1>3, <1>4, GivingUpKeepsVectors DEF LoadLooksAtDisk, Loaded
<1>5. CASE ~index.ready
  <2> DEFINE sum == Checksum(rows)
             pc == IF disk.manifest.sum = sum THEN "restore" ELSE "sample"
             x == [call[c] EXCEPT !.pc = pc, !.gen = index.gen, !.sum = sum,
                                  !.got = disk.manifest.ids, !.honest = disk.manifest.honest]
  <2>1. sum \in Nat \X Nat
    BY <1>1, ChecksumIs
  <2>2. pc \in {"restore", "sample"} /\ (pc = "restore" => sum = disk.manifest.sum)
    OBVIOUS
  <2>3. call[c] \in CallRow /\ disk.manifest \in ManifestRow
    BY <1>1 DEF VecShape
  <2>4. call' = [call EXCEPT ![c] = x]
    BY <1>5 DEF LoadLooksAtDisk
  <2> HIDE DEF pc, sum
  <2>5. x \in CallRow
    BY <1>1, <2>1, <2>2, <2>3 DEF CallRow, ManifestRow, Sums, IndexPcs
  <2>6. /\ x.pc = pc /\ x.gen = index.gen /\ x.sum = sum /\ x.new = call[c].new
        /\ x.got = disk.manifest.ids /\ x.honest = disk.manifest.honest
    BY <2>3 DEF CallRow
  <2>7. call'[c] = x
    BY <2>4, <1>1 DEF VecShape
  <2> HIDE DEF x
  <2>8. /\ UNCHANGED <<rows, chunks, index, disk, unseen>> /\ loading' = loading
    BY <1>5 DEF LoadLooksAtDisk
  <2>9. ASSUME pc = "restore", x.honest PROVE Within(x.sum, x.got)
    <3>1. disk.manifest.sum # <<>>
      BY <2>1, <2>2, <2>9, SumIsNotEmpty
    <3>2. Within(disk.manifest.sum, disk.manifest.ids)
      BY <2>6, <2>9, <3>1 DEF VecInv, DiskIsOfRows
    <3> QED BY <2>2, <2>6, <2>9, <3>2
  <2>10. CallHolds(c)'
    <3>1. x.new \subseteq 1..chunks'
      BY <1>1, <2>6, <2>8 DEF CallHolds
    <3>2. ~index'.ready /\ x.gen <= index'.gen /\ loading' = c
      BY <1>1, <1>3, <1>5, <2>6, <2>8
    <3>3. pc = "restore" /\ x.honest => x.sum[2] <= chunks' /\ \A r \in rows' : r <= x.sum[2] => r \in ToSet(x.got)
      BY <2>8, <2>9 DEF Within
    <3>4. x.sum \in Nat \X Nat /\ x.pc \in {"restore", "sample"}
      BY <2>1, <2>2, <2>6
    <3> QED BY <1>2, <2>6, <2>7, <3>1, <3>2, <3>3, <3>4 DEF CallHolds, Within
  <2>11. AnnouncedBy(c) = {}
    BY <1>2, AnnouncesNothing
  <2> QED BY <1>1, <2>4, <2>5, <2>8, <2>10, <2>11, Unmoved DEF VecShape
<1> QED BY <1>4, <1>5

\* A load that goes back to sampling.
LEMMA BackToSample ==
    ASSUME VecInv, NEW c \in IndexCalls, call[c].pc \in Building, c \notin Rebuilders,
           Goto(c, "sample"), UNCHANGED <<rows, chunks, index, disk, loading, unseen>>
    PROVE  VecInv'
<1>1. VecShape /\ CallHolds(c) /\ "sample" \in IndexPcs
  BY DEF VecInv, IndexPcs
<1>2. PICK x \in CallRow : /\ call' = [call EXCEPT ![c] = x] /\ call'[c] = x /\ x.pc = "sample"
                           /\ x.new = call[c].new /\ x.gen = call[c].gen
  BY <1>1, GotoRow
<1>3. loading = c /\ ~index.ready /\ call[c].gen <= index.gen
  BY <1>1 DEF CallHolds, Building, Loading
<1>4. call[c].new \subseteq 1..chunks
  BY <1>1 DEF CallHolds
<1>5. CallHolds(c)'
  BY <1>2, <1>3, <1>4 DEF CallHolds
<1>6. AnnouncedBy(c) = {}
  BY AnnouncesNothing DEF Building
<1> QED BY <1>1, <1>2, <1>5, <1>6, Unmoved DEF VecShape

\* A load that ends with a cold index.
LEMMA EndsCold ==
    ASSUME VecInv, NEW c \in IndexCalls, loading = c, Loaded(c),
           index' = ColdIndex(index.gen + 1), UNCHANGED <<rows, chunks, disk>>
    PROVE  VecInv'
<1>1. VecShape
  BY DEF VecInv
<1>2. PICK x \in CallRow : /\ call' = [call EXCEPT ![c] = x] /\ call'[c] = x
                           /\ x.pc = "done" /\ x.new = {}
  BY <1>1, EndsRow DEF Loaded
<1>3. CallHolds(c)'
  BY <1>2, OverHolds
<1> QED BY <1>2, <1>3, ColdStep DEF Loaded

LEMMA RestoreKeepsVectors ==
    ASSUME VecInv, NEW c \in IndexCalls, Restore(c)
    PROVE  VecInv'
<1>1. VecShape /\ chunks \in Nat /\ rows \subseteq 1..chunks /\ CallHolds(c)
  BY DEF VecInv, VecShape
<1>2. call[c].pc = "restore" /\ c \notin Rebuilders
  BY <1>1 DEF Restore, At, CallHolds
<1>3. loading = c
  BY <1>1, <1>2 DEF CallHolds, Loading
<1>4. CASE index.gen = call[c].gen /\ Checksum(rows) = call[c].sum
  <2>1. PICK sound \in BOOLEAN : sound = (call[c].honest /\ call[c].got = disk.file)
    OBVIOUS
  <2>2. call[c].got \in Seq(Nat) /\ disk.file \in Seq(Nat)
    BY <1>1 DEF VecShape, CallRow
  <2>3. index' = Built(call[c].got, disk.file, sound)
    BY <1>4, <2>1 DEF Restore
  <2>4. PICK x \in CallRow : /\ call' = [call EXCEPT ![c] = x] /\ call'[c] = x
                             /\ x.pc = "done" /\ x.new = {}
    BY <1>1, <1>4, EndsRow DEF Restore, Loaded
  <2>5. CallHolds(c)'
    BY <2>4, OverHolds
  <2>6. sound => call[c].got = disk.file /\ rows \subseteq ToSet(call[c].got)
    <3> SUFFICES ASSUME sound, NEW r \in rows PROVE r \in ToSet(call[c].got)
      BY <2>1
    <3>1. Within(call[c].sum, call[c].got)
      BY <1>1, <1>2, <2>1 DEF CallHolds
    <3>2. r <= call[c].sum[2]
      BY <1>1, <1>4, ChecksumIs
    <3> QED BY <3>1, <3>2 DEF Within
  <2>7. UNCHANGED <<rows, chunks, disk>> /\ loading' = NoCall
    BY <1>4 DEF Restore, Loaded
  <2> QED BY <1>3, <2>2, <2>3, <2>4, <2>5, <2>6, <2>7, PublishStep
<1>5. CASE ~(index.gen = call[c].gen /\ Checksum(rows) = call[c].sum)
  <2>1. Goto(c, "sample") /\ UNCHANGED <<rows, chunks, index, disk, loading, unseen>>
    BY <1>5 DEF Restore
  <2>2. call[c].pc \in Building
    BY <1>2 DEF Building
  <2> QED BY <1>2, <2>1, <2>2, BackToSample
<1> QED BY <1>4, <1>5

LEMMA SamplesKeepsVectors ==
    ASSUME VecInv, NEW c \in IndexCalls, LoadSamples(c)
    PROVE  VecInv'
<1>1. VecShape /\ chunks \in Nat /\ rows \subseteq 1..chunks /\ CallHolds(c) /\ index.gen \in Nat
  BY DEF VecInv, VecShape, IndexRow
<1>2. call[c].pc = "sample" /\ c \notin Rebuilders
  BY <1>1 DEF LoadSamples, At, CallHolds
<1>3. loading = c /\ ~index.ready
  BY <1>1, <1>2 DEF CallHolds, Loading, Building
<1>4. CASE call[c].tries = LoadTries
  BY <1>3, <1>4, EndsCold DEF LoadSamples
<1>5. CASE call[c].tries # LoadTries
  <2> DEFINE sum == Checksum(rows)
             n == call[c].tries + 1
             x == [call[c] EXCEPT !.pc = "select", !.gen = index.gen, !.sum = sum, !.tries = n]
  <2>1. sum \in Nat \X Nat /\ sum[2] <= chunks
    BY <1>1, ChecksumIs
  <2>2. call[c] \in CallRow /\ n \in Nat
    BY <1>1 DEF VecShape, CallRow
  <2>3. call' = [call EXCEPT ![c] = x]
    BY <1>5 DEF LoadSamples
  <2> HIDE DEF sum, n
  <2>4. x \in CallRow
    BY <1>1, <2>1, <2>2 DEF CallRow, Sums, IndexPcs
  <2>5. x.pc = "select" /\ x.gen = index.gen /\ x.sum = sum /\ x.new = call[c].new
    BY <2>2 DEF CallRow
  <2>6. call'[c] = x
    BY <2>3, <1>1 DEF VecShape
  <2> HIDE DEF x
  <2>7. /\ UNCHANGED <<rows, chunks, index, disk, unseen>> /\ loading' = loading
    BY <1>5 DEF LoadSamples
  <2>8. CallHolds(c)'
    <3>1. x.new \subseteq 1..chunks'
      BY <1>1, <2>5, <2>7 DEF CallHolds
    <3>2. ~index'.ready /\ x.gen <= index'.gen /\ loading' = c
      BY <1>1, <1>3, <2>5, <2>7
    <3>3. x.sum \in Nat \X Nat /\ x.sum[2] <= chunks'
      BY <2>1, <2>5, <2>7
    <3> QED BY <1>2, <2>5, <2>6, <3>1, <3>2, <3>3 DEF CallHolds, Within
  <2>9. AnnouncedBy(c) = {}
    BY <1>2, AnnouncesNothing
  <2> QED BY <1>1, <2>3, <2>4, <2>7, <2>8, <2>9, Unmoved DEF VecShape
<1> QED BY <1>4, <1>5

LEMMA SelectsKeepsVectors ==
    ASSUME VecInv, NEW c \in IndexCalls, LoadSelects(c)
    PROVE  VecInv'
<1>1. VecShape /\ chunks \in Nat /\ rows \subseteq 1..chunks /\ CallHolds(c) /\ index.gen \in Nat
  BY DEF VecInv, VecShape, IndexRow
<1>2. call[c].pc = "select" /\ c \notin Rebuilders
  BY <1>1 DEF LoadSelects, At, CallHolds
<1>3. loading = c /\ ~index.ready /\ call[c].gen <= index.gen
  BY <1>1, <1>2 DEF CallHolds, Loading, Building
<1>4. CASE rows = {}
  BY <1>3, <1>4, EndsCold DEF LoadSelects
<1>5. CASE rows # {}
  <2> DEFINE got == Selected(rows)
             x == [call[c] EXCEPT !.pc = "verify", !.got = got]
  <2>1. got \in Seq(Nat) /\ ToSet(got) = rows
    <3>1. rows \in SUBSET (0..chunks)
      BY <1>1
    <3> QED BY <1>1, <3>1, SelectedIs
  <2>2. call[c] \in CallRow
    BY <1>1 DEF VecShape
  <2>3. call' = [call EXCEPT ![c] = x]
    BY <1>5 DEF LoadSelects
  <2> HIDE DEF got
  <2>4. x \in CallRow
    BY <2>1, <2>2 DEF CallRow, IndexPcs
  <2>5. /\ x.pc = "verify" /\ x.gen = call[c].gen /\ x.sum = call[c].sum /\ x.new = call[c].new
        /\ x.got = got
    BY <2>2 DEF CallRow
  <2>6. call'[c] = x
    BY <2>3, <1>1 DEF VecShape
  <2> HIDE DEF x
  <2>7. /\ UNCHANGED <<rows, chunks, index, disk, unseen>> /\ loading' = loading
    BY <1>5 DEF LoadSelects
  <2>8. CallHolds(c)'
    <3>1. x.new \subseteq 1..chunks'
      BY <1>1, <2>5, <2>7 DEF CallHolds
    <3>2. ~index'.ready /\ x.gen <= index'.gen /\ loading' = c
      BY <1>1, <1>3, <2>5, <2>7
    <3>3. x.sum \in Nat \X Nat /\ x.sum[2] <= chunks'
      BY <1>1, <1>2, <2>5, <2>7 DEF CallHolds
    <3>4. rows' \subseteq ToSet(x.got)
      BY <2>1, <2>5, <2>7
    <3> QED BY <1>2, <2>5, <2>6, <3>1, <3>2, <3>3, <3>4 DEF CallHolds, Within
  <2>9. AnnouncedBy(c) = {}
    BY <1>2, AnnouncesNothing
  <2> QED BY <1>1, <2>3, <2>4, <2>7, <2>8, <2>9, Unmoved DEF VecShape
<1> QED BY <1>4, <1>5

LEMMA VerifiesKeepsVectors ==
    ASSUME VecInv, NEW c \in IndexCalls, LoadVerifies(c)
    PROVE  VecInv'
<1>1. VecShape /\ chunks \in Nat /\ rows \subseteq 1..chunks /\ CallHolds(c)
  BY DEF VecInv, VecShape
<1>2. call[c].pc = "verify" /\ c \notin Rebuilders
  BY <1>1 DEF LoadVerifies, At, CallHolds
<1>3. loading = c /\ ~index.ready /\ call[c].gen <= index.gen
  BY <1>1, <1>2 DEF CallHolds, Loading, Building
<1>4. UNCHANGED <<rows, chunks, index, disk, loading, unseen>>
  BY DEF LoadVerifies
<1>5. CASE Checksum(rows) # call[c].sum
  <2>1. Goto(c, "sample")
    BY <1>5 DEF LoadVerifies
  <2> QED BY <1>2, <1>4, <2>1, BackToSample DEF Building
<1>6. CASE Checksum(rows) = call[c].sum
  <2>1. Goto(c, "publish") /\ "publish" \in IndexPcs
    BY <1>6 DEF LoadVerifies, IndexPcs
  <2>2. PICK x \in CallRow :
           /\ call' = [call EXCEPT ![c] = x] /\ call'[c] = x /\ x.pc = "publish"
           /\ x.new = call[c].new /\ x.gen = call[c].gen /\ x.sum = call[c].sum
           /\ x.got = call[c].got
    BY <1>1, <2>1, GotoRow
  <2>3. AnnouncedBy(c) = {}
    BY <1>2, AnnouncesNothing
  <2>4. Announced \subseteq Announced'
    BY <1>1, <1>4, <2>2, <2>3, SilentCovers
  <2>5. CallHolds(c)'
    <3>1. x.new \subseteq 1..chunks' /\ x.sum \in Nat \X Nat
      BY <1>1, <1>2, <1>4, <2>2 DEF CallHolds
    <3>2. ~index'.ready /\ x.gen <= index'.gen /\ loading' = c
      BY <1>3, <1>4, <2>2
    <3>3. x.gen = index'.gen => rows' \subseteq ToSet(x.got) \cup Announced' \cup unseen'
      <4>1. x.gen = index'.gen => rows \subseteq ToSet(x.got) \cup Announced \cup unseen
        BY <1>1, <1>2, <1>4, <2>2 DEF CallHolds
      <4> QED BY <1>4, <2>4, <4>1
    <3>4. Within(x.sum, x.got)
      BY <1>1, <1>2, <2>2 DEF CallHolds
    <3>5. x.sum[2] <= chunks' /\ \A r \in rows' : r <= x.sum[2] => r \in ToSet(x.got)
      BY <1>4, <3>4 DEF Within
    <3> QED BY <1>2, <2>2, <3>1, <3>2, <3>3, <3>5 DEF CallHolds, Within
  <2> QED BY <1>1, <1>4, <2>2, <2>3, <2>5, Unmoved DEF VecShape
<1> QED BY <1>5, <1>6

LEMMA PublishesKeepsVectors ==
    ASSUME VecInv, NEW c \in IndexCalls, LoadPublishes(c)
    PROVE  VecInv'
<1>1. VecShape /\ chunks \in Nat /\ rows \subseteq 1..chunks /\ CallHolds(c)
  BY DEF VecInv, VecShape
<1>2. call[c].pc = "publish" /\ c \notin Rebuilders
  BY <1>1 DEF LoadPublishes, At, CallHolds
<1>3. loading = c /\ ~index.ready
  BY <1>1, <1>2 DEF CallHolds, Loading, Building
<1>4. UNCHANGED <<rows, chunks, disk, loading>>
  BY DEF LoadPublishes
<1>5. CASE index.gen # call[c].gen
  <2>1. Goto(c, "sample") /\ UNCHANGED <<index, unseen>>
    BY <1>5 DEF LoadPublishes
  <2> QED BY <1>2, <1>4, <2>1, BackToSample DEF Building
<1>6. CASE index.gen = call[c].gen
  <2>1. PICK got \in Seq(Nat) : got = call[c].got
    BY <1>1 DEF VecShape, CallRow
  <2>2. PICK sound \in BOOLEAN : sound = TRUE
    OBVIOUS
  <2>3. index' = Built(got, got, sound) /\ unseen' = unseen \ ToSet(got)
    BY <1>6, <2>1, <2>2 DEF LoadPublishes
  <2>4. Goto(c, "save") /\ "save" \in IndexPcs
    BY <1>6 DEF LoadPublishes, IndexPcs
  <2>5. PICK x \in CallRow :
           /\ call' = [call EXCEPT ![c] = x] /\ call'[c] = x /\ x.pc = "save"
           /\ x.new = call[c].new /\ x.sum = call[c].sum
    BY <1>1, <2>4, GotoRow
  <2>6. AnnouncedBy(c) = {}
    BY <1>2, AnnouncesNothing
  <2>7. Announced \subseteq Announced'
    BY <1>1, <2>5, <2>6, AnnouncedStep
  <2>8. rows \subseteq ToSet(got) \cup Announced' \cup unseen'
    <3>1. rows \subseteq ToSet(got) \cup Announced \cup unseen
      BY <1>1, <1>2, <1>6, <2>1 DEF CallHolds
    <3> QED BY <2>3, <2>7, <3>1
  <2>9. CallHolds(c)'
    <3>1. x.new \subseteq 1..chunks' /\ x.sum \in Nat \X Nat /\ loading' = c
      BY <1>1, <1>2, <1>3, <1>4, <2>5 DEF CallHolds
    <3>2. Within(x.sum, got)
      BY <1>1, <1>2, <2>1, <2>5 DEF CallHolds
    <3>3. index'.ids = got
      BY <2>3 DEF Built
    <3>4. x.sum[2] <= chunks' /\ \A r \in rows' : r <= x.sum[2] => r \in ToSet(index'.ids)
      BY <1>4, <3>2, <3>3 DEF Within
    <3> QED BY <1>2, <2>5, <3>1, <3>4 DEF CallHolds, Within, Building
  <2> QED BY <1>3, <1>4, <2>3, <2>5, <2>8, <2>9, PublishStep
<1> QED BY <1>5, <1>6

\* A step of a call that announces nothing, which writes a file of the disk.
LEMMA DiskStep ==
    ASSUME VecInv, NEW c \in IndexCalls, NEW x \in CallRow, call' = [call EXCEPT ![c] = x],
           UNCHANGED <<rows, chunks, index, unseen>>, AnnouncedBy(c) = {},
           disk' \in [file : Seq(Nat), manifest : ManifestRow],
           disk'.manifest = disk.manifest \/ DiskIsOfRows',
           loading' = loading \/ loading \in {c, NoCall}, loading' \in IndexCalls \cup {NoCall},
           CallHolds(c)'
    PROVE  VecInv'
<1>1. VecShape /\ chunks \in Nat /\ rows \subseteq 1..chunks
  BY DEF VecInv, VecShape
<1>2. Covered
  BY <1>1, SilentCovers
<1>3. chunks' \in Nat /\ chunks <= chunks' /\ chunks' <= chunks + 1 /\ rows' \subseteq 1..chunks'
  BY <1>1
<1>4. index' = index /\ \A r \in rows' : r \in rows \/ r = chunks + 1
  BY <1>1
<1> QED BY <1>2, <1>3, <1>4, IndexKept

LEMMA SaveFileKeepsVectors ==
    ASSUME VecInv, NEW c \in IndexCalls, SaveFile(c)
    PROVE  VecInv'
<1>1. VecShape /\ chunks \in Nat /\ CallHolds(c)
  BY DEF VecInv, VecShape
<1>2. call[c].pc = "save" /\ c \notin Rebuilders
  BY DEF SaveFile, At
<1>3. loading = c
  BY <1>1, <1>2 DEF CallHolds, Loading
<1>4. CASE ~index.ready
  BY <1>2, <1>3, <1>4, GivingUpKeepsVectors DEF SaveFile, Loaded
<1>5. CASE index.ready
  <2> DEFINE x == [call[c] EXCEPT !.pc = "manifest", !.got = index.ids]
  <2>1. /\ call[c] \in CallRow /\ index.ids \in Seq(Nat) /\ index.vecs \in Seq(Nat)
        /\ disk \in [file : Seq(Nat), manifest : ManifestRow]
    BY <1>1 DEF VecShape, IndexRow
  <2>2. call' = [call EXCEPT ![c] = x]
    BY <1>5 DEF SaveFile
  <2>3. x \in CallRow
    BY <2>1 DEF CallRow, IndexPcs
  <2>4. x.pc = "manifest" /\ x.got = index.ids /\ x.sum = call[c].sum /\ x.new = call[c].new
    BY <2>1 DEF CallRow
  <2>5. call'[c] = x
    BY <2>2, <1>1 DEF VecShape
  <2> HIDE DEF x
  <2>6. UNCHANGED <<rows, chunks, index, unseen>> /\ loading' = loading
    BY <1>5 DEF SaveFile
  <2>7. disk' \in [file : Seq(Nat), manifest : ManifestRow] /\ disk'.manifest = disk.manifest
    BY <1>5, <2>1 DEF SaveFile
  <2>8. AnnouncedBy(c) = {}
    BY <1>2, AnnouncesNothing
  <2>9. CallHolds(c)'
    <3>1. x.new \subseteq 1..chunks' /\ x.sum \in Nat \X Nat /\ loading' = c
      BY <1>1, <1>2, <1>3, <2>4, <2>6 DEF CallHolds
    <3>2. Within(x.sum, index.ids)
      BY <1>1, <1>2, <1>5, <2>4 DEF CallHolds
    <3>3. x.sum[2] <= chunks' /\ \A r \in rows' : r <= x.sum[2] => r \in ToSet(x.got)
      BY <2>4, <2>6, <3>2 DEF Within
    <3> QED BY <1>2, <2>4, <2>5, <3>1, <3>3 DEF CallHolds, Within, Building
  <2> QED BY <1>1, <2>2, <2>3, <2>6, <2>7, <2>8, <2>9, DiskStep DEF VecShape
<1> QED BY <1>4, <1>5

LEMMA SaveManifestKeepsVectors ==
    ASSUME VecInv, NEW c \in IndexCalls, SaveManifest(c)
    PROVE  VecInv'
<1>1. VecShape /\ chunks \in Nat /\ CallHolds(c)
  BY DEF VecInv, VecShape
<1>2. call[c].pc = "manifest" /\ c \notin Rebuilders
  BY DEF SaveManifest, At
<1>3. loading = c /\ loading' = NoCall /\ UNCHANGED <<rows, chunks, index, unseen>>
  BY <1>1, <1>2 DEF CallHolds, Loading, SaveManifest, Loaded
<1>4. PICK x \in CallRow : /\ call' = [call EXCEPT ![c] = x] /\ call'[c] = x
                           /\ x.pc = "done" /\ x.new = {}
  BY <1>1, EndsRow DEF SaveManifest, Loaded
<1>5. CallHolds(c)'
  BY <1>4, OverHolds
<1>6. PICK m \in ManifestRow : m = Manifest(c, TRUE) /\ m.sum = call[c].sum /\ m.ids = call[c].got
  <2> DEFINE m == Manifest(c, TRUE)
  <2>1. m \in ManifestRow /\ m.sum = call[c].sum /\ m.ids = call[c].got
    BY <1>1 DEF VecShape, CallRow, ManifestRow, Manifest
  <2> QED BY <2>1
<1>7. disk' \in [file : Seq(Nat), manifest : ManifestRow] /\ disk'.manifest = m
  BY <1>1, <1>6 DEF SaveManifest, VecShape
<1>8. DiskIsOfRows'
  <2>1. Within(m.sum, m.ids)
    BY <1>1, <1>2, <1>6 DEF CallHolds
  <2>2. m.sum[2] <= chunks' /\ \A r \in rows' : r <= m.sum[2] => r \in ToSet(m.ids)
    BY <1>3, <2>1 DEF Within
  <2> QED BY <1>7, <2>2 DEF DiskIsOfRows, Within
<1>9. AnnouncedBy(c) = {}
  BY <1>2, AnnouncesNothing
<1> QED BY <1>1, <1>3, <1>4, <1>5, <1>7, <1>8, <1>9, DiskStep

LEMMA RebuilderKeepsVectors ==
    ASSUME VecInv, NEW b \in Rebuilders,
           RebuilderReads(b) \/ RebuilderSavesFile(b) \/ RebuilderSavesManifest(b)
    PROVE  VecInv'
<1>1. b \in IndexCalls /\ b \notin Stores \cup Purges \cup Sweeps
  BY IndexConstants DEF IndexCalls
<1>2. /\ VecShape /\ chunks \in Nat /\ rows \subseteq 1..chunks /\ CallHolds(b) /\ call[b] \in CallRow
      /\ disk \in [file : Seq(Nat), manifest : ManifestRow]
      /\ loading \in IndexCalls \cup {NoCall}
  BY <1>1 DEF VecInv, VecShape
<1>3. AnnouncedBy(b) = {}
  BY <1>1, AnnouncesNothing
<1>4. UNCHANGED <<rows, chunks, index, unseen, loading>>
  BY DEF RebuilderReads, RebuilderSavesFile, RebuilderSavesManifest
<1>5. CASE RebuilderReads(b)
  <2> DEFINE got == Selected(rows)
             x == [call[b] EXCEPT !.pc = "save", !.got = got]
  <2>1. got \in Seq(Nat) /\ ToSet(got) = rows
    <3>1. rows \in SUBSET (0..chunks)
      BY <1>2
    <3> QED BY <1>2, <3>1, SelectedIs
  <2>2. call' = [call EXCEPT ![b] = x]
    BY <1>5 DEF RebuilderReads
  <2> HIDE DEF got
  <2>3. x \in CallRow
    BY <1>2, <2>1 DEF CallRow, IndexPcs
  <2>4. x.pc = "save" /\ x.got = got /\ x.new = call[b].new
    BY <1>2 DEF CallRow
  <2>5. call'[b] = x
    BY <2>2, <1>1, <1>2 DEF VecShape
  <2> HIDE DEF x
  <2>6. CallHolds(b)'
    <3>1. x.new \subseteq 1..chunks' /\ ToSet(x.got) = rows /\ ToSet(x.got) \subseteq 1..chunks'
      BY <1>2, <1>4, <2>1, <2>4 DEF CallHolds
    <3>2. Checksum(ToSet(x.got))[2] <= chunks' /\ rows' = rows
      BY <1>2, <1>4, <3>1, ChecksumIs
    <3> HIDE DEF Checksum
    <3> QED BY <1>1, <2>4, <2>5, <3>1, <3>2 DEF CallHolds, Within
  <2>7. disk' = disk
    BY <1>5 DEF RebuilderReads
  <2> QED BY <1>1, <1>2, <1>3, <1>4, <2>2, <2>3, <2>6, <2>7, DiskStep
<1>6. CASE RebuilderSavesFile(b)
  <2> DEFINE sum == Checksum(rows)
             x == [call[b] EXCEPT !.pc = "manifest", !.sum = sum]
  <2>1. sum \in Sums
    <3>1. sum \in Nat \X Nat
      BY <1>2, ChecksumIs
    <3> QED BY <3>1 DEF Sums
  <2>2. call' = [call EXCEPT ![b] = x] /\ call[b].pc = "save"
    BY <1>6 DEF RebuilderSavesFile, At
  <2> HIDE DEF sum
  <2>3. x \in CallRow
    BY <1>2, <2>1 DEF CallRow, IndexPcs
  <2>4. x.pc = "manifest" /\ x.got = call[b].got /\ x.new = call[b].new
    BY <1>2 DEF CallRow
  <2>5. call'[b] = x
    BY <2>2, <1>1, <1>2 DEF VecShape
  <2> HIDE DEF x
  <2>6. CallHolds(b)'
    <3>1. x.new \subseteq 1..chunks' /\ ToSet(x.got) \subseteq 1..chunks'
      BY <1>2, <1>4, <2>2, <2>4 DEF CallHolds
    <3>2. Within(Checksum(ToSet(x.got)), x.got)
      BY <1>2, <2>2, <2>4 DEF CallHolds
    <3> HIDE DEF Checksum
    <3>3. /\ Checksum(ToSet(x.got))[2] <= chunks'
          /\ \A r \in rows' : r <= Checksum(ToSet(x.got))[2] => r \in ToSet(x.got)
      BY <1>4, <3>2 DEF Within
    <3> QED BY <1>1, <2>4, <2>5, <3>1, <3>3 DEF CallHolds, Within
  <2>7. call[b].got \in Seq(Nat)
    BY <1>2 DEF CallRow
  <2>8. disk' \in [file : Seq(Nat), manifest : ManifestRow] /\ disk'.manifest = disk.manifest
    BY <1>2, <1>6, <2>7 DEF RebuilderSavesFile
  <2> QED BY <1>1, <1>2, <1>3, <1>4, <2>2, <2>3, <2>6, <2>8, DiskStep
<1>7. CASE RebuilderSavesManifest(b)
  <2>1. PICK x \in CallRow : /\ call' = [call EXCEPT ![b] = x] /\ call'[b] = x
                             /\ x.pc = "done" /\ x.new = {}
    BY <1>1, <1>2, <1>7, EndsRow DEF RebuilderSavesManifest
  <2>2. CallHolds(b)'
    BY <1>1, <2>1, OverHolds
  <2>3. PICK honest \in BOOLEAN : honest = (call[b].sum = Checksum(ToSet(call[b].got)))
    OBVIOUS
  <2>4. PICK m \in ManifestRow : /\ m = Manifest(b, honest) /\ m.honest = honest
                                 /\ m.sum = call[b].sum /\ m.ids = call[b].got
    <3> DEFINE m == Manifest(b, honest)
    <3>1. m \in ManifestRow /\ m.sum = call[b].sum /\ m.ids = call[b].got /\ m.honest = honest
      BY <1>2 DEF CallRow, ManifestRow, Manifest
    <3> QED BY <3>1
  <2>5. disk' \in [file : Seq(Nat), manifest : ManifestRow] /\ disk'.manifest = m
    BY <1>2, <1>7, <2>3, <2>4 DEF RebuilderSavesManifest
  <2>6. DiskIsOfRows'
    <3> SUFFICES ASSUME honest
                 PROVE  m.sum[2] <= chunks' /\ \A r \in rows' : r <= m.sum[2] => r \in ToSet(m.ids)
      BY <2>4, <2>5 DEF DiskIsOfRows, Within
    <3>1. call[b].pc = "manifest"
      BY <1>7 DEF RebuilderSavesManifest, At
    <3>2. Within(Checksum(ToSet(call[b].got)), call[b].got)
      BY <1>2, <3>1 DEF CallHolds
    <3>3. Within(m.sum, m.ids)
      BY <2>3, <2>4, <3>2
    <3> QED BY <1>4, <3>3 DEF Within
  <2> QED BY <1>1, <1>2, <1>3, <1>4, <2>1, <2>2, <2>5, <2>6, DiskStep
<1> QED BY <1>5, <1>6, <1>7

LEMMA ConcatValues ==
    ASSUME NEW s \in Seq(Nat), NEW t \in Seq(Nat)
    PROVE  s \o t \in Seq(Nat) /\ ToSet(s \o t) = ToSet(s) \cup ToSet(t)
<1>1. /\ s \o t \in Seq(Nat) /\ Len(s \o t) = Len(s) + Len(t)
      /\ \A i \in 1..(Len(s) + Len(t)) :
            (s \o t)[i] = IF i <= Len(s) THEN s[i] ELSE t[i - Len(s)]
  OBVIOUS
<1>2. ASSUME NEW v \in ToSet(s \o t) PROVE v \in ToSet(s) \cup ToSet(t)
  <2>1. PICK i \in 1..(Len(s) + Len(t)) : v = (s \o t)[i]
    BY <1>1 DEF ToSet
  <2>2. CASE i <= Len(s)
    <3>1. i \in 1..Len(s) /\ v = s[i]
      BY <1>1, <2>1, <2>2
    <3> QED BY <3>1 DEF ToSet
  <2>3. CASE ~(i <= Len(s))
    <3>1. i - Len(s) \in 1..Len(t) /\ v = t[i - Len(s)]
      BY <1>1, <2>1, <2>3
    <3> QED BY <3>1 DEF ToSet
  <2> QED BY <2>2, <2>3
<1>3. ASSUME NEW v \in ToSet(s) PROVE v \in ToSet(s \o t)
  <2>1. PICK i \in 1..Len(s) : v = s[i]
    BY <1>3 DEF ToSet
  <2>2. i \in 1..(Len(s) + Len(t)) /\ v = (s \o t)[i]
    BY <1>1, <2>1
  <2>3. DOMAIN (s \o t) = 1..(Len(s) + Len(t))
    BY <1>1
  <2> QED BY <2>2, <2>3 DEF ToSet
<1>4. ASSUME NEW v \in ToSet(t) PROVE v \in ToSet(s \o t)
  <2>1. PICK i \in 1..Len(t) : v = t[i]
    BY <1>4 DEF ToSet
  <2>2. i + Len(s) \in 1..(Len(s) + Len(t)) /\ v = (s \o t)[i + Len(s)]
    BY <1>1, <2>1
  <2>3. DOMAIN (s \o t) = 1..(Len(s) + Len(t))
    BY <1>1
  <2> QED BY <2>2, <2>3 DEF ToSet
<1> QED BY <1>1, <1>2, <1>3, <1>4

\* What a warm index is after an add.
LEMMA AddedIs ==
    ASSUME VecShape, IdsStand, index.ready, NEW ids \in SUBSET (1..chunks)
    PROVE  \E ix \in IndexRow :
              /\ ix = Added(ids) /\ ix.ready /\ ix.gen = index.gen /\ ix.sound = index.sound
              /\ ix.live = index.live \cup ids /\ ix.live \subseteq ToSet(ix.ids)
              /\ ToSet(index.ids) \subseteq ToSet(ix.ids)
              /\ index.ids = index.vecs => ix.ids = ix.vecs
<1>1. index \in IndexRow /\ chunks \in Nat
  BY DEF VecShape
<1>2. index.ids \in Seq(Nat) /\ index.vecs \in Seq(Nat) /\ index.live \in SUBSET Nat
  BY <1>1 DEF IndexRow
<1>3. PICK fresh : fresh = Selected(ids \ index.live)
  OBVIOUS
<1>4. fresh \in Seq(Nat) /\ ToSet(fresh) = ids \ index.live
  <2>1. ids \ index.live \in SUBSET (0..chunks)
    <3>1. \A i \in 1..chunks : i \in 0..chunks
      BY <1>1
    <3> QED BY <3>1
  <2> QED BY <1>1, <1>3, <2>1, SelectedIs
<1>5. /\ index.ids \o fresh \in Seq(Nat) /\ index.vecs \o fresh \in Seq(Nat)
      /\ ToSet(index.ids \o fresh) = ToSet(index.ids) \cup ToSet(fresh)
  BY <1>2, <1>4, ConcatValues
<1> DEFINE ix == [index EXCEPT !.ids = index.ids \o fresh, !.vecs = index.vecs \o fresh,
                               !.live = index.live \cup ids]
<1>6. ix = Added(ids)
  BY <1>3 DEF Added
<1>7. index.live \cup ids \in SUBSET Nat
  <2>1. \A i \in 1..chunks : i \in Nat
    BY <1>1
  <2> QED BY <1>2, <2>1
<1>8. ix \in IndexRow
  BY <1>1, <1>5, <1>7 DEF IndexRow
<1>9. /\ ix.ready /\ ix.gen = index.gen /\ ix.sound = index.sound
      /\ ix.live = index.live \cup ids /\ ix.ids = index.ids \o fresh
      /\ ix.vecs = index.vecs \o fresh
  BY <1>1 DEF IndexRow
<1>10. index.live \cup ids \subseteq ToSet(index.ids) \cup ToSet(fresh)
  BY <1>4 DEF IdsStand
<1> HIDE DEF ix
<1> QED BY <1>5, <1>6, <1>8, <1>9, <1>10

\* A refresh: the call stops announcing rows which it adds.
LEMMA AddStep ==
    ASSUME VecInv, NEW c \in IndexCalls, NEW x \in CallRow, call' = [call EXCEPT ![c] = x],
           UNCHANGED <<rows, chunks, disk, loading, unseen>>,
           NEW ids \in SUBSET (1..chunks), index' = Added(ids),
           AnnouncedBy(c) \subseteq ids,
           ~index.ready => AnnouncedBy(c) \subseteq Announced' \/ loading = NoCall,
           CallHolds(c)'
    PROVE  VecInv'
<1>1. /\ VecShape /\ IdsStand /\ chunks \in Nat /\ rows \subseteq 1..chunks
      /\ index \in IndexRow /\ loading \in IndexCalls \cup {NoCall}
      /\ disk \in [file : Seq(Nat), manifest : ManifestRow]
  BY DEF VecInv, VecShape
<1>2. \A r \in Announced : r \in AnnouncedBy(c) \/ r \in Announced'
  BY <1>1, AnnouncedStep
<1>3. chunks' \in Nat /\ chunks <= chunks' /\ chunks' <= chunks + 1 /\ rows' \subseteq 1..chunks'
  BY <1>1
<1>4. CASE ~index.ready
  <2>1. index' = index
    BY <1>4 DEF Added
  <2>2. index.gen \in Nat
    BY <1>1 DEF IndexRow
  <2>3. Gentle(c)
    BY <1>1, <1>2, <1>3, <1>4, <2>1, <2>2 DEF Gentle
  <2>4. ColdIsEmpty' /\ IdsStand' /\ WarmIsWhole'
    <3>1. ColdIsEmpty /\ IdsStand
      BY DEF VecInv
    <3> QED BY <1>4, <2>1, <3>1 DEF ColdIsEmpty, IdsStand, WarmIsWhole
  <2>5. DiskIsOfRows'
    BY <2>3, DiskStays
  <2> QED BY <1>1, <2>1, <2>3, <2>4, <2>5, StepHolds
<1>5. CASE index.ready
  <2>1. PICK ix \in IndexRow :
           /\ ix = index' /\ ix.ready /\ ix.gen = index.gen /\ ix.sound = index.sound
           /\ ix.live = index.live \cup ids /\ ix.live \subseteq ToSet(ix.ids)
           /\ ToSet(index.ids) \subseteq ToSet(ix.ids)
           /\ index.ids = index.vecs => ix.ids = ix.vecs
    BY <1>1, <1>5, AddedIs
  <2>2. index.gen \in Nat
    BY <1>1 DEF IndexRow
  <2>3. Gentle(c)
    BY <1>1, <1>3, <1>5, <2>1, <2>2 DEF Gentle
  <2>4. ColdIsEmpty' /\ IdsStand'
    BY <1>1, <1>5, <2>1 DEF ColdIsEmpty, IdsStand
  <2>5. WarmIsWhole'
    <3> SUFFICES ASSUME index'.sound, NEW r \in rows'
                 PROVE  r \in index'.live \cup Announced' \cup unseen'
      BY DEF WarmIsWhole
    <3>1. r \in index.live \cup Announced \cup unseen
      BY <1>5, <2>1 DEF VecInv, WarmIsWhole
    <3> QED BY <1>2, <2>1, <3>1
  <2>6. DiskIsOfRows'
    BY <2>3, DiskStays
  <2> QED BY <1>1, <2>1, <2>3, <2>4, <2>5, <2>6, StepHolds
<1> QED BY <1>4, <1>5

\* Ids leave the live set of a warm index; the rows among them are announced.
LEMMA TombStep ==
    ASSUME VecInv, NEW c \in IndexCalls, NEW x \in CallRow, call' = [call EXCEPT ![c] = x],
           UNCHANGED <<rows, chunks, disk, loading, unseen>>,
           NEW old, index' = Tombstoned(old), old \cap rows \subseteq Announced',
           AnnouncedBy(c) = {}, CallHolds(c)'
    PROVE  VecInv'
<1>1. /\ VecShape /\ IdsStand /\ ColdIsEmpty /\ chunks \in Nat /\ rows \subseteq 1..chunks
      /\ index \in IndexRow /\ loading \in IndexCalls \cup {NoCall}
      /\ disk \in [file : Seq(Nat), manifest : ManifestRow]
  BY DEF VecInv, VecShape
<1>2. Announced \subseteq Announced'
  BY <1>1, AnnouncedStep
<1>3. PICK ix \in IndexRow :
         /\ ix = index' /\ ix.ready = index.ready /\ ix.gen = index.gen /\ ix.sound = index.sound
         /\ ix.ids = index.ids /\ ix.vecs = index.vecs
         /\ ix.live \subseteq index.live /\ \A r \in index.live : r \in ix.live \/ r \in old
         /\ ~index.ready => ix = index
  <2> DEFINE ix == Tombstoned(old)
  <2>1. index.live \in SUBSET Nat
    BY <1>1 DEF IndexRow
  <2>2. ix \in IndexRow
    BY <1>1, <2>1 DEF IndexRow, Tombstoned
  <2>3. /\ ix.ready = index.ready /\ ix.gen = index.gen /\ ix.sound = index.sound
        /\ ix.ids = index.ids /\ ix.vecs = index.vecs /\ (~index.ready => ix = index)
    BY <1>1 DEF IndexRow, Tombstoned
  <2>4. ix.live \subseteq index.live /\ \A r \in index.live : r \in ix.live \/ r \in old
    BY <1>1 DEF IndexRow, Tombstoned
  <2> QED BY <2>2, <2>3, <2>4
<1>4. chunks' \in Nat /\ chunks <= chunks' /\ chunks' <= chunks + 1 /\ rows' \subseteq 1..chunks'
  BY <1>1
<1>5. index.gen \in Nat
  BY <1>1 DEF IndexRow
<1>6. Gentle(c)
  BY <1>1, <1>2, <1>3, <1>4, <1>5 DEF Gentle
<1>7. ColdIsEmpty' /\ IdsStand'
  BY <1>1, <1>3 DEF ColdIsEmpty, IdsStand
<1>8. WarmIsWhole'
  <2> SUFFICES ASSUME index'.ready, index'.sound, NEW r \in rows'
               PROVE  r \in index'.live \cup Announced' \cup unseen'
    BY DEF WarmIsWhole
  <2>1. r \in index.live \cup Announced \cup unseen
    BY <1>3 DEF VecInv, WarmIsWhole
  <2> QED BY <1>2, <1>3, <2>1
<1>9. DiskIsOfRows'
  BY <1>6, DiskStays
<1> QED BY <1>1, <1>3, <1>6, <1>7, <1>8, <1>9, StepHolds

LEMMA StoreKeepsVectors ==
    ASSUME VecInv, NEW s \in Stores,
           StoreRemoves(s) \/ StoreCommits(s) \/ StoreRollsBack(s)
    PROVE  VecInv'
<1>1. s \in IndexCalls /\ s \notin Rebuilders /\ s \notin Purges
  BY IndexConstants DEF IndexCalls
<1>2. /\ VecShape /\ chunks \in Nat /\ rows \subseteq 1..chunks /\ CallHolds(s) /\ call[s] \in CallRow
      /\ index \in IndexRow /\ disk \in [file : Seq(Nat), manifest : ManifestRow]
      /\ loading \in IndexCalls \cup {NoCall}
  BY <1>1 DEF VecInv, VecShape
<1>3. CASE StoreRemoves(s)
  <2>1. call[s].pc = "idle" /\ call[s].new = {}
    <3>1. call[s].pc = "idle" /\ call[s] = IdleCall
      BY <1>2, <1>3 DEF StoreRemoves, At, CallHolds
    <3> QED BY <3>1 DEF IdleCall
  <2>2. PICK old \in SUBSET rows : /\ index' = Tombstoned(old)
                                   /\ call' = [call EXCEPT ![s].pc = "write", ![s].old = old]
    BY <1>3 DEF StoreRemoves
  <2> DEFINE x == [call[s] EXCEPT !.pc = "write", !.old = old]
  <2>3. call' = [call EXCEPT ![s] = x]
    BY <2>2
  <2>4. x \in CallRow
    <3>1. old \in SUBSET Nat
      <4>1. \A i \in 1..chunks : i \in Nat
        BY <1>2
      <4> QED BY <1>2, <4>1
    <3> QED BY <1>2, <3>1 DEF CallRow, IndexPcs
  <2>5. x.pc = "write" /\ x.old = old /\ x.new = call[s].new
    BY <1>2 DEF CallRow
  <2>6. call'[s] = x
    BY <2>3, <1>1, <1>2 DEF VecShape
  <2> HIDE DEF x
  <2>7. UNCHANGED <<rows, chunks, disk, loading, unseen>>
    BY <1>3 DEF StoreRemoves
  <2>8. old \subseteq Announced'
    BY <1>1, <1>2, <2>3, <2>4, <2>5, AnnouncedStep
  <2>9. CallHolds(s)'
    BY <1>1, <2>1, <2>5, <2>6 DEF CallHolds, Loading, Building
  <2>10. AnnouncedBy(s) = {}
    BY <1>1, <2>1, AnnouncesNothing
  <2> QED BY <1>1, <2>2, <2>3, <2>4, <2>7, <2>8, <2>9, <2>10, TombStep
<1>4. CASE StoreCommits(s)
  <2>1. call[s].pc = "write" /\ call[s].new = {}
    BY <1>2, <1>4 DEF StoreCommits, At, CallHolds
  <2> DEFINE n == NewChunk
             x == [call[s] EXCEPT !.pc = "refresh", !.new = {n}]
  <2>2. n = chunks + 1 /\ n \in Nat
    BY <1>2 DEF NewChunk
  <2>3. call' = [call EXCEPT ![s] = x] /\ rows' = (rows \ call[s].old) \cup {n} /\ chunks' = n
    BY <1>4 DEF StoreCommits
  <2> HIDE DEF n
  <2>4. x \in CallRow
    BY <1>2, <2>2 DEF CallRow, IndexPcs
  <2>5. x.pc = "refresh" /\ x.new = {n}
    BY <1>2 DEF CallRow
  <2>6. call'[s] = x
    BY <2>3, <1>1, <1>2 DEF VecShape
  <2> HIDE DEF x
  <2>7. n \in Announced' /\ \A r \in Announced : r \in AnnouncedBy(s) \/ r \in Announced'
    BY <1>1, <1>2, <2>3, <2>4, <2>5, AnnouncedStep
  <2>8. AnnouncedBy(s) \subseteq call[s].old
    BY <2>1 DEF AnnouncedBy
  <2>9. unseen' = unseen /\ index' = index /\ disk' = disk /\ loading' = loading
    BY <1>4 DEF StoreCommits
  <2>10. Covered
    BY <2>3, <2>7, <2>8, <2>9 DEF Covered
  <2>11. CallHolds(s)'
    <3>1. x.new \subseteq 1..chunks'
      BY <2>2, <2>3, <2>5, <1>2
    <3> QED BY <1>1, <2>5, <2>6, <3>1 DEF CallHolds, Loading, Building
  <2>12. /\ chunks' \in Nat /\ chunks <= chunks' /\ chunks' <= chunks + 1
         /\ rows' \subseteq 1..chunks' /\ \A r \in rows' : r \in rows \/ r = chunks + 1
    <3>1. \A r \in rows' : r \in rows \/ r = chunks + 1
      BY <2>2, <2>3
    <3>2. chunks' = chunks + 1
      BY <2>2, <2>3
    <3>3. chunks' \in Nat /\ chunks <= chunks' /\ chunks' <= chunks + 1
      BY <1>2, <3>2
    <3>4. rows' \subseteq 1..chunks'
      <4> SUFFICES ASSUME NEW r \in rows' PROVE r \in 1..chunks'
        OBVIOUS
      <4>1. CASE r \in rows
        <5>1. r \in 1..chunks
          BY <1>2, <4>1
        <5> QED BY <1>2, <3>2, <5>1
      <4>2. CASE r = chunks + 1
        BY <1>2, <3>2, <4>2
      <4> QED BY <3>1, <4>1, <4>2
    <3> QED BY <3>1, <3>3, <3>4
  <2> QED BY <1>1, <1>2, <2>3, <2>4, <2>9, <2>10, <2>11, <2>12, IndexKept
<1>5. CASE StoreRollsBack(s)
  <2>1. call[s].pc = "write" /\ call[s].new = {}
    BY <1>2, <1>5 DEF StoreRollsBack, At, CallHolds
  <2>2. PICK x \in CallRow : /\ call' = [call EXCEPT ![s] = x] /\ call'[s] = x
                             /\ x.pc = "done" /\ x.new = {}
    BY <1>1, <1>2, <1>5, EndsRow DEF StoreRollsBack
  <2>3. CallHolds(s)'
    BY <1>1, <2>2, OverHolds
  <2>4. AnnouncedBy(s) \subseteq call[s].old
    BY <2>1 DEF AnnouncedBy
  <2>5. /\ unseen' = unseen \cup call[s].old /\ UNCHANGED <<rows, chunks, index, disk, loading>>
    BY <1>5 DEF StoreRollsBack
  <2>6. \A r \in Announced : r \in AnnouncedBy(s) \/ r \in Announced'
    BY <1>1, <1>2, <2>2, AnnouncedStep
  <2>7. Covered
    BY <2>4, <2>5, <2>6 DEF Covered
  <2>8. /\ chunks' \in Nat /\ chunks <= chunks' /\ chunks' <= chunks + 1
        /\ rows' \subseteq 1..chunks' /\ \A r \in rows' : r \in rows \/ r = chunks + 1
    BY <1>2, <2>5
  <2> QED BY <1>1, <1>2, <2>2, <2>3, <2>5, <2>7, <2>8, IndexKept
<1> QED BY <1>3, <1>4, <1>5

LEMMA RefreshKeepsVectors ==
    ASSUME VecInv, NEW s \in Stores,
           Refresh(s) \/ RefreshBehindLoad(s) \/ RefreshFails(s)
    PROVE  VecInv'
<1>1. s \in IndexCalls /\ s \notin Rebuilders /\ s \notin Purges
  BY IndexConstants DEF IndexCalls
<1>2. VecShape /\ chunks \in Nat /\ CallHolds(s) /\ loading \in IndexCalls \cup {NoCall}
  BY <1>1 DEF VecInv, VecShape
<1>3. PICK ids \in SUBSET (1..chunks) : ids = call[s].new
  BY <1>2 DEF CallHolds
<1>4. ASSUME call[s].pc \in {"refresh", "behind"} PROVE AnnouncedBy(s) \subseteq ids
  BY <1>3, <1>4 DEF AnnouncedBy
<1>5. CASE Refresh(s)
  <2>1. /\ call[s].pc = "refresh" /\ index' = Added(ids)
        /\ UNCHANGED <<rows, chunks, disk, loading, unseen>>
    BY <1>3, <1>5 DEF Refresh, At
  <2>2. CASE index.ready
    <3>1. PICK x \in CallRow : /\ call' = [call EXCEPT ![s] = x] /\ call'[s] = x
                               /\ x.pc = "done" /\ x.new = {}
      BY <1>1, <1>2, <1>5, <2>2, EndsRow DEF Refresh
    <3>2. CallHolds(s)'
      BY <1>1, <3>1, OverHolds
    <3> QED BY <1>1, <1>4, <2>1, <2>2, <3>1, <3>2, AddStep
  <2>3. CASE ~index.ready
    <3>1. Goto(s, "behind") /\ "behind" \in IndexPcs
      BY <1>5, <2>3 DEF Refresh, IndexPcs
    <3>2. PICK x \in CallRow : /\ call' = [call EXCEPT ![s] = x] /\ call'[s] = x
                               /\ x.pc = "behind" /\ x.new = ids
      BY <1>1, <1>2, <1>3, <3>1, GotoRow
    <3>3. CallHolds(s)'
      BY <1>1, <2>1, <3>2, WaitingHolds
    <3>4. ids \subseteq Announced'
      BY <1>1, <1>2, <3>2, AnnouncedStep
    <3> QED BY <1>1, <1>4, <2>1, <2>3, <3>2, <3>3, <3>4, AddStep
  <2> QED BY <2>2, <2>3
<1>6. CASE RefreshBehindLoad(s)
  <2>1. /\ call[s].pc = "behind" /\ index' = Added(ids) /\ loading = NoCall
        /\ UNCHANGED <<rows, chunks, disk, loading, unseen>>
    BY <1>3, <1>6 DEF RefreshBehindLoad, At
  <2>2. PICK x \in CallRow : /\ call' = [call EXCEPT ![s] = x] /\ call'[s] = x
                             /\ x.pc = "done" /\ x.new = {}
    BY <1>1, <1>2, <1>6, EndsRow DEF RefreshBehindLoad
  <2>3. CallHolds(s)'
    BY <1>1, <2>2, OverHolds
  <2> QED BY <1>1, <1>4, <2>1, <2>2, <2>3, AddStep
<1>7. CASE RefreshFails(s)
  <2>1. Goto(s, "load") /\ "load" \in IndexPcs
    BY <1>7 DEF RefreshFails, IndexPcs
  <2>2. PICK x \in CallRow : /\ call' = [call EXCEPT ![s] = x] /\ call'[s] = x
                             /\ x.pc = "load" /\ x.new = ids
    BY <1>1, <1>2, <1>3, <2>1, GotoRow
  <2>3. /\ index' = ColdIndex(index.gen + 1)
        /\ UNCHANGED <<rows, chunks, disk, loading>>
    BY <1>7 DEF RefreshFails
  <2>4. CallHolds(s)'
    BY <1>1, <2>2, <2>3, WaitingHolds
  <2> QED BY <1>1, <1>2, <2>2, <2>3, <2>4, ColdStep
<1> QED BY <1>5, <1>6, <1>7

LEMMA PurgeKeepsVectors ==
    ASSUME VecInv, NEW p \in Purges, PurgeCommits(p) \/ Tombstone(p)
    PROVE  VecInv'
<1>1. p \in IndexCalls /\ p \notin Rebuilders /\ p \notin Stores \cup Sweeps
  BY IndexConstants DEF IndexCalls
<1>2. /\ VecShape /\ chunks \in Nat /\ rows \subseteq 1..chunks /\ CallHolds(p) /\ call[p] \in CallRow
      /\ disk \in [file : Seq(Nat), manifest : ManifestRow]
      /\ loading \in IndexCalls \cup {NoCall}
  BY <1>1 DEF VecInv, VecShape
<1>3. AnnouncedBy(p) = {}
  BY <1>1, AnnouncesNothing
<1>4. CASE PurgeCommits(p)
  <2>1. PICK r \in rows : /\ rows' = rows \ {r}
                          /\ call' = [call EXCEPT ![p].pc = "tombstone", ![p].old = {r}]
    BY <1>4 DEF PurgeCommits
  <2> DEFINE x == [call[p] EXCEPT !.pc = "tombstone", !.old = {r}]
  <2>2. call' = [call EXCEPT ![p] = x]
    BY <2>1
  <2>3. r \in 1..chunks /\ r \in Nat
    BY <1>2
  <2>4. x \in CallRow
    BY <1>2, <2>3 DEF CallRow, IndexPcs
  <2>5. x.pc = "tombstone" /\ x.old = {r} /\ x.new = call[p].new
    BY <1>2 DEF CallRow
  <2>6. call'[p] = x
    BY <2>2, <1>1, <1>2 DEF VecShape
  <2> HIDE DEF x
  <2>7. UNCHANGED <<chunks, index, disk, loading, unseen>>
    BY <1>4 DEF PurgeCommits
  <2>8. Covered
    BY <1>1, <1>2, <1>3, <2>1, <2>2, <2>4, <2>7, SilentCovers
  <2>9. CallHolds(p)'
    <3>1. x.new \subseteq 1..chunks' /\ x.old \subseteq 1..chunks' /\ x.old \cap rows' = {}
      BY <1>2, <2>1, <2>3, <2>5, <2>7 DEF CallHolds
    <3> QED BY <1>1, <2>5, <2>6, <3>1 DEF CallHolds, Loading, Building
  <2>10. /\ chunks' \in Nat /\ chunks <= chunks' /\ chunks' <= chunks + 1
         /\ rows' \subseteq 1..chunks' /\ \A i \in rows' : i \in rows \/ i = chunks + 1
    BY <1>2, <2>1, <2>7
  <2> QED BY <1>1, <1>2, <2>2, <2>4, <2>7, <2>8, <2>9, <2>10, IndexKept
<1>5. CASE Tombstone(p)
  <2>1. PICK old : old = call[p].old
    OBVIOUS
  <2>2. /\ index' = Tombstoned(old) /\ UNCHANGED <<rows, chunks, disk, loading, unseen>>
    BY <1>5, <2>1 DEF Tombstone
  <2>3. PICK x \in CallRow : /\ call' = [call EXCEPT ![p] = x] /\ call'[p] = x
                             /\ x.pc = "done" /\ x.new = {}
    BY <1>1, <1>2, <1>5, EndsRow DEF Tombstone
  <2>4. CallHolds(p)'
    BY <1>1, <2>3, OverHolds
  <2>5. old \cap rows = {}
    BY <1>2, <1>5, <2>1 DEF Tombstone, At, CallHolds
  <2> QED BY <1>1, <1>3, <2>2, <2>3, <2>4, <2>5, TombStep
<1> QED BY <1>4, <1>5

LEMMA SweepKeepsVectors ==
    ASSUME VecInv, NEW w \in Sweeps,
           SweepWritesFile(w) \/ SweepFails(w) \/ SweepInvalidates(w)
    PROVE  VecInv'
<1>1. w \in IndexCalls /\ w \notin Rebuilders /\ w \notin Purges /\ w \notin Stores
  BY IndexConstants DEF IndexCalls
<1>2. /\ VecShape /\ chunks \in Nat /\ rows \subseteq 1..chunks /\ CallHolds(w) /\ call[w] \in CallRow
      /\ disk \in [file : Seq(Nat), manifest : ManifestRow]
      /\ loading \in IndexCalls \cup {NoCall}
  BY <1>1 DEF VecInv, VecShape
<1>3. AnnouncedBy(w) \subseteq call[w].new
  BY <1>1 DEF AnnouncedBy
<1>4. CASE SweepWritesFile(w)
  <2>1. PICK old \in SUBSET rows :
           \/ /\ rows' = (rows \ old) \cup {NewChunk} /\ chunks' = NewChunk
              /\ call' = [call EXCEPT ![w].pc = "write", ![w].new = call[w].new \cup {NewChunk}]
           \/ rows' = rows \ old /\ chunks' = chunks /\ Goto(w, "write")
    <3>1. call \in [IndexCalls -> CallRow]
      BY <1>2 DEF VecShape
    <3> QED BY <1>1, <1>4, <3>1 DEF SweepWritesFile
  <2>2. PICK n : n = NewChunk
    OBVIOUS
  <2>3. n = chunks + 1 /\ n \in Nat /\ n \in 1..n /\ chunks <= n
    BY <1>2, <2>2 DEF NewChunk
  <2>4. PICK more \in SUBSET {n} :
           /\ call' = [call EXCEPT ![w] = [call[w] EXCEPT !.pc = "write", !.new = call[w].new \cup more]]
           /\ rows' = (rows \ old) \cup more
           /\ chunks' = IF more = {} THEN chunks ELSE n
    <3>1. CASE rows' = rows \ old /\ chunks' = chunks /\ Goto(w, "write")
      <4>1. call[w].new \cup {} = call[w].new
        OBVIOUS
      <4>2. [call[w] EXCEPT !.pc = "write"] = [call[w] EXCEPT !.pc = "write", !.new = call[w].new]
        BY <1>2 DEF CallRow
      <4>3. call' = [call EXCEPT ![w] = [call[w] EXCEPT !.pc = "write"]]
        BY <1>1, <1>2, <3>1 DEF Goto, VecShape
      <4>4. call' = [call EXCEPT ![w] = [call[w] EXCEPT !.pc = "write", !.new = call[w].new \cup {}]]
        BY <4>1, <4>2, <4>3
      <4> QED BY <3>1, <4>4
    <3>2. CASE /\ rows' = (rows \ old) \cup {NewChunk} /\ chunks' = NewChunk
               /\ call' = [call EXCEPT ![w].pc = "write", ![w].new = call[w].new \cup {NewChunk}]
      <4>1. call' = [call EXCEPT ![w] = [call[w] EXCEPT !.pc = "write", !.new = call[w].new \cup {n}]]
        BY <2>2, <3>2
      <4> QED BY <2>2, <3>2, <4>1
    <3> QED BY <2>1, <3>1, <3>2
  <2> DEFINE x == [call[w] EXCEPT !.pc = "write", !.new = call[w].new \cup more]
  <2>5. x \in CallRow
    <3>1. call[w].new \cup more \in SUBSET Nat
      BY <1>2, <2>3 DEF CallRow
    <3> QED BY <1>2, <3>1 DEF CallRow, IndexPcs
  <2>6. x.pc = "write" /\ x.new = call[w].new \cup more /\ call' = [call EXCEPT ![w] = x]
    BY <1>2, <2>4 DEF CallRow
  <2>7. call'[w] = x
    BY <2>6, <1>1, <1>2 DEF VecShape
  <2> HIDE DEF x
  <2>8. UNCHANGED <<index, disk, loading, unseen>>
    BY <1>4 DEF SweepWritesFile
  <2>9. /\ call[w].new \cup more \subseteq Announced'
        /\ \A r \in Announced : r \in AnnouncedBy(w) \/ r \in Announced'
    BY <1>1, <1>2, <2>5, <2>6, AnnouncedStep
  <2>10. Covered
    BY <1>3, <2>4, <2>8, <2>9 DEF Covered
  <2>11. chunks' \in Nat /\ chunks <= chunks' /\ chunks' <= chunks + 1 /\ more \subseteq 1..chunks'
    BY <1>2, <2>3, <2>4
  <2>12. \A i \in 1..chunks : i \in 1..chunks'
    BY <1>2, <2>11
  <2>13. rows' \subseteq 1..chunks' /\ \A r \in rows' : r \in rows \/ r = chunks + 1
    BY <1>2, <2>3, <2>4, <2>11, <2>12
  <2>14. CallHolds(w)'
    <3>1. call[w].new \subseteq 1..chunks
      BY <1>2 DEF CallHolds
    <3>2. x.new \subseteq 1..chunks'
      BY <2>6, <2>11, <2>12, <3>1
    <3> QED BY <1>1, <2>6, <2>7, <3>2 DEF CallHolds, Loading, Building
  <2> QED BY <1>1, <1>2, <2>5, <2>6, <2>8, <2>10, <2>11, <2>13, <2>14, IndexKept
<1>5. CASE SweepFails(w)
  <2>1. PICK x \in CallRow : /\ call' = [call EXCEPT ![w] = x] /\ call'[w] = x
                             /\ x.pc = "done" /\ x.new = {}
    BY <1>1, <1>2, <1>5, EndsRow DEF SweepFails
  <2>2. CallHolds(w)'
    BY <1>1, <2>1, OverHolds
  <2>3. unseen' = unseen \cup call[w].new /\ UNCHANGED <<rows, chunks, index, disk, loading>>
    BY <1>5 DEF SweepFails
  <2>4. \A r \in Announced : r \in AnnouncedBy(w) \/ r \in Announced'
    BY <1>1, <1>2, <2>1, AnnouncedStep
  <2>5. Covered
    BY <1>3, <2>3, <2>4 DEF Covered
  <2>6. /\ chunks' \in Nat /\ chunks <= chunks' /\ chunks' <= chunks + 1
        /\ rows' \subseteq 1..chunks' /\ \A r \in rows' : r \in rows \/ r = chunks + 1
    BY <1>2, <2>3
  <2> QED BY <1>1, <1>2, <2>1, <2>2, <2>3, <2>5, <2>6, IndexKept
<1>6. CASE SweepInvalidates(w)
  <2>1. Goto(w, "load") /\ "load" \in IndexPcs
    BY <1>6 DEF SweepInvalidates, IndexPcs
  <2>2. PICK x \in CallRow : /\ call' = [call EXCEPT ![w] = x] /\ call'[w] = x
                             /\ x.pc = "load" /\ x.new = call[w].new
    BY <1>1, <1>2, <2>1, GotoRow
  <2>3. index' = ColdIndex(index.gen + 1) /\ UNCHANGED <<rows, chunks, disk, loading>>
    BY <1>6 DEF SweepInvalidates
  <2>4. CallHolds(w)'
    <3>1. x.new \subseteq 1..chunks'
      BY <1>2, <2>2, <2>3 DEF CallHolds
    <3> QED BY <1>1, <2>2, <3>1, WaitingHolds
  <2> QED BY <1>1, <1>2, <2>2, <2>3, <2>4, ColdStep
<1> QED BY <1>4, <1>5, <1>6

\* The daemon goes down and comes up with a cold index.
LEMMA RestartKeepsVectors ==
    ASSUME VecInv, DaemonRestarts
    PROVE  VecInv'
<1>1. /\ VecShape /\ chunks \in Nat /\ rows \subseteq 1..chunks /\ DiskIsOfRows
      /\ disk \in [file : Seq(Nat), manifest : ManifestRow]
  BY DEF VecInv, VecShape
<1>2. /\ UNCHANGED <<rows, chunks, disk, unseen>> /\ loading' = NoCall /\ index' = ColdIndex(0)
      /\ call' = [c \in IndexCalls |-> IF c \in Rebuilders \/ call[c].pc = "idle" THEN call[c] ELSE Over]
  BY DEF DaemonRestarts, At
<1>3. PICK ix \in IndexRow : ix = index' /\ ix = ColdIndex(0) /\ ~ix.ready /\ ix.gen = 0 /\ ix.live = {}
  <2> DEFINE ix == ColdIndex(0)
  <2>1. ix \in IndexRow /\ ~ix.ready /\ ix.gen = 0 /\ ix.live = {}
    <3>1. <<>> \in Seq(Nat)
      OBVIOUS
    <3> QED BY <3>1 DEF ColdIndex, IndexRow
  <2>2. ix = index' /\ ix = ColdIndex(0)
    BY <1>2
  <2> HIDE DEF ix
  <2> QED BY <2>1, <2>2
<1>4. PICK over \in CallRow : over = Over /\ over.pc = "done" /\ over.new = {}
  <2>1. Over.pc = "done" /\ Over.new = {}
    BY DEF Over, IdleCall
  <2>2. Over \in CallRow
    <3>1. <<>> \in Sums /\ <<>> \in Seq(Nat) /\ "done" \in IndexPcs
      BY DEF Sums, IndexPcs
    <3> QED BY <3>1 DEF Over, IdleCall, CallRow
  <2> QED BY <2>1, <2>2
<1>5. \A c \in IndexCalls : \/ call'[c] = call[c] /\ (c \in Rebuilders \/ call[c].pc = "idle")
                            \/ call'[c] = over
  BY <1>2, <1>4
<1>6. VecShape'
  <2>1. call' \in [IndexCalls -> CallRow]
    BY <1>1, <1>2, <1>4 DEF VecShape
  <2>2. index' \in IndexRow
    BY <1>3
  <2> QED BY <1>1, <1>2, <2>1, <2>2 DEF VecShape
<1>7. ASSUME NEW c \in IndexCalls PROVE CallHolds(c)'
  <2>1. CASE call'[c] = over
    BY <1>4, <2>1, OverHolds
  <2>2. CASE call'[c] = call[c] /\ call[c].pc = "idle"
    <3>1. call[c].new \subseteq 1..chunks' /\ (call[c].pc = "idle" => call[c] = IdleCall)
      BY <1>2 DEF VecInv, CallHolds
    <3> QED BY <2>2, <3>1 DEF CallHolds, Loading, Building
  <2>3. CASE call'[c] = call[c] /\ c \in Rebuilders
    <3>1. CallHolds(c) /\ c \notin Stores \cup Purges
      BY <2>3, IndexConstants DEF VecInv
    <3> HIDE DEF Checksum
    <3> QED BY <1>2, <2>3, <3>1 DEF CallHolds, Within
  <2> QED BY <1>5, <2>1, <2>2, <2>3
<1>8. ColdIsEmpty' /\ IdsStand' /\ WarmIsWhole'
  BY <1>3 DEF ColdIsEmpty, IdsStand, WarmIsWhole
<1>9. DiskIsOfRows'
  BY <1>1, <1>2 DEF DiskIsOfRows, Within
<1> QED BY <1>6, <1>7, <1>8, <1>9 DEF VecInv

LEMMA IndexInitInv == IndexInit => VecInv
<1> SUFFICES ASSUME IndexInit PROVE VecInv
  OBVIOUS
<1>1. <<>> \in Seq(Nat) /\ <<>> \in Sums /\ "done" \in IndexPcs /\ "idle" \in IndexPcs
  BY DEF Sums, IndexPcs
<1>2. IdleCall \in CallRow /\ Over \in CallRow
  BY <1>1 DEF Over, IdleCall, CallRow
<1>3. /\ IdleCall.pc = "idle" /\ IdleCall.new = {}
      /\ Over.pc = "done" /\ Over.new = {}
  BY DEF Over, IdleCall
<1>4. PICK absent \in SUBSET IndexCalls : call = [c \in IndexCalls |-> IF c \in absent THEN Over ELSE IdleCall]
  BY DEF IndexInit
<1>5. rows = {1} /\ chunks = 1 /\ loading = NoCall /\ index = ColdIndex(0)
      /\ disk = [file |-> <<>>, manifest |-> NoManifest]
  BY DEF IndexInit
<1>6. VecShape
  <2>1. call \in [IndexCalls -> CallRow]
    BY <1>2, <1>4
  <2>2. index \in IndexRow
    BY <1>1, <1>5 DEF ColdIndex, IndexRow
  <2>3. disk \in [file : Seq(Nat), manifest : ManifestRow]
    BY <1>1, <1>5 DEF NoManifest, ManifestRow
  <2> QED BY <1>5, <2>1, <2>2, <2>3 DEF VecShape
<1>7. ASSUME NEW c \in IndexCalls PROVE CallHolds(c)
  <2>1. call[c] = IdleCall \/ call[c] = Over
    BY <1>4
  <2> QED BY <1>3, <2>1 DEF CallHolds, Loading, Building
<1>8. ColdIsEmpty /\ IdsStand /\ WarmIsWhole
  BY <1>5 DEF ColdIsEmpty, IdsStand, WarmIsWhole, ColdIndex
<1>9. DiskIsOfRows
  BY <1>5 DEF DiskIsOfRows, NoManifest
<1> QED BY <1>6, <1>7, <1>8, <1>9 DEF VecInv

\* In every behaviour of any number of stores, purges, sweeps, searches and
\* rebuilds, with faults and restarts, a warm index finds every row that no call
\* is about to announce (retrieval.py:1317, faiss_index.py:119).
THEOREM NothingIsMissed == IndexSpec => []WarmMissesNothing
<1>1. VecInv /\ [IndexNext]_indexVars => VecInv'
  <2> SUFFICES ASSUME VecInv, [IndexNext]_indexVars PROVE VecInv'
    OBVIOUS
  <2>1. ASSUME NEW s \in Stores,
               \/ StoreRemoves(s) \/ StoreCommits(s) \/ StoreRollsBack(s)
               \/ Refresh(s) \/ RefreshBehindLoad(s) \/ RefreshFails(s)
        PROVE  VecInv'
    BY <2>1, StoreKeepsVectors, RefreshKeepsVectors
  <2>2. ASSUME NEW p \in Purges, PurgeCommits(p) \/ Tombstone(p) PROVE VecInv'
    BY <2>2, PurgeKeepsVectors
  <2>3. ASSUME NEW w \in Sweeps, SweepWritesFile(w) \/ SweepFails(w) \/ SweepInvalidates(w)
        PROVE  VecInv'
    BY <2>3, SweepKeepsVectors
  <2>4. ASSUME NEW q \in Searches, Search(q) \/ SearchGivesUp(q) PROVE VecInv'
    <3>1. q \in IndexCalls
      BY DEF IndexCalls
    <3> QED BY <2>4, <3>1, SearchKeepsVectors, LoadEntryKeepsVectors
  <2>5. ASSUME NEW c \in IndexCalls,
               \/ LoadIsWarm(c) \/ LoadLocks(c) \/ LoadLooksAtDisk(c)
               \/ Restore(c) \/ LoadSamples(c) \/ LoadSelects(c)
               \/ LoadVerifies(c) \/ LoadPublishes(c) \/ SaveFile(c) \/ SaveManifest(c)
        PROVE  VecInv'
    BY <2>5, LoadEntryKeepsVectors, LooksKeepsVectors, RestoreKeepsVectors, SamplesKeepsVectors,
       SelectsKeepsVectors, VerifiesKeepsVectors, PublishesKeepsVectors, SaveFileKeepsVectors,
       SaveManifestKeepsVectors
  <2>6. ASSUME NEW b \in Rebuilders,
               RebuilderReads(b) \/ RebuilderSavesFile(b) \/ RebuilderSavesManifest(b)
        PROVE  VecInv'
    BY <2>6, RebuilderKeepsVectors
  <2>7. CASE DaemonRestarts
    BY <2>7, RestartKeepsVectors
  <2>8. CASE UNCHANGED indexVars
    <3>1. Announced' = Announced
      BY <2>8 DEF indexVars, Announced, At
    <3>2. ASSUME NEW c \in IndexCalls PROVE CallHolds(c)'
      <4>1. CallHolds(c)
        BY DEF VecInv
      <4> QED BY <2>8, <3>1, <4>1 DEF indexVars, CallHolds, Within, Checksum
    <3>3. VecShape' /\ ColdIsEmpty' /\ IdsStand' /\ WarmIsWhole' /\ DiskIsOfRows'
      BY <2>8, <3>1 DEF indexVars, VecInv, VecShape, ColdIsEmpty, IdsStand, WarmIsWhole,
         DiskIsOfRows, Within
    <3> QED BY <3>2, <3>3 DEF VecInv
  <2> QED BY <2>1, <2>2, <2>3, <2>4, <2>5, <2>6, <2>7, <2>8 DEF IndexNext
<1>2. VecInv => WarmMissesNothing
  <2> SUFFICES ASSUME VecInv, index.ready, index.sound, NEW r \in rows
               PROVE  r \in Findable(index) \cup Announced \cup unseen
    BY DEF WarmMissesNothing
  <2>1. CASE r \in index.live
    <3>1. index.ids = index.vecs /\ r \in ToSet(index.ids)
      BY <2>1 DEF VecInv, IdsStand
    <3>2. PICK i \in DOMAIN index.ids : index.ids[i] = r
      BY <3>1 DEF ToSet
    <3> QED BY <2>1, <3>1, <3>2 DEF Findable
  <2> QED BY <2>1 DEF VecInv, WarmIsWhole
<1> QED BY IndexInitInv, <1>1, <1>2, PTL DEF IndexSpec

-----------------------------------------------------------------------------
(* The index of pages: PageIndex *)

Kinds == {"vault", "wiki", "ingest"}
FileState == [says : Frontmatter \cup {"nothing"}, mtime : Nat]
PageRow == [page : Pages \cup Virtual \cup {NoPage}, canon : BOOLEAN, mtime : Nat, stamp : Nat,
            status : Frontmatter \cup {"none", "candidate"}, text : Nat, vecs : Nat]
PageRun == [pc : {"idle", "aliases", "pages", "unchanged", "read", "write",
                  "parse", "stamp", "commit"},
            walked : [Pages -> Nat], alias : [Pages -> Doc \cup {NoDoc}],
            todo : SUBSET Pages, page : Pages \cup {NoPage}, row : Doc \cup {NoDoc},
            seen : PageRow, got : [Pages -> FileState], stamp : [Pages -> Nat]]

\* Does the ingest index this root?
Ingesting == \E i \in Indexers : kind[i] = "ingest"

\* A row holds a text no newer than its file and no older than the walk that
\* stamped it, or nothing, for a completed plan. A row of the ingest whose stamp
\* covers the last edit of the file holds that edit.
RowIsTrue(r, files, time, exempt, ingesting) ==
    /\ r.text <= time /\ r.stamp <= time
    /\ r.vecs = 0 \/ (r.vecs = r.text /\ r.page # NoPage)
    /\ r.page \in Pages =>
          LET none == r.status = "complete" /\ r.text = 0
              f == files[r.page]
          IN  /\ r.mtime <= r.text \/ none
              /\ f # NoFile => r.text <= f.mtime
              /\ ingesting /\ r.page \notin exempt /\ f # NoFile /\ f.mtime <= r.stamp
                    => r.text = f.mtime \/ none

\* What a run has of a page: the time of the walk is not after the edit it read,
\* nor that after the file. Once stamped, the ingest has the file as the stamp
\* finds it.
ReadIsTrue(p, g, k, files, time, exempt) ==
    /\ g.walked[p] <= time /\ g.stamp[p] <= time
    /\ files[p] # NoFile => g.walked[p] <= files[p].mtime
    /\ g.got[p] # NoFile =>
          /\ g.walked[p] <= g.got[p].mtime /\ g.got[p].mtime <= time
          /\ files[p] # NoFile => g.got[p].mtime <= files[p].mtime
          /\ k = "ingest" /\ ~(g.pc = "stamp" /\ g.page = p) /\ p \notin exempt
             /\ files[p] # NoFile /\ files[p].mtime <= g.stamp[p]
                   => g.got[p].mtime = files[p].mtime

\* A document id a run holds was handed out for the page, or is gone.
IdIsOf(d, p, table, last) == d # NoDoc => d <= last /\ table[d].page \in {p, NoPage}

\* Every indexer is in the steps of its kind.
StepIsOfKind(g, k) ==
    /\ g.pc = "idle" => g = Idle
    /\ g.pc \in {"aliases", "pages", "unchanged", "read", "write"} => k = "vault"
    /\ g.pc \in {"parse", "stamp", "commit"} => k \in {"wiki", "ingest"} /\ g.row = NoDoc
    /\ g.pc \in {"unchanged", "read", "write", "stamp"} => g.page \in Pages
    /\ g.pc = "write" => g.got[g.page].says \in Frontmatter

RunIsTrue(g, k, files, time, exempt, table, last) ==
    /\ StepIsOfKind(g, k)
    /\ \A p \in Pages : ReadIsTrue(p, g, k, files, time, exempt)
    /\ \A p \in Pages : IdIsOf(g.alias[p], p, table, last)
    /\ IdIsOf(g.row, g.page, table, last)

\* documents.path is UNIQUE.
PathsDiffer(table) ==
    \A d, e \in Doc : table[d].page \in Pages /\ table[e].page = table[d].page
                      /\ table[d].canon /\ table[e].canon => d = e
NumbersAreFresh(table, last) == \A d \in Doc : d > last => table[d] = Blank
\* Rows without a file are of the vault sweep's root.
StraysAreOfVault(table, kinds) ==
    \A d \in Doc, i \in Indexers : table[d].page \in Virtual => kinds[i] \notin {"wiki", "ingest"}

PageShape ==
    /\ now \in Nat /\ lastDoc \in Nat
    /\ kind \in Mixes /\ hidden \subseteq Pages
    /\ file \in [Pages -> FileState] /\ (\A p \in Pages : file[p].mtime <= now)
    /\ \A p \in Pages : file[p] # NoFile => file[p].says \in Frontmatter
    /\ docs \in [Doc -> PageRow]
    /\ run \in [Indexers -> PageRun]

PageInv ==
    /\ PageShape
    /\ \A d \in Doc : RowIsTrue(docs[d], file, now, hidden, Ingesting)
    /\ PathsDiffer(docs) /\ NumbersAreFresh(docs, lastDoc) /\ StraysAreOfVault(docs, kind)
    /\ \A i \in Indexers : RunIsTrue(run[i], kind[i], file, now, hidden, docs, lastDoc)

LEMMA BlankIsTrue ==
    ASSUME NEW files, NEW t \in Nat, NEW exempt, NEW ingesting
    PROVE  Blank \in PageRow /\ Blank.page = NoPage /\ RowIsTrue(Blank, files, t, exempt, ingesting)
<1>1. Blank \in PageRow /\ Blank.page = NoPage
  BY DEF Blank, PageRow, Frontmatter
<1>2. Blank.text = 0 /\ Blank.stamp = 0 /\ Blank.vecs = 0 /\ NoPage \notin Pages
  BY PageConstants DEF Blank
<1> QED BY <1>1, <1>2 DEF RowIsTrue

LEMMA IdleIsRun ==
    /\ Idle \in PageRun
    /\ Idle.pc = "idle" /\ Idle.row = NoDoc /\ Idle.page = NoPage /\ Idle.seen = Blank
    /\ \A p \in Pages : /\ Idle.got[p] = NoFile /\ Idle.walked[p] = 0 /\ Idle.stamp[p] = 0
                        /\ Idle.alias[p] = NoDoc
<1>1. Blank \in PageRow
  BY BlankIsTrue
<1>2. NoFile \in FileState
  BY DEF NoFile, FileState
<1>3. /\ [p \in Pages |-> 0] \in [Pages -> Nat]
      /\ [p \in Pages |-> NoDoc] \in [Pages -> Doc \cup {NoDoc}]
      /\ [p \in Pages |-> NoFile] \in [Pages -> FileState]
  BY <1>2
<1> QED BY <1>1, <1>3 DEF Idle, PageRun

LEMMA IdleIsTrue ==
    ASSUME NEW k, NEW files \in [Pages -> FileState], NEW t \in Nat, NEW exempt, NEW table, NEW last
    PROVE  RunIsTrue(Idle, k, files, t, exempt, table, last)
<1>1. StepIsOfKind(Idle, k)
  BY IdleIsRun DEF StepIsOfKind
<1>2. ASSUME NEW p \in Pages PROVE ReadIsTrue(p, Idle, k, files, t, exempt)
  <2>1. files[p].mtime \in Nat
    BY DEF FileState
  <2> QED BY <2>1, IdleIsRun DEF ReadIsTrue
<1>3. ASSUME NEW p \in Pages PROVE IdIsOf(Idle.alias[p], p, table, last)
  BY IdleIsRun DEF IdIsOf
<1>4. IdIsOf(Idle.row, Idle.page, table, last)
  BY IdleIsRun DEF IdIsOf
<1> QED BY <1>1, <1>2, <1>3, <1>4 DEF RunIsTrue

LEMMA OneIsOf ==
    ASSUME NEW S \in SUBSET Doc
    PROVE  /\ S = {} => One(S) = NoDoc
           /\ S # {} => One(S) \in S
           /\ One(S) \in Doc \cup {NoDoc} /\ (One(S) # NoDoc => One(S) \in S)
<1>1. CASE S = {}
  BY <1>1 DEF One
<1>2. CASE S # {}
  <2>1. Min(S) \in S
    BY <1>2, MinOf DEF Doc
  <2> QED BY <1>2, <2>1 DEF One
<1> QED BY <1>1, <1>2

\* Rows that go on, or go: a page a row is of does not change but to none.
LEMMA IdStays ==
    ASSUME NEW d, NEW p, NEW table, NEW table2, NEW last, NEW last2,
           last \in Nat, last2 \in Nat, last <= last2, d = NoDoc \/ d \in Doc,
           \A e \in Doc : e <= last => table2[e].page \in {table[e].page, NoPage},
           IdIsOf(d, p, table, last)
    PROVE  IdIsOf(d, p, table2, last2)
BY DEF IdIsOf, Doc

LEMMA RunStays ==
    ASSUME NEW g \in PageRun, NEW k, NEW files, NEW t, NEW exempt, NEW table, NEW table2,
           NEW exempt2, exempt \subseteq exempt2,
           NEW last \in Nat, NEW last2 \in Nat, last <= last2,
           \A e \in Doc : e <= last => table2[e].page \in {table[e].page, NoPage},
           RunIsTrue(g, k, files, t, exempt, table, last)
    PROVE  RunIsTrue(g, k, files, t, exempt2, table2, last2)
<1>1. StepIsOfKind(g, k)
  BY DEF RunIsTrue
<1>2. ASSUME NEW p \in Pages PROVE ReadIsTrue(p, g, k, files, t, exempt2)
  <2>1. ReadIsTrue(p, g, k, files, t, exempt)
    BY DEF RunIsTrue
  <2> QED BY <2>1 DEF ReadIsTrue
<1>3. ASSUME NEW p \in Pages PROVE IdIsOf(g.alias[p], p, table2, last2)
  <2>1. IdIsOf(g.alias[p], p, table, last) /\ (g.alias[p] = NoDoc \/ g.alias[p] \in Doc)
    BY DEF RunIsTrue, PageRun
  <2> QED BY <2>1, IdStays
<1>4. IdIsOf(g.row, g.page, table2, last2)
  <2>1. IdIsOf(g.row, g.page, table, last) /\ (g.row = NoDoc \/ g.row \in Doc)
    BY DEF RunIsTrue, PageRun
  <2> QED BY <2>1, IdStays
<1> QED BY <1>1, <1>2, <1>3, <1>4 DEF RunIsTrue

\* A step of an indexer that leaves the rows alone, but for some that go, and
\* writes some that are true.
LEMMA IndexerKeepsPages ==
    ASSUME PageInv, NEW i \in Indexers, NEW g \in PageRun,
           file' = file, now' = now, kind' = kind, hidden' \in SUBSET Pages, hidden \subseteq hidden',
           run' = [run EXCEPT ![i] = g],
           docs' \in [Doc -> PageRow], lastDoc' \in Nat, lastDoc <= lastDoc',
           \A d \in Doc : \/ docs'[d] = docs[d]
                          \/ RowIsTrue(docs'[d], file, now, hidden, Ingesting),
           \A d \in Doc : d <= lastDoc => docs'[d].page \in {docs[d].page, NoPage},
           PathsDiffer(docs'), NumbersAreFresh(docs', lastDoc'),
           \A d \in Doc : docs'[d].page \in Virtual => docs[d].page \in Virtual,
           RunIsTrue(g, kind[i], file, now, hidden', docs', lastDoc')
    PROVE  PageInv'
<1> USE DEF PageInv
<1>1. PageShape'
  <2>1. run \in [Indexers -> PageRun]
    BY DEF PageShape
  <2>2. run' \in [Indexers -> PageRun]
    BY <2>1
  <2> QED BY <2>2 DEF PageShape
<1>2. Ingesting' = Ingesting
  BY DEF Ingesting
<1>3. ASSUME NEW d \in Doc PROVE RowIsTrue(docs'[d], file, now, hidden', Ingesting)
  <2>1. RowIsTrue(docs'[d], file, now, hidden, Ingesting)
    OBVIOUS
  <2> QED BY <2>1 DEF RowIsTrue
<1>4. \A d \in Doc : RowIsTrue(docs[d], file, now, hidden, Ingesting)'
  BY <1>2, <1>3
<1>5. StraysAreOfVault(docs', kind')
  BY DEF StraysAreOfVault
<1>6. ASSUME NEW j \in Indexers
      PROVE  RunIsTrue(run'[j], kind[j], file, now, hidden', docs', lastDoc')
  <2>1. CASE j = i
    BY <2>1 DEF PageShape
  <2>2. CASE j # i
    <3>1. run'[j] = run[j] /\ run[j] \in PageRun
      BY <2>2 DEF PageShape
    <3>2. RunIsTrue(run[j], kind[j], file, now, hidden, docs, lastDoc) /\ lastDoc \in Nat
      BY DEF PageShape
    <3> QED BY <3>1, <3>2, RunStays
  <2> QED BY <2>1, <2>2
<1>7. \A j \in Indexers : RunIsTrue(run[j], kind[j], file, now, hidden, docs, lastDoc)'
  BY <1>6
<1> QED BY <1>1, <1>4, <1>5, <1>7

LEMMA LegacyRows ==
    ASSUME NEW p \in Pages, NEW says \in Frontmatter, NEW legacy \in Legacy(p, says)
    PROVE  /\ Len(legacy) \in Nat
           /\ \A k \in 1..Len(legacy) :
                 /\ legacy[k] \in PageRow
                 /\ legacy[k].page = p /\ legacy[k].mtime <= 1 /\ legacy[k].stamp = 1
                 /\ legacy[k].text = 1 /\ legacy[k].vecs = 1
           /\ \A k \in 1..Len(legacy) : legacy[k].canon => k = 1
<1> DEFINE old(canon, time) == [page |-> p, canon |-> canon, mtime |-> time, stamp |-> 1,
                                status |-> says, text |-> 1, vecs |-> 1]
           entry == old(TRUE, 1)
           other(time) == old(FALSE, time)
<1>1. \A canon \in BOOLEAN, time \in {0, 1} : old(canon, time) \in PageRow
  BY DEF PageRow
<1>2. \A canon \in BOOLEAN, time \in {0, 1} :
         /\ old(canon, time).page = p /\ old(canon, time).mtime <= 1 /\ old(canon, time).stamp = 1
         /\ old(canon, time).text = 1 /\ old(canon, time).vecs = 1 /\ old(canon, time).canon = canon
  OBVIOUS
<1>5. legacy \in {<<>>, <<entry>>, <<other(0)>>, <<other(1)>>, <<entry, other(1)>>,
                  <<other(0), other(1)>>}
  BY DEF Legacy
<1> HIDE DEF old
<1>3. /\ entry \in PageRow /\ entry.page = p /\ entry.mtime <= 1 /\ entry.stamp = 1
      /\ entry.text = 1 /\ entry.vecs = 1
  BY <1>1, <1>2
<1>4. \A time \in {0, 1} :
         /\ other(time) \in PageRow /\ other(time).page = p /\ other(time).mtime <= 1
         /\ other(time).stamp = 1 /\ other(time).text = 1 /\ other(time).vecs = 1
         /\ other(time).canon = FALSE
  BY <1>1, <1>2
<1> HIDE DEF old, entry, other
<1> QED BY <1>3, <1>4, <1>5

LEMMA PageInitInv == PageInit => PageInv
<1> SUFFICES ASSUME PageInit PROVE PageInv
  OBVIOUS
<1>0. PICK p \in Pages, says \in Frontmatter :
        \E legacy \in Legacy(p, says) :
           LET virtual == IF \E i \in Indexers : kind[i] = "vault" THEN Virtual ELSE {}
               n == Len(legacy)
           IN  /\ file = [q \in Pages |-> IF q = p THEN [says |-> says, mtime |-> 1] ELSE NoFile]
               /\ virtual = {} => \A k \in 1..n : legacy[k].canon
               /\ docs = [d \in Doc |->
                     IF d <= n THEN legacy[d]
                     ELSE IF d = n + 1 /\ virtual # {}
                     THEN [page |-> CHOOSE v \in virtual : TRUE, canon |-> TRUE, mtime |-> 0,
                           stamp |-> 0, status |-> "accepted", text |-> 1, vecs |-> 1]
                     ELSE Blank]
               /\ lastDoc = n + Cardinality(virtual)
  BY DEF PageInit
<1>1. PICK legacy \in Legacy(p, says) :
        LET virtual == IF \E i \in Indexers : kind[i] = "vault" THEN Virtual ELSE {}
            n == Len(legacy)
        IN  /\ file = [q \in Pages |-> IF q = p THEN [says |-> says, mtime |-> 1] ELSE NoFile]
            /\ virtual = {} => \A k \in 1..n : legacy[k].canon
            /\ docs = [d \in Doc |->
                  IF d <= n THEN legacy[d]
                  ELSE IF d = n + 1 /\ virtual # {}
                  THEN [page |-> CHOOSE v \in virtual : TRUE, canon |-> TRUE, mtime |-> 0,
                        stamp |-> 0, status |-> "accepted", text |-> 1, vecs |-> 1]
                  ELSE Blank]
            /\ lastDoc = n + Cardinality(virtual)
  BY <1>0
<1> DEFINE virtual == IF \E i \in Indexers : kind[i] = "vault" THEN Virtual ELSE {}
           n == Len(legacy)
           promoted == [page |-> CHOOSE v \in virtual : TRUE, canon |-> TRUE, mtime |-> 0,
                        stamp |-> 0, status |-> "accepted", text |-> 1, vecs |-> 1]
<1>2. /\ file = [q \in Pages |-> IF q = p THEN [says |-> says, mtime |-> 1] ELSE NoFile]
      /\ docs = [d \in Doc |-> IF d <= n THEN legacy[d]
                               ELSE IF d = n + 1 /\ virtual # {} THEN promoted ELSE Blank]
      /\ lastDoc = n + Cardinality(virtual)
  BY <1>1
<1>3. now = 1 /\ kind \in Mixes /\ hidden = {} /\ run = [i \in Indexers |-> Idle]
  BY DEF PageInit
<1>4. /\ virtual \subseteq Virtual /\ Cardinality(virtual) \in Nat
      /\ virtual # {} => Cardinality(virtual) >= 1
  <2>1. IsFiniteSet(virtual) /\ virtual \subseteq Virtual
    BY PageConstants, FS_EmptySet
  <2>2. Cardinality(virtual) \in Nat /\ (virtual # {} => Cardinality(virtual) # 0)
    BY <2>1, FS_CardinalityType, FS_EmptySet
  <2> QED BY <2>1, <2>2
<1>5. virtual # {} => promoted.page \in Virtual
  <2>1. virtual # {} => (CHOOSE v \in virtual : TRUE) \in virtual
    OBVIOUS
  <2> QED BY <1>4, <2>1
<1>6. /\ n \in Nat
      /\ \A k \in 1..n : /\ legacy[k] \in PageRow
                         /\ legacy[k].page = p /\ legacy[k].mtime <= 1 /\ legacy[k].stamp = 1
                         /\ legacy[k].text = 1 /\ legacy[k].vecs = 1
      /\ \A k \in 1..n : legacy[k].canon => k = 1
  BY LegacyRows
<1>7. \A q \in Pages : file[q] \in FileState /\ file[q].mtime <= 1
                       /\ (q = p => file[q].mtime = 1)
  <2>1. NoFile \in FileState /\ NoFile.mtime = 0
    BY DEF FileState, NoFile
  <2>2. [says |-> says, mtime |-> 1] \in FileState
    BY DEF FileState
  <2> QED BY <1>2, <2>1, <2>2
<1>17. virtual # {} => promoted \in PageRow
  BY <1>5 DEF PageRow, Frontmatter
<1>18. promoted.text = 1 /\ promoted.stamp = 0 /\ promoted.vecs = 1
  OBVIOUS
<1> HIDE DEF n, virtual, promoted
<1>8. Blank \in PageRow /\ Blank.page = NoPage
  BY BlankIsTrue
<1>9. virtual # {} => promoted \in PageRow /\ promoted.text = 1 /\ promoted.stamp = 0
                      /\ promoted.vecs = 1 /\ promoted.page \in Virtual
  BY <1>5, <1>17, <1>18
\* Each row is a legacy one of p, the promoted one, or none.
<1>10. ASSUME NEW d \in Doc
       PROVE  \/ d \in 1..n /\ docs[d] = legacy[d]
              \/ d = n + 1 /\ virtual # {} /\ docs[d] = promoted
              \/ d > n /\ (virtual = {} \/ d > n + 1) /\ docs[d] = Blank
  BY <1>2, <1>6 DEF Doc
<1>11. PageShape
  <2>1. docs \in [Doc -> PageRow]
    <3>1. \A d \in Doc : docs[d] \in PageRow
      BY <1>6, <1>8, <1>9, <1>10
    <3> QED BY <1>2, <3>1
  <2>2. run \in [Indexers -> PageRun]
    BY <1>3, IdleIsRun
  <2>3. file \in [Pages -> FileState]
    BY <1>2, <1>7
  <2>4. now \in Nat /\ lastDoc \in Nat /\ kind \in Mixes /\ hidden \subseteq Pages
    BY <1>2, <1>3, <1>4, <1>6
  <2>5. \A q \in Pages : file[q] # NoFile => file[q].says \in Frontmatter
    BY <1>2
  <2> QED BY <1>3, <1>7, <2>1, <2>2, <2>3, <2>4, <2>5 DEF PageShape
<1>12. ASSUME NEW d \in Doc PROVE RowIsTrue(docs[d], file, now, hidden, Ingesting)
  <2>1. CASE d \in 1..n /\ docs[d] = legacy[d]
    <3>1. p \in Pages /\ NoPage \notin Pages
      BY PageConstants
    <3>2. legacy[d].mtime \in Nat
      BY <1>6, <2>1 DEF PageRow
    <3> QED BY <1>3, <1>6, <1>7, <2>1, <3>1, <3>2 DEF RowIsTrue
  <2>2. CASE virtual # {} /\ docs[d] = promoted
    <3>1. promoted.page \notin Pages /\ promoted.page # NoPage
      BY <1>9, <2>2, PageConstants
    <3> QED BY <1>3, <1>9, <2>2, <3>1 DEF RowIsTrue
  <2>3. CASE docs[d] = Blank
    BY <1>3, <2>3, BlankIsTrue
  <2> QED BY <1>10, <2>1, <2>2, <2>3
<1>13. PathsDiffer(docs)
  <2> SUFFICES ASSUME NEW d \in Doc, docs[d].page \in Pages, docs[d].canon
               PROVE  d = 1
    BY DEF PathsDiffer
  <2>1. docs[d] # Blank /\ (virtual # {} => docs[d] # promoted)
    BY <1>8, <1>9, PageConstants
  <2> QED BY <1>6, <1>10, <2>1
<1>14. NumbersAreFresh(docs, lastDoc)
  <2> SUFFICES ASSUME NEW d \in Doc, d > lastDoc PROVE docs[d] = Blank
    BY DEF NumbersAreFresh
  <2>1. d \in Nat /\ d > n /\ (virtual # {} => d > n + 1)
    BY <1>2, <1>4, <1>6 DEF Doc
  <2> QED BY <1>6, <1>10, <2>1
<1>15. StraysAreOfVault(docs, kind)
  <2> SUFFICES ASSUME NEW d \in Doc, NEW i \in Indexers, docs[d].page \in Virtual
               PROVE  kind[i] \notin {"wiki", "ingest"}
    BY DEF StraysAreOfVault
  <2>1. docs[d] # Blank /\ docs[d].page # p
    BY <1>8, PageConstants
  <2>2. virtual # {}
    BY <1>6, <1>10, <2>1
  <2>3. PICK j \in Indexers : kind[j] = "vault"
    BY <2>2 DEF virtual
  <2>4. kind[i] = "off" \/ kind[j] = "off" \/ kind[i] = kind[j]
    BY <1>3, PageConstants
  <2> QED BY <2>3, <2>4
<1>16. \A i \in Indexers : RunIsTrue(run[i], kind[i], file, now, hidden, docs, lastDoc)
  <2>1. file \in [Pages -> FileState] /\ now \in Nat
    BY <1>11 DEF PageShape
  <2> QED BY <1>3, <2>1, IdleIsTrue
<1> QED BY <1>11, <1>12, <1>13, <1>14, <1>15, <1>16 DEF PageInv

LEMMA EditKeepsPages == ASSUME PageInv, NEW p \in Pages, Edit(p) PROVE PageInv'
<1> USE DEF PageInv
<1>1. /\ now \in Nat /\ now' = now + 1
      /\ UNCHANGED <<docs, lastDoc, kind, run, hidden>>
      /\ Ingesting' = Ingesting
  BY DEF Edit, PageShape, Ingesting
<1>2. PICK f \in FileState : file' = [file EXCEPT ![p] = f] /\ (f = NoFile \/ f.mtime = now + 1)
                             /\ f.mtime <= now + 1 /\ (f # NoFile => f.says \in Frontmatter)
  <2>1. NoFile \in FileState /\ NoFile.mtime = 0
    BY DEF NoFile, FileState
  <2>2. \A says \in Frontmatter : [says |-> says, mtime |-> now + 1] \in FileState
    BY <1>1 DEF FileState
  <2>3. \/ \E says \in Frontmatter : file' = [file EXCEPT ![p] = [says |-> says, mtime |-> now + 1]]
        \/ file' = [file EXCEPT ![p] = NoFile]
    BY DEF Edit
  <2> QED BY <1>1, <2>1, <2>2, <2>3
<1>3. /\ file' \in [Pages -> FileState]
      /\ \A q \in Pages : file[q].mtime \in Nat /\ file[q].mtime <= now
      /\ \A q \in Pages : file'[q].mtime \in Nat /\ file'[q].mtime <= now'
      /\ \A q \in Pages : file'[q] = file[q] \/ file'[q] = NoFile \/ file'[q].mtime = now'
  <2>1. file \in [Pages -> FileState]
    BY DEF PageShape
  <2>2. file' \in [Pages -> FileState]
    BY <1>2, <2>1
  <2>3. \A q \in Pages : file[q].mtime \in Nat /\ file[q].mtime <= now
    BY <2>1 DEF PageShape, FileState
  <2>4. \A q \in Pages : file'[q] = IF q = p THEN f ELSE file[q]
    BY <1>2, <2>1
  <2> QED BY <1>1, <1>2, <2>2, <2>3, <2>4 DEF FileState
<1>4. PageShape'
  <2>1. \A q \in Pages : file'[q] # NoFile => file'[q].says \in Frontmatter
    BY <1>2 DEF PageShape
  <2> QED BY <1>1, <1>3, <2>1 DEF PageShape
<1>5. ASSUME NEW d \in Doc PROVE RowIsTrue(docs[d], file', now', hidden, Ingesting)
  <2>1. RowIsTrue(docs[d], file, now, hidden, Ingesting) /\ docs[d] \in PageRow
    BY DEF PageShape
  <2>2. docs[d].text \in Nat /\ docs[d].stamp \in Nat
    BY <2>1 DEF PageRow
  <2>3. docs[d].text <= now /\ docs[d].stamp <= now
    BY <2>1 DEF RowIsTrue
  <2>4. CASE docs[d].page \in Pages
    <3>1. \/ file'[docs[d].page] = file[docs[d].page] \/ file'[docs[d].page] = NoFile
          \/ file'[docs[d].page].mtime = now'
      BY <1>3, <2>4
    <3> QED BY <1>1, <2>1, <2>2, <2>3, <3>1 DEF RowIsTrue
  <2>5. CASE docs[d].page \notin Pages
    BY <1>1, <2>1, <2>2, <2>3, <2>5 DEF RowIsTrue
  <2> QED BY <2>4, <2>5
<1>6. ASSUME NEW i \in Indexers
      PROVE  RunIsTrue(run[i], kind[i], file', now', hidden, docs, lastDoc)
  <2>1. RunIsTrue(run[i], kind[i], file, now, hidden, docs, lastDoc) /\ run[i] \in PageRun
    BY DEF PageShape
  <2>2. ASSUME NEW q \in Pages PROVE ReadIsTrue(q, run[i], kind[i], file', now', hidden)
    <3>1. ReadIsTrue(q, run[i], kind[i], file, now, hidden)
      BY <2>1 DEF RunIsTrue
    <3>2. run[i].walked[q] \in Nat /\ run[i].stamp[q] \in Nat /\ run[i].got[q].mtime \in Nat
      BY <2>1 DEF PageRun, FileState
    <3>3. file'[q] = file[q] \/ file'[q] = NoFile \/ file'[q].mtime = now'
      BY <1>3
    <3> QED BY <1>1, <3>1, <3>2, <3>3 DEF ReadIsTrue
  <2> QED BY <2>1, <2>2 DEF RunIsTrue
<1>7. \A d \in Doc : RowIsTrue(docs[d], file, now, hidden, Ingesting)'
  BY <1>1, <1>5
<1>8. \A i \in Indexers : RunIsTrue(run[i], kind[i], file, now, hidden, docs, lastDoc)'
  BY <1>1, <1>6
<1>9. PathsDiffer(docs)' /\ NumbersAreFresh(docs, lastDoc)' /\ StraysAreOfVault(docs, kind)'
  BY <1>1
<1> QED BY <1>4, <1>7, <1>8, <1>9

\* What IndexerKeepsPages asks of the rows.
RowsFollow(table, last) ==
    /\ table \in [Doc -> PageRow] /\ last \in Nat /\ lastDoc <= last
    /\ \A d \in Doc : table[d] = docs[d] \/ RowIsTrue(table[d], file, now, hidden, Ingesting)
    /\ \A d \in Doc : d <= lastDoc => table[d].page \in {docs[d].page, NoPage}
    /\ PathsDiffer(table) /\ NumbersAreFresh(table, last)
    /\ \A d \in Doc : table[d].page \in Virtual => docs[d].page \in Virtual

LEMMA RowsStay == ASSUME PageInv PROVE RowsFollow(docs, lastDoc)
BY DEF PageInv, PageShape, RowsFollow

LEMMA RowsGo ==
    ASSUME PageInv, NEW S, NEW table, table = [d \in Doc |-> IF d \in S THEN Blank ELSE docs[d]]
    PROVE  RowsFollow(table, lastDoc)
<1>1. /\ docs \in [Doc -> PageRow] /\ now \in Nat /\ lastDoc \in Nat
      /\ PathsDiffer(docs) /\ NumbersAreFresh(docs, lastDoc)
  BY DEF PageInv, PageShape
<1>2. /\ Blank \in PageRow /\ Blank.page = NoPage /\ NoPage \notin Pages \cup Virtual
      /\ RowIsTrue(Blank, file, now, hidden, Ingesting)
  BY <1>1, BlankIsTrue, PageConstants
<1>3. \A d \in Doc : table[d] = docs[d] \/ table[d] = Blank
  OBVIOUS
<1>4. table \in [Doc -> PageRow]
  BY <1>1, <1>2
<1>5. PathsDiffer(table)
  BY <1>1, <1>2, <1>3 DEF PathsDiffer
<1>6. NumbersAreFresh(table, lastDoc)
  BY <1>1, <1>3 DEF NumbersAreFresh
<1>7. \A d \in Doc : table[d] = docs[d] \/ RowIsTrue(table[d], file, now, hidden, Ingesting)
  BY <1>2, <1>3
<1>8. \A d \in Doc : table[d].page \in {docs[d].page, NoPage}
                     /\ (table[d].page \in Virtual => docs[d].page \in Virtual)
  BY <1>2, <1>3
<1> QED BY <1>1, <1>4, <1>5, <1>6, <1>7, <1>8 DEF RowsFollow

LEMMA RowIsWritten ==
    ASSUME PageInv, NEW r \in Doc, NEW entry \in PageRow, NEW table, table = [docs EXCEPT ![r] = entry],
           NEW last \in Nat, lastDoc <= last, r <= last,
           RowIsTrue(entry, file, now, hidden, Ingesting),
           r <= lastDoc => entry.page \in {docs[r].page, NoPage},
           entry.page \notin Virtual,
           entry.page \in Pages /\ entry.canon =>
               \A e \in Doc : docs[e].page = entry.page /\ docs[e].canon => e = r
    PROVE  RowsFollow(table, last)
<1>1. /\ docs \in [Doc -> PageRow] /\ lastDoc \in Nat
      /\ PathsDiffer(docs) /\ NumbersAreFresh(docs, lastDoc)
  BY DEF PageInv, PageShape
<1>2. table \in [Doc -> PageRow] /\ \A d \in Doc : table[d] = IF d = r THEN entry ELSE docs[d]
  BY <1>1
<1>3. PathsDiffer(table)
  <2> SUFFICES ASSUME NEW d \in Doc, NEW e \in Doc,
                      table[d].page \in Pages, table[e].page = table[d].page,
                      table[d].canon, table[e].canon
               PROVE  d = e
    BY DEF PathsDiffer
  <2>1. CASE d = r /\ e # r
    BY <1>2, <2>1
  <2>2. CASE e = r /\ d # r
    BY <1>2, <2>2
  <2>3. CASE d # r /\ e # r
    BY <1>1, <1>2, <2>3 DEF PathsDiffer
  <2> QED BY <2>1, <2>2, <2>3
<1>4. NumbersAreFresh(table, last)
  BY <1>1, <1>2 DEF NumbersAreFresh, Doc
<1>5. \A d \in Doc : table[d] = docs[d] \/ RowIsTrue(table[d], file, now, hidden, Ingesting)
  BY <1>2
<1>6. \A d \in Doc : (d <= lastDoc => table[d].page \in {docs[d].page, NoPage})
                     /\ (table[d].page \in Virtual => docs[d].page \in Virtual)
  BY <1>2
<1> QED BY <1>1, <1>2, <1>3, <1>4, <1>5, <1>6 DEF RowsFollow

LEMMA FollowedRuns ==
    ASSUME PageInv, NEW i \in Indexers, NEW table, NEW last, RowsFollow(table, last)
    PROVE  RunIsTrue(run[i], kind[i], file, now, hidden, table, last)
<1>1. run[i] \in PageRun /\ RunIsTrue(run[i], kind[i], file, now, hidden, docs, lastDoc)
      /\ lastDoc \in Nat
  BY DEF PageInv, PageShape
<1>2. last \in Nat /\ lastDoc <= last
      /\ \A d \in Doc : d <= lastDoc => table[d].page \in {docs[d].page, NoPage}
  BY DEF RowsFollow
<1> QED BY <1>1, <1>2, RunStays

LEMMA FollowedPages ==
    ASSUME PageInv, NEW i \in Indexers, NEW g \in PageRun,
           UNCHANGED <<file, now, kind, hidden>>, run' = [run EXCEPT ![i] = g],
           RowsFollow(docs', lastDoc'),
           RunIsTrue(g, kind[i], file, now, hidden, docs', lastDoc')
    PROVE  PageInv'
<1>1. hidden' \in SUBSET Pages /\ hidden \subseteq hidden'
  BY DEF PageInv, PageShape
<1>2. file' = file /\ now' = now /\ kind' = kind
  OBVIOUS
<1>3. /\ docs' \in [Doc -> PageRow] /\ lastDoc' \in Nat /\ lastDoc <= lastDoc'
      /\ \A d \in Doc : docs'[d] = docs[d] \/ RowIsTrue(docs'[d], file, now, hidden, Ingesting)
      /\ \A d \in Doc : d <= lastDoc => docs'[d].page \in {docs[d].page, NoPage}
      /\ PathsDiffer(docs') /\ NumbersAreFresh(docs', lastDoc')
      /\ \A d \in Doc : docs'[d].page \in Virtual => docs[d].page \in Virtual
  BY DEF RowsFollow
<1>4. RunIsTrue(g, kind[i], file, now, hidden', docs', lastDoc')
  OBVIOUS
<1> QED BY <1>1, <1>2, <1>3, <1>4, IndexerKeepsPages

\* The steps of a vault sweep between the walk and the prune.
LEMMA VaultRunMoves ==
    ASSUME NEW h \in PageRun, NEW g \in PageRun, NEW k, NEW files, NEW t, NEW exempt,
           NEW table, NEW last,
           RunIsTrue(h, k, files, t, exempt, table, last), k # "ingest",
           StepIsOfKind(g, k), g.walked = h.walked, g.stamp = h.stamp,
           \A p \in Pages : g.got[p] \in {h.got[p], NoFile},
           \A p \in Pages : IdIsOf(g.alias[p], p, table, last),
           IdIsOf(g.row, g.page, table, last)
    PROVE  RunIsTrue(g, k, files, t, exempt, table, last)
<1>1. ASSUME NEW p \in Pages PROVE ReadIsTrue(p, g, k, files, t, exempt)
  <2>1. ReadIsTrue(p, h, k, files, t, exempt)
    BY DEF RunIsTrue
  <2> QED BY <2>1 DEF ReadIsTrue
<1> QED BY <1>1 DEF RunIsTrue

LEMMA NextPageIsRun ==
    ASSUME PageInv, NEW i \in Indexers, NextPage(i), kind[i] = "vault",
           NEW table, NEW last, RowsFollow(table, last)
    PROVE  \E g \in PageRun :
              /\ run' = [run EXCEPT ![i] = g]
              /\ RunIsTrue(g, kind[i], file, now, hidden, table, last)
<1>1. run[i] \in PageRun /\ run \in [Indexers -> PageRun]
  BY DEF PageInv, PageShape
<1> DEFINE g1 == [run[i] EXCEPT !.pc = "pages"]
           g2 == [g1 EXCEPT !.row = NoDoc]
           g3 == [g2 EXCEPT !.seen = Blank]
           g4 == [g3 EXCEPT !.page = NoPage]
           g5 == [g4 EXCEPT !.todo = @ \ {run[i].page}]
           g  == [g5 EXCEPT !.got = [p \in Pages |-> NoFile]]
<1>2. run' = [run EXCEPT ![i] = g]
  BY <1>1 DEF NextPage, Becomes
<1>3. /\ g1 \in PageRun /\ g1.pc = "pages"
      /\ g1.walked = run[i].walked /\ g1.stamp = run[i].stamp /\ g1.alias = run[i].alias
  BY <1>1 DEF PageRun
<1> HIDE DEF g1
<1>4. /\ g2 \in PageRun /\ g2.pc = "pages" /\ g2.row = NoDoc
      /\ g2.walked = run[i].walked /\ g2.stamp = run[i].stamp /\ g2.alias = run[i].alias
  BY <1>3 DEF PageRun
<1> HIDE DEF g2
<1>5. /\ g3 \in PageRun /\ g3.pc = "pages" /\ g3.row = NoDoc
      /\ g3.walked = run[i].walked /\ g3.stamp = run[i].stamp /\ g3.alias = run[i].alias
  BY <1>4, BlankIsTrue DEF PageRun
<1> HIDE DEF g3
<1>6. /\ g4 \in PageRun /\ g4.pc = "pages" /\ g4.row = NoDoc
      /\ g4.walked = run[i].walked /\ g4.stamp = run[i].stamp /\ g4.alias = run[i].alias
  BY <1>5 DEF PageRun
<1> HIDE DEF g4
<1>7. /\ g5 \in PageRun /\ g5.pc = "pages" /\ g5.row = NoDoc
      /\ g5.walked = run[i].walked /\ g5.stamp = run[i].stamp /\ g5.alias = run[i].alias
  BY <1>6 DEF PageRun
<1> HIDE DEF g5
<1>8. [p \in Pages |-> NoFile] \in [Pages -> FileState]
  BY DEF NoFile, FileState
<1>9. /\ g \in PageRun /\ g.pc = "pages" /\ g.row = NoDoc
      /\ g.walked = run[i].walked /\ g.stamp = run[i].stamp /\ g.alias = run[i].alias
      /\ g.got = [p \in Pages |-> NoFile]
  BY <1>7, <1>8 DEF PageRun
<1> HIDE DEF g
<1>10. RunIsTrue(run[i], kind[i], file, now, hidden, table, last)
  BY FollowedRuns
<1>11. StepIsOfKind(g, kind[i])
  BY <1>9 DEF StepIsOfKind
<1>12. \A p \in Pages : IdIsOf(g.alias[p], p, table, last)
  BY <1>9, <1>10 DEF RunIsTrue
<1>13. IdIsOf(g.row, g.page, table, last)
  BY <1>9 DEF IdIsOf
<1>14. \A p \in Pages : g.got[p] \in {run[i].got[p], NoFile}
  BY <1>9
<1>15. RunIsTrue(g, kind[i], file, now, hidden, table, last)
  BY <1>1, <1>9, <1>10, <1>11, <1>12, <1>13, <1>14, VaultRunMoves
<1> QED BY <1>2, <1>9, <1>15

LEMMA WalkKeepsPages == ASSUME PageInv, NEW i \in Indexers, Walk(i) PROVE PageInv'
<1>1. /\ run[i] = Idle /\ kind[i] \in Kinds
      /\ file \in [Pages -> FileState] /\ (\A p \in Pages : file[p].mtime <= now)
      /\ now \in Nat
  <2>1. RunIsTrue(run[i], kind[i], file, now, hidden, docs, lastDoc) /\ run[i].pc = "idle"
    BY DEF PageInv, Walk, PageAt
  <2>2. kind[i] \in Kinds
    BY PageConstants DEF PageInv, PageShape, Walk, Kinds
  <2> QED BY <2>1, <2>2 DEF PageInv, PageShape, RunIsTrue, StepIsOfKind
<1> DEFINE g1 == [run[i] EXCEPT !.walked = [p \in Pages |-> file[p].mtime]]
           g2 == [g1 EXCEPT !.todo = {p \in Pages : file[p] # NoFile}]
           g  == [g2 EXCEPT !.pc = IF kind[i] = "vault" THEN "aliases" ELSE "parse"]
<1>2. run' = [run EXCEPT ![i] = g]
  BY DEF Walk, Becomes
<1>3. [p \in Pages |-> file[p].mtime] \in [Pages -> Nat]
  BY <1>1 DEF FileState
<1>4. /\ g1 \in PageRun /\ g1.got = Idle.got /\ g1.stamp = Idle.stamp /\ g1.alias = Idle.alias
      /\ g1.row = NoDoc /\ g1.walked = [p \in Pages |-> file[p].mtime]
  BY <1>1, <1>3, IdleIsRun DEF PageRun
<1> HIDE DEF g1
<1>5. /\ g2 \in PageRun /\ g2.got = Idle.got /\ g2.stamp = Idle.stamp /\ g2.alias = Idle.alias
      /\ g2.row = NoDoc /\ g2.walked = [p \in Pages |-> file[p].mtime]
  BY <1>4 DEF PageRun
<1> HIDE DEF g2
<1>6. /\ g \in PageRun /\ g.got = Idle.got /\ g.stamp = Idle.stamp /\ g.alias = Idle.alias
      /\ g.row = NoDoc /\ g.walked = [p \in Pages |-> file[p].mtime]
      /\ g.pc = IF kind[i] = "vault" THEN "aliases" ELSE "parse"
  BY <1>5 DEF PageRun
<1> HIDE DEF g
<1>7. StepIsOfKind(g, kind[i])
  BY <1>1, <1>6 DEF StepIsOfKind, Kinds
<1>8. ASSUME NEW p \in Pages PROVE ReadIsTrue(p, g, kind[i], file, now, hidden)
  <2>1. g.walked[p] = file[p].mtime /\ g.got[p] = NoFile /\ g.stamp[p] = 0 /\ file[p].mtime \in Nat
    BY <1>1, <1>6, IdleIsRun DEF FileState
  <2> QED BY <1>1, <2>1 DEF ReadIsTrue
<1>9. ASSUME NEW p \in Pages PROVE IdIsOf(g.alias[p], p, docs, lastDoc)
  BY <1>6, IdleIsRun DEF IdIsOf
<1>10. IdIsOf(g.row, g.page, docs, lastDoc)
  BY <1>6 DEF IdIsOf
<1>11. UNCHANGED <<file, now, docs, lastDoc, kind, hidden>>
  BY DEF Walk
<1>12. RunIsTrue(g, kind[i], file, now, hidden, docs', lastDoc')
  BY <1>7, <1>8, <1>9, <1>10, <1>11 DEF RunIsTrue
<1>13. RowsFollow(docs', lastDoc')
  BY <1>11, RowsStay
<1> QED BY <1>2, <1>6, <1>11, <1>12, <1>13, FollowedPages

LEMMA VaultFacts ==
    ASSUME PageInv, NEW i \in Indexers,
           run[i].pc \in {"aliases", "pages", "unchanged", "read", "write"}
    PROVE  /\ kind[i] = "vault" /\ ~Ingesting
           /\ RunIsTrue(run[i], kind[i], file, now, hidden, docs, lastDoc)
           /\ run[i] \in PageRun /\ docs \in [Doc -> PageRow]
           /\ lastDoc \in Nat /\ now \in Nat
           /\ run[i].pc \in {"unchanged", "read", "write"} => run[i].page \in Pages
           /\ run[i].pc = "write" => run[i].got[run[i].page].says \in Frontmatter
<1>1. RunIsTrue(run[i], kind[i], file, now, hidden, docs, lastDoc)
  BY DEF PageInv
<1>2. kind[i] = "vault"
  BY <1>1 DEF RunIsTrue, StepIsOfKind
<1>3. ~Ingesting
  <2> SUFFICES ASSUME NEW j \in Indexers, kind[j] = "ingest" PROVE FALSE
    BY DEF Ingesting
  <2>1. kind \in Mixes
    BY DEF PageInv, PageShape
  <2> QED BY <1>2, <2>1, PageConstants
<1> QED BY <1>1, <1>2, <1>3 DEF PageInv, PageShape, RunIsTrue, StepIsOfKind

LEMMA RowsOfPage ==
    ASSUME PageInv, NEW p \in Pages
    PROVE  /\ RowsOf(p) \subseteq Doc /\ Canonical(p) \subseteq RowsOf(p)
           /\ \A d \in RowsOf(p) : docs[d].page = p /\ IdIsOf(d, p, docs, lastDoc)
<1>1. ASSUME NEW d \in RowsOf(p) PROVE docs[d].page = p /\ IdIsOf(d, p, docs, lastDoc)
  <2>1. d \in Doc /\ docs[d].page = p
    BY DEF RowsOf
  <2>2. docs[d] # Blank
    BY <2>1, PageConstants DEF Blank
  <2>3. d <= lastDoc
    BY <2>1, <2>2 DEF PageInv, PageShape, NumbersAreFresh, Doc
  <2> QED BY <2>1, <2>3 DEF IdIsOf
<1> QED BY <1>1 DEF RowsOf, Canonical

LEMMA AliasesKeepPages == ASSUME PageInv, NEW i \in Indexers, CollectAliases(i) PROVE PageInv'
<1> DEFINE aliases(p) == RowsOf(p) \ Canonical(p)
           extra == UNION {aliases(p) \ {One(aliases(p))} : p \in Pages}
           g1 == [run[i] EXCEPT !.alias = [p \in Pages |-> One(aliases(p))]]
           g  == [g1 EXCEPT !.pc = "pages"]
<1>1. /\ run[i].pc = "aliases"
      /\ docs' = [d \in Doc |-> IF d \in extra THEN Blank ELSE docs[d]]
      /\ run' = [run EXCEPT ![i] = g]
      /\ UNCHANGED <<file, now, lastDoc, kind, hidden>>
  BY DEF CollectAliases, PageAt, Becomes
<1>2. /\ kind[i] = "vault" /\ run[i] \in PageRun /\ lastDoc \in Nat
  BY <1>1, VaultFacts
<1>3. RowsFollow(docs', lastDoc')
  <2> HIDE DEF extra
  <2> QED BY <1>1, RowsGo
<1>4. ASSUME NEW p \in Pages
      PROVE  One(aliases(p)) \in Doc \cup {NoDoc} /\ IdIsOf(One(aliases(p)), p, docs, lastDoc)
  <2>1. aliases(p) \in SUBSET Doc /\ aliases(p) \subseteq RowsOf(p)
    BY RowsOfPage
  <2>2. One(aliases(p)) \in Doc \cup {NoDoc} /\ (One(aliases(p)) # NoDoc => One(aliases(p)) \in aliases(p))
    BY <2>1, OneIsOf
  <2>3. CASE One(aliases(p)) = NoDoc
    BY <2>2, <2>3 DEF IdIsOf
  <2>4. CASE One(aliases(p)) \in aliases(p)
    BY <2>1, <2>2, <2>4, RowsOfPage
  <2> QED BY <2>2, <2>3, <2>4
<1> HIDE DEF aliases, extra
<1>5. [p \in Pages |-> One(aliases(p))] \in [Pages -> Doc \cup {NoDoc}]
  BY <1>4
<1>6. /\ g1 \in PageRun /\ g1.alias = [p \in Pages |-> One(aliases(p))]
      /\ g1.got = run[i].got /\ g1.stamp = run[i].stamp /\ g1.walked = run[i].walked
      /\ g1.row = run[i].row /\ g1.page = run[i].page
  BY <1>2, <1>5 DEF PageRun
<1> HIDE DEF g1
<1>7. /\ g \in PageRun /\ g.alias = [p \in Pages |-> One(aliases(p))] /\ g.pc = "pages"
      /\ g.got = run[i].got /\ g.stamp = run[i].stamp /\ g.walked = run[i].walked
      /\ g.row = run[i].row /\ g.page = run[i].page
  BY <1>6 DEF PageRun
<1> HIDE DEF g
<1>8. RunIsTrue(run[i], kind[i], file, now, hidden, docs', lastDoc')
  BY <1>3, FollowedRuns
<1>9. StepIsOfKind(g, kind[i])
  BY <1>2, <1>7 DEF StepIsOfKind
<1>10. ASSUME NEW p \in Pages PROVE IdIsOf(g.alias[p], p, docs', lastDoc')
  <2>1. \A e \in Doc : e <= lastDoc => docs'[e].page \in {docs[e].page, NoPage}
    BY <1>3 DEF RowsFollow
  <2>2. g.alias[p] = One(aliases(p)) /\ lastDoc' = lastDoc
    BY <1>1, <1>7
  <2> QED BY <1>2, <1>4, <2>1, <2>2, IdStays
<1>11. \A p \in Pages : g.got[p] \in {run[i].got[p], NoFile}
  BY <1>7
<1>12. IdIsOf(g.row, g.page, docs', lastDoc')
  BY <1>7, <1>8 DEF RunIsTrue
<1>13. RunIsTrue(g, kind[i], file, now, hidden, docs', lastDoc')
  BY <1>2, <1>7, <1>8, <1>9, <1>10, <1>11, <1>12, VaultRunMoves
<1> QED BY <1>1, <1>3, <1>7, <1>13, FollowedPages

LEMMA LookUpKeepsPages == ASSUME PageInv, NEW i \in Indexers, LookUp(i) PROVE PageInv'
<1>1. PICK p \in run[i].todo :
        LET mine == One(Canonical(p))
            other == run[i].alias[p]
            entry == IF mine = NoDoc THEN other ELSE mine
            seen == IF entry = NoDoc THEN Blank ELSE docs[entry]
        IN  /\ docs' = IF mine # NoDoc /\ other \notin {NoDoc, mine}
                       THEN [docs EXCEPT ![other] = Blank] ELSE docs
            /\ Becomes(i, [run[i] EXCEPT
                  !.page = p, !.row = entry, !.seen = seen,
                  !.pc = IF entry # NoDoc /\ seen.mtime >= run[i].walked[p]
                            THEN "unchanged" ELSE "read"])
  BY DEF LookUp
<1> DEFINE mine == One(Canonical(p))
           other == run[i].alias[p]
           entry == IF mine = NoDoc THEN other ELSE mine
           seen == IF entry = NoDoc THEN Blank ELSE docs[entry]
           pc == IF entry # NoDoc /\ seen.mtime >= run[i].walked[p] THEN "unchanged" ELSE "read"
           g1 == [run[i] EXCEPT !.page = p]
           g2 == [g1 EXCEPT !.row = entry]
           g3 == [g2 EXCEPT !.seen = seen]
           g  == [g3 EXCEPT !.pc = pc]
<1>2. run' = [run EXCEPT ![i] = g]
  BY <1>1 DEF Becomes
<1>3. /\ run[i].pc = "pages" /\ UNCHANGED <<file, now, lastDoc, kind, hidden>>
  BY DEF LookUp, PageAt
<1>4. /\ kind[i] = "vault" /\ run[i] \in PageRun /\ lastDoc \in Nat /\ docs \in [Doc -> PageRow]
      /\ RunIsTrue(run[i], kind[i], file, now, hidden, docs, lastDoc)
  BY <1>3, VaultFacts
<1>5. p \in Pages
  BY <1>4 DEF PageRun
<1>6. mine \in Doc \cup {NoDoc} /\ IdIsOf(mine, p, docs, lastDoc)
  <2>1. Canonical(p) \in SUBSET Doc
    BY <1>5, RowsOfPage
  <2>2. mine \in Doc \cup {NoDoc} /\ (mine # NoDoc => mine \in Canonical(p))
    BY <2>1, OneIsOf
  <2>3. CASE mine = NoDoc
    BY <2>2, <2>3 DEF IdIsOf
  <2>4. CASE mine \in Canonical(p)
    BY <1>5, <2>2, <2>4, RowsOfPage
  <2> QED BY <2>2, <2>3, <2>4
<1>7. other \in Doc \cup {NoDoc} /\ IdIsOf(other, p, docs, lastDoc)
  BY <1>4, <1>5 DEF PageRun, RunIsTrue
<1>8. entry \in Doc \cup {NoDoc} /\ IdIsOf(entry, p, docs, lastDoc)
  BY <1>6, <1>7
<1>9. seen \in PageRow
  BY <1>4, <1>8, BlankIsTrue
<1>10. pc \in {"unchanged", "read"}
  OBVIOUS
<1>11. docs' = IF mine # NoDoc /\ other \notin {NoDoc, mine}
               THEN [docs EXCEPT ![other] = Blank] ELSE docs
  BY <1>1
<1> HIDE DEF mine, other, entry, seen, pc
<1>12. RowsFollow(docs', lastDoc')
  <2> DEFINE gone == IF mine # NoDoc /\ other \notin {NoDoc, mine} THEN {other} ELSE {}
  <2>1. docs' = [d \in Doc |-> IF d \in gone THEN Blank ELSE docs[d]]
    BY <1>4, <1>11
  <2> HIDE DEF gone
  <2> QED BY <1>3, <2>1, RowsGo
<1>13. /\ g1 \in PageRun /\ g1.page = p
       /\ g1.got = run[i].got /\ g1.stamp = run[i].stamp /\ g1.walked = run[i].walked
       /\ g1.alias = run[i].alias
  BY <1>4, <1>5 DEF PageRun
<1> HIDE DEF g1
<1>14. /\ g2 \in PageRun /\ g2.page = p /\ g2.row = entry
       /\ g2.got = run[i].got /\ g2.stamp = run[i].stamp /\ g2.walked = run[i].walked
       /\ g2.alias = run[i].alias
  BY <1>8, <1>13 DEF PageRun
<1> HIDE DEF g2
<1>15. /\ g3 \in PageRun /\ g3.page = p /\ g3.row = entry
       /\ g3.got = run[i].got /\ g3.stamp = run[i].stamp /\ g3.walked = run[i].walked
       /\ g3.alias = run[i].alias
  BY <1>9, <1>14 DEF PageRun
<1> HIDE DEF g3
<1>16. /\ g \in PageRun /\ g.page = p /\ g.row = entry /\ g.pc = pc
       /\ g.got = run[i].got /\ g.stamp = run[i].stamp /\ g.walked = run[i].walked
       /\ g.alias = run[i].alias
  BY <1>10, <1>15 DEF PageRun
<1> HIDE DEF g
<1>17. RunIsTrue(run[i], kind[i], file, now, hidden, docs', lastDoc')
  BY <1>12, FollowedRuns
<1>18. StepIsOfKind(g, kind[i])
  BY <1>4, <1>5, <1>10, <1>16 DEF StepIsOfKind
<1>19. \A q \in Pages : IdIsOf(g.alias[q], q, docs', lastDoc')
  BY <1>16, <1>17 DEF RunIsTrue
<1>20. IdIsOf(g.row, g.page, docs', lastDoc')
  <2>1. \A e \in Doc : e <= lastDoc => docs'[e].page \in {docs[e].page, NoPage}
    BY <1>12 DEF RowsFollow
  <2>2. g.row = entry /\ g.page = p /\ lastDoc' = lastDoc
    BY <1>3, <1>16
  <2> QED BY <1>4, <1>8, <2>1, <2>2, IdStays
<1>21. \A q \in Pages : g.got[q] \in {run[i].got[q], NoFile}
  BY <1>16
<1>22. RunIsTrue(g, kind[i], file, now, hidden, docs', lastDoc')
  BY <1>4, <1>16, <1>17, <1>18, <1>19, <1>20, <1>21, VaultRunMoves
<1> QED BY <1>2, <1>3, <1>12, <1>16, <1>22, FollowedPages

LEMMA UnchangedKeepsPages == ASSUME PageInv, NEW i \in Indexers, KeepUnchanged(i) PROVE PageInv'
<1> DEFINE r == run[i].row
           p == run[i].page
           stripped == [docs[r] EXCEPT !.vecs =
                          IF run[i].seen.status \in Unembedded THEN 0 ELSE @]
           strip == [docs EXCEPT ![r] = stripped]
<1>1. /\ run[i].pc = "unchanged" /\ NextPage(i)
      /\ UNCHANGED <<file, now, lastDoc, kind, hidden>>
      /\ docs' = IF docs[r] # Blank /\ ~run[i].seen.canon /\ Canonical(p) = {}
                 THEN [strip EXCEPT ![r] = [strip[r] EXCEPT !.canon = TRUE]] ELSE strip
  BY DEF KeepUnchanged, PageAt
<1>2. /\ kind[i] = "vault" /\ run[i] \in PageRun /\ docs \in [Doc -> PageRow] /\ lastDoc \in Nat
      /\ RunIsTrue(run[i], kind[i], file, now, hidden, docs, lastDoc) /\ p \in Pages
  BY <1>1, VaultFacts
<1>3. r \in Doc \cup {NoDoc} /\ IdIsOf(r, p, docs, lastDoc)
  BY <1>2 DEF PageRun, RunIsTrue
<1>4. RowsFollow(docs', lastDoc')
  <2>1. CASE r = NoDoc
    <3>1. r \notin Doc
      BY <2>1 DEF NoDoc, Doc
    <3>2. docs' = docs
      BY <1>1, <1>2, <3>1
    <3> QED BY <1>1, <3>2, RowsStay
  <2>2. CASE r # NoDoc
    <3>1. r \in Doc /\ r <= lastDoc /\ docs[r].page \in {p, NoPage}
      BY <1>3, <2>2 DEF IdIsOf
    <3>2. docs[r] \in PageRow /\ RowIsTrue(docs[r], file, now, hidden, Ingesting)
      BY <1>2, <3>1 DEF PageInv
    <3>3. /\ stripped \in PageRow
          /\ stripped.page = docs[r].page /\ stripped.mtime = docs[r].mtime
          /\ stripped.stamp = docs[r].stamp /\ stripped.status = docs[r].status
          /\ stripped.text = docs[r].text /\ stripped.vecs \in {0, docs[r].vecs}
          /\ stripped.canon = docs[r].canon
      BY <3>2 DEF PageRow
    <3> DEFINE kept == [stripped EXCEPT !.canon = TRUE]
    <3>4. strip[r] = stripped
      BY <1>2, <3>1
    <3>5. docs' = IF docs[r] # Blank /\ ~run[i].seen.canon /\ Canonical(p) = {}
                  THEN [docs EXCEPT ![r] = kept] ELSE [docs EXCEPT ![r] = stripped]
      BY <1>1, <1>2, <3>1, <3>4
    <3> HIDE DEF stripped
    <3>6. /\ kept \in PageRow
          /\ kept.page = docs[r].page /\ kept.mtime = docs[r].mtime
          /\ kept.stamp = docs[r].stamp /\ kept.status = docs[r].status
          /\ kept.text = docs[r].text /\ kept.vecs \in {0, docs[r].vecs}
      BY <3>3 DEF PageRow
    <3> HIDE DEF kept
    <3>7. RowIsTrue(stripped, file, now, hidden, Ingesting)
          /\ RowIsTrue(kept, file, now, hidden, Ingesting)
      BY <3>2, <3>3, <3>6 DEF RowIsTrue
    <3>8. docs[r].page \notin Virtual
      BY <1>2, <3>1, PageConstants
    <3>9. CASE docs' = [docs EXCEPT ![r] = stripped]
      <4>1. docs[r].page \in Pages /\ stripped.canon =>
               \A e \in Doc : docs[e].page = docs[r].page /\ docs[e].canon => e = r
        BY <3>1, <3>3 DEF PageInv, PathsDiffer
      <4>2. /\ stripped.page \in Pages /\ stripped.canon =>
                  \A e \in Doc : docs[e].page = stripped.page /\ docs[e].canon => e = r
            /\ stripped.page \in {docs[r].page, NoPage} /\ stripped.page \notin Virtual
            /\ lastDoc <= lastDoc
        BY <1>2, <3>3, <3>8, <4>1
      <4>3. RowsFollow(docs', lastDoc)
        BY <1>2, <3>1, <3>3, <3>7, <3>9, <4>2, RowIsWritten
      <4> QED BY <1>1, <4>3
    <3>10. CASE docs' = [docs EXCEPT ![r] = kept] /\ Canonical(p) = {}
      <4>1. docs[r].page \in Pages =>
               \A e \in Doc : docs[e].page = docs[r].page /\ docs[e].canon => e = r
        BY <3>1, <3>10, PageConstants DEF Canonical, RowsOf
      <4>2. /\ kept.page \in Pages /\ kept.canon =>
                  \A e \in Doc : docs[e].page = kept.page /\ docs[e].canon => e = r
            /\ kept.page \in {docs[r].page, NoPage} /\ kept.page \notin Virtual
            /\ lastDoc <= lastDoc
        BY <1>2, <3>6, <3>8, <4>1
      <4>3. RowsFollow(docs', lastDoc)
        BY <1>2, <3>1, <3>6, <3>7, <3>10, <4>2, RowIsWritten
      <4> QED BY <1>1, <4>3
    <3> QED BY <3>5, <3>9, <3>10
  <2> QED BY <2>1, <2>2
<1>5. PICK g \in PageRun : /\ run' = [run EXCEPT ![i] = g]
                           /\ RunIsTrue(g, kind[i], file, now, hidden, docs', lastDoc')
  BY <1>1, <1>2, <1>4, NextPageIsRun
<1> QED BY <1>1, <1>4, <1>5, FollowedPages

LEMMA ReadKeepsPages == ASSUME PageInv, NEW i \in Indexers, ReadPage(i) PROVE PageInv'
<1> DEFINE p == run[i].page
           got == [run[i].got EXCEPT ![p] = file[p]]
           g1 == [run[i] EXCEPT !.got = got]
           g  == [g1 EXCEPT !.pc = "write"]
<1>1. /\ run[i].pc = "read" /\ UNCHANGED <<file, now, docs, lastDoc, kind, hidden>>
      /\ \/ NextPage(i)
         \/ file[p] # NoFile /\ run' = [run EXCEPT ![i] = g]
  BY DEF ReadPage, PageAt, Becomes
<1>2. /\ kind[i] = "vault" /\ run[i] \in PageRun
      /\ RunIsTrue(run[i], kind[i], file, now, hidden, docs, lastDoc) /\ p \in Pages
  BY <1>1, VaultFacts
<1>3. RowsFollow(docs', lastDoc')
  BY <1>1, RowsStay
<1>4. CASE NextPage(i)
  <2>1. PICK h \in PageRun : /\ run' = [run EXCEPT ![i] = h]
                             /\ RunIsTrue(h, kind[i], file, now, hidden, docs', lastDoc')
    BY <1>2, <1>3, <1>4, NextPageIsRun
  <2> QED BY <1>1, <1>3, <2>1, FollowedPages
<1>5. CASE file[p] # NoFile /\ run' = [run EXCEPT ![i] = g]
  <2>1. /\ file[p] \in FileState /\ file[p].says \in Frontmatter /\ file[p].mtime \in Nat
        /\ file[p].mtime <= now
    BY <1>2, <1>5 DEF PageInv, PageShape, FileState
  <2>2. /\ got \in [Pages -> FileState]
        /\ \A q \in Pages : got[q] = IF q = p THEN file[p] ELSE run[i].got[q]
    BY <1>2, <2>1 DEF PageRun
  <2> HIDE DEF got
  <2>3. /\ g1 \in PageRun /\ g1.got = got /\ g1.walked = run[i].walked
        /\ g1.stamp = run[i].stamp /\ g1.alias = run[i].alias /\ g1.row = run[i].row
        /\ g1.page = p
    BY <1>2, <2>2 DEF PageRun
  <2> HIDE DEF g1
  <2>4. /\ g \in PageRun /\ g.got = got /\ g.walked = run[i].walked
        /\ g.stamp = run[i].stamp /\ g.alias = run[i].alias /\ g.row = run[i].row
        /\ g.page = p /\ g.pc = "write"
    BY <2>3 DEF PageRun
  <2> HIDE DEF g
  <2>5. ASSUME NEW q \in Pages PROVE ReadIsTrue(q, g, kind[i], file, now, hidden)
    <3>1. ReadIsTrue(q, run[i], kind[i], file, now, hidden)
      BY <1>2 DEF RunIsTrue
    <3>2. g.got[q] = IF q = p THEN file[p] ELSE run[i].got[q]
      BY <2>2, <2>4
    <3>3. kind[i] # "ingest" /\ g.walked[q] = run[i].walked[q] /\ g.stamp[q] = run[i].stamp[q]
      BY <1>2, <2>4
    <3> QED BY <1>5, <2>1, <3>1, <3>2, <3>3 DEF ReadIsTrue
  <2>6. StepIsOfKind(g, kind[i])
    BY <1>2, <2>1, <2>2, <2>4 DEF StepIsOfKind
  <2>7. RunIsTrue(g, kind[i], file, now, hidden, docs, lastDoc)
    BY <1>2, <2>4, <2>5, <2>6 DEF RunIsTrue
  <2>8. RunIsTrue(g, kind[i], file, now, hidden, docs', lastDoc')
    BY <1>1, <2>7
  <2> QED BY <1>1, <1>3, <1>5, <2>4, <2>8, FollowedPages
<1> QED BY <1>1, <1>4, <1>5

LEMMA WriteKeepsPages ==
    ASSUME PageInv, NEW i \in Indexers, WritePage(i)
    PROVE  /\ PageInv'
           /\ \A d \in Doc : docs[d].page \in Virtual => docs'[d] = docs[d]
<1> DEFINE p == run[i].page
           r == run[i].row
           got == run[i].got[p]
           status == VaultStatus(got.says)
           fresh == Fresh(p, got, run[i].walked[p], status, status \notin Unembedded)
<1>1. /\ run[i].pc = "write" /\ NextPage(i)
      /\ UNCHANGED <<file, now, kind, hidden>>
  BY DEF WritePage, PageAt
<1>2. /\ kind[i] = "vault" /\ run[i] \in PageRun /\ docs \in [Doc -> PageRow] /\ ~Ingesting
      /\ lastDoc \in Nat /\ now \in Nat
      /\ RunIsTrue(run[i], kind[i], file, now, hidden, docs, lastDoc) /\ p \in Pages
      /\ got.says \in Frontmatter
  BY <1>1, VaultFacts
<1>3. r \in Doc \cup {NoDoc} /\ (r # NoDoc => r \in Doc /\ r <= lastDoc /\ docs[r].page \in {p, NoPage})
  BY <1>2 DEF PageRun, RunIsTrue, IdIsOf
<1>4. /\ got \in FileState /\ got # NoFile /\ got.mtime \in Nat /\ run[i].walked[p] \in Nat
      /\ run[i].walked[p] <= got.mtime /\ got.mtime <= now
      /\ file[p] # NoFile => got.mtime <= file[p].mtime
  <2>1. ReadIsTrue(p, run[i], kind[i], file, now, hidden)
    BY <1>2 DEF RunIsTrue
  <2>2. got \in FileState /\ run[i].walked[p] \in Nat
    BY <1>2 DEF PageRun
  <2>3. got # NoFile /\ got.mtime \in Nat
    BY <1>2, <2>2 DEF NoFile, Frontmatter, FileState
  <2> QED BY <2>1, <2>2, <2>3 DEF ReadIsTrue
<1>5. status \in Frontmatter \cup {"candidate"}
  BY <1>2 DEF VaultStatus
<1>6. p # NoPage /\ p \notin Virtual /\ NoPage \notin Virtual /\ NoPage \notin Pages
  BY <1>2, PageConstants
<1>7. /\ fresh.page = p /\ fresh.canon = TRUE /\ fresh.mtime = run[i].walked[p]
      /\ fresh.stamp = now /\ fresh.status = status /\ fresh.text = got.mtime
      /\ fresh.vecs \in {0, got.mtime}
  BY DEF Fresh
<1>8. fresh \in PageRow
  <2> HIDE DEF got, status
  <2> QED BY <1>2, <1>4, <1>5 DEF Fresh, PageRow
<1>9. \/ /\ lastDoc' = lastDoc
         /\ docs' = (IF r = NoDoc THEN docs ELSE [docs EXCEPT ![r] = Blank])
      \/ /\ lastDoc' = lastDoc /\ r # NoDoc /\ docs[r].page = NoPage
         /\ docs' = (IF fresh.vecs > 0 THEN docs
                     ELSE [docs EXCEPT ![r] = [docs[r] EXCEPT !.text = fresh.text]])
      \/ lastDoc' = lastDoc /\ docs' = docs
      \/ /\ ~(r # NoDoc /\ docs[r].page = NoPage) /\ Canonical(p) \ {r} = {}
         /\ r = NoDoc => lastDoc < MaxDoc
         /\ lastDoc' = IF r = NoDoc THEN lastDoc + 1 ELSE lastDoc
         /\ docs' = [docs EXCEPT ![IF r = NoDoc THEN lastDoc' ELSE r] = fresh]
  <2> HIDE DEF fresh
  <2> QED BY DEF WritePage, fresh
<1> HIDE DEF fresh
<1>10. RowsFollow(docs', lastDoc') /\ \A d \in Doc : docs[d].page \in Virtual => docs'[d] = docs[d]
  <2>1. CASE lastDoc' = lastDoc /\ docs' = docs
    BY <2>1, RowsStay
  <2>2. CASE lastDoc' = lastDoc /\ docs' = (IF r = NoDoc THEN docs ELSE [docs EXCEPT ![r] = Blank])
    <3> DEFINE S == IF r = NoDoc THEN {} ELSE {r}
    <3>1. docs' = [d \in Doc |-> IF d \in S THEN Blank ELSE docs[d]]
      BY <1>2, <2>2
    <3>2. \A d \in Doc : docs[d].page \in Virtual => docs'[d] = docs[d]
      BY <1>3, <1>6, <3>1
    <3> HIDE DEF S
    <3> QED BY <2>2, <3>1, <3>2, RowsGo
  <2>3. CASE /\ lastDoc' = lastDoc /\ r # NoDoc /\ docs[r].page = NoPage
             /\ fresh.vecs = 0
             /\ docs' = [docs EXCEPT ![r] = [docs[r] EXCEPT !.text = fresh.text]]
    <3> DEFINE entry == [docs[r] EXCEPT !.text = fresh.text]
    <3>1. docs[r] \in PageRow /\ RowIsTrue(docs[r], file, now, hidden, Ingesting)
      BY <1>2, <1>3, <2>3 DEF PageInv
    <3>2. /\ entry \in PageRow /\ entry.page = NoPage /\ entry.text = got.mtime
          /\ entry.stamp = docs[r].stamp /\ entry.vecs = docs[r].vecs
      BY <1>4, <1>7, <2>3, <3>1 DEF PageRow
    <3> HIDE DEF entry
    <3>3. RowIsTrue(entry, file, now, hidden, Ingesting)
      BY <1>4, <1>6, <2>3, <3>1, <3>2 DEF RowIsTrue
    <3>4. docs' = [docs EXCEPT ![r] = entry]
      BY <2>3 DEF entry
    <3>7. /\ r \in Doc /\ r <= lastDoc /\ entry.page \notin Pages /\ entry.page \notin Virtual
          /\ entry.page \in {docs[r].page, NoPage} /\ lastDoc <= lastDoc
      BY <1>2, <1>3, <1>6, <2>3, <3>2
    <3>5. RowsFollow(docs', lastDoc)
      BY <1>2, <3>2, <3>3, <3>4, <3>7, RowIsWritten
    <3>6. \A d \in Doc : docs[d].page \in Virtual => docs'[d] = docs[d]
      BY <1>2, <1>3, <1>6, <2>3, <3>4
    <3> QED BY <2>3, <3>5, <3>6
  <2>4. CASE /\ ~(r # NoDoc /\ docs[r].page = NoPage) /\ Canonical(p) \ {r} = {}
             /\ r = NoDoc => lastDoc < MaxDoc
             /\ lastDoc' = IF r = NoDoc THEN lastDoc + 1 ELSE lastDoc
             /\ docs' = [docs EXCEPT ![IF r = NoDoc THEN lastDoc' ELSE r] = fresh]
    <3> DEFINE d0 == IF r = NoDoc THEN lastDoc' ELSE r
    <3>1. /\ d0 \in Doc /\ lastDoc' \in Nat /\ lastDoc <= lastDoc' /\ d0 <= lastDoc'
          /\ d0 <= lastDoc => d0 = r /\ r # NoDoc
      BY <1>2, <1>3, <2>4, PageConstants DEF Doc, NoDoc
    <3>2. d0 <= lastDoc => docs[d0].page = p
      BY <1>3, <2>4, <3>1
    <3>3. RowIsTrue(fresh, file, now, hidden, Ingesting)
      BY <1>2, <1>4, <1>6, <1>7 DEF RowIsTrue
    <3>4. \A e \in Doc : docs[e].page = p /\ docs[e].canon => e = d0
      <4>1. ASSUME NEW e \in Doc, docs[e].page = p, docs[e].canon PROVE e = d0
        <5>1. e \in Canonical(p)
          BY <4>1 DEF Canonical, RowsOf
        <5>2. e = r
          BY <2>4, <5>1
        <5>3. r # NoDoc
          BY <4>1, <5>2 DEF Doc, NoDoc
        <5> QED BY <5>2, <5>3
      <4> QED BY <4>1
    <3>5. docs' = [docs EXCEPT ![d0] = fresh]
      BY <2>4
    <3>6. \A d \in Doc : docs[d].page \in Virtual => docs'[d] = docs[d]
      <4>1. docs[d0].page \notin Virtual
        <5>1. CASE d0 <= lastDoc
          BY <1>6, <3>2, <5>1
        <5>2. CASE ~(d0 <= lastDoc)
          <6>1. docs[d0] = Blank
            BY <1>2, <3>1, <5>2 DEF PageInv, NumbersAreFresh, Doc
          <6> QED BY <1>6, <6>1 DEF Blank
        <5> QED BY <5>1, <5>2
      <4> QED BY <1>2, <3>1, <3>5, <4>1
    <3> HIDE DEF d0
    <3>7. RowsFollow(docs', lastDoc')
      BY <1>6, <1>7, <1>8, <3>1, <3>2, <3>3, <3>4, <3>5, RowIsWritten
    <3> QED BY <3>6, <3>7
  <2>5. fresh.vecs > 0 \/ fresh.vecs = 0
    BY <1>4, <1>7
  <2> QED BY <1>9, <2>1, <2>2, <2>3, <2>4, <2>5
<1>11. PICK g \in PageRun : /\ run' = [run EXCEPT ![i] = g]
                            /\ RunIsTrue(g, kind[i], file, now, hidden, docs', lastDoc')
  BY <1>1, <1>2, <1>10, NextPageIsRun
<1> QED BY <1>1, <1>10, <1>11, FollowedPages

LEMMA PruneKeepsPages ==
    ASSUME PageInv, NEW i \in Indexers, Prune(i)
    PROVE  /\ PageInv'
           /\ \A d \in Doc : docs[d].page \in Virtual => docs'[d] = docs[d]
<1> DEFINE S == {d \in Doc : docs[d].page \in {p \in Pages : run[i].walked[p] = 0}}
<1>1. /\ docs' = [d \in Doc |-> IF d \in S THEN Blank ELSE docs[d]]
      /\ run' = [run EXCEPT ![i] = Idle] /\ UNCHANGED <<file, now, lastDoc, kind, hidden>>
  BY DEF Prune, Becomes
<1>2. \A d \in Doc : docs[d].page \in Virtual => docs'[d] = docs[d]
  BY <1>1, PageConstants
<1> HIDE DEF S
<1>3. RowsFollow(docs', lastDoc')
  BY <1>1, RowsGo
<1>4. Idle \in PageRun /\ RunIsTrue(Idle, kind[i], file, now, hidden, docs', lastDoc')
  BY IdleIsRun, IdleIsTrue DEF PageInv, PageShape
<1> QED BY <1>1, <1>2, <1>3, <1>4, FollowedPages

LEMMA RunFacts ==
    ASSUME PageInv, NEW i \in Indexers, run[i].pc \in {"parse", "stamp", "commit"}
    PROVE  /\ kind[i] \in {"wiki", "ingest"} /\ (Ingesting => kind[i] = "ingest")
           /\ \A d \in Doc : docs[d].page \notin Virtual
           /\ RunIsTrue(run[i], kind[i], file, now, hidden, docs, lastDoc)
           /\ run[i] \in PageRun /\ docs \in [Doc -> PageRow]
           /\ lastDoc \in Nat /\ now \in Nat
           /\ run[i].pc = "stamp" => run[i].page \in Pages
           /\ run[i].row = NoDoc
<1>1. RunIsTrue(run[i], kind[i], file, now, hidden, docs, lastDoc)
  BY DEF PageInv
<1>2. kind[i] \in {"wiki", "ingest"}
  BY <1>1 DEF RunIsTrue, StepIsOfKind
<1>3. Ingesting => kind[i] = "ingest"
  <2> SUFFICES ASSUME NEW j \in Indexers, kind[j] = "ingest" PROVE kind[i] = "ingest"
    BY DEF Ingesting
  <2>1. kind \in Mixes
    BY DEF PageInv, PageShape
  <2> QED BY <1>2, <2>1, PageConstants
<1>4. \A d \in Doc : docs[d].page \notin Virtual
  BY <1>2 DEF PageInv, StraysAreOfVault
<1> QED BY <1>1, <1>2, <1>3, <1>4 DEF PageInv, PageShape, RunIsTrue, StepIsOfKind

LEMMA ParseKeepsPages == ASSUME PageInv, NEW i \in Indexers, ParsePage(i) PROVE PageInv'
<1>1. /\ run[i].pc = "parse" /\ UNCHANGED <<file, now, docs, lastDoc, kind, hidden>>
  BY DEF ParsePage, PageAt
<1>2. /\ kind[i] \in {"wiki", "ingest"} /\ run[i] \in PageRun /\ run[i].row = NoDoc
      /\ RunIsTrue(run[i], kind[i], file, now, hidden, docs, lastDoc)
  BY <1>1, RunFacts
<1>3. RowsFollow(docs', lastDoc')
  BY <1>1, RowsStay
<1>4. CASE PageGoto(i, "commit")
  <2> DEFINE g == [run[i] EXCEPT !.pc = "commit"]
  <2>1. run' = [run EXCEPT ![i] = g]
    BY <1>4 DEF PageGoto, Becomes
  <2>2. /\ g \in PageRun /\ g.got = run[i].got /\ g.walked = run[i].walked
        /\ g.stamp = run[i].stamp /\ g.alias = run[i].alias /\ g.row = run[i].row
        /\ g.page = run[i].page /\ g.pc = "commit"
    BY <1>2 DEF PageRun
  <2> HIDE DEF g
  <2>3. ASSUME NEW q \in Pages PROVE ReadIsTrue(q, g, kind[i], file, now, hidden)
    <3>1. ReadIsTrue(q, run[i], kind[i], file, now, hidden)
      BY <1>2 DEF RunIsTrue
    <3> QED BY <1>1, <2>2, <3>1 DEF ReadIsTrue
  <2>4. StepIsOfKind(g, kind[i])
    BY <1>2, <2>2 DEF StepIsOfKind
  <2>5. RunIsTrue(g, kind[i], file, now, hidden, docs, lastDoc)
    BY <1>2, <2>2, <2>3, <2>4 DEF RunIsTrue
  <2>6. RunIsTrue(g, kind[i], file, now, hidden, docs', lastDoc')
    BY <1>1, <2>5
  <2> QED BY <1>1, <1>3, <2>1, <2>2, <2>6, FollowedPages
<1>5. ASSUME NEW p \in run[i].todo,
             Becomes(i, [run[i] EXCEPT
                   !.todo = @ \ {p},
                   !.page = p,
                   !.got = [@ EXCEPT ![p] = IF Skipped(i, p) THEN NoFile ELSE file[p]],
                   !.pc = IF Skipped(i, p) \/ file[p] = NoFile THEN "parse" ELSE "stamp"])
      PROVE  PageInv'
  <2> DEFINE f == IF Skipped(i, p) THEN NoFile ELSE file[p]
             pc == IF Skipped(i, p) \/ file[p] = NoFile THEN "parse" ELSE "stamp"
             got == [run[i].got EXCEPT ![p] = f]
             g1 == [run[i] EXCEPT !.todo = @ \ {p}]
             g2 == [g1 EXCEPT !.page = p]
             g3 == [g2 EXCEPT !.got = got]
             g  == [g3 EXCEPT !.pc = pc]
  <2>1. run' = [run EXCEPT ![i] = g]
    BY <1>5 DEF Becomes
  <2>2. p \in Pages
    BY <1>2 DEF PageRun
  <2>3. /\ pc \in {"parse", "stamp"} /\ (pc = "parse" => f = NoFile)
        /\ f \in FileState /\ f \in {NoFile, file[p]}
    BY <2>2 DEF PageInv, PageShape, NoFile, FileState
  <2>4. file[p] \in FileState /\ file[p].mtime \in Nat /\ file[p].mtime <= now
    BY <2>2 DEF PageInv, PageShape, FileState
  <2> HIDE DEF f, pc
  <2>5. /\ got \in [Pages -> FileState]
        /\ \A q \in Pages : got[q] = IF q = p THEN f ELSE run[i].got[q]
    BY <1>2, <2>2, <2>3 DEF PageRun
  <2> HIDE DEF got
  <2>6. /\ g1 \in PageRun /\ g1.walked = run[i].walked
        /\ g1.stamp = run[i].stamp /\ g1.alias = run[i].alias /\ g1.row = run[i].row
    BY <1>2 DEF PageRun
  <2> HIDE DEF g1
  <2>7. /\ g2 \in PageRun /\ g2.walked = run[i].walked /\ g2.page = p
        /\ g2.stamp = run[i].stamp /\ g2.alias = run[i].alias /\ g2.row = run[i].row
    BY <2>2, <2>6 DEF PageRun
  <2> HIDE DEF g2
  <2>8. /\ g3 \in PageRun /\ g3.walked = run[i].walked /\ g3.page = p /\ g3.got = got
        /\ g3.stamp = run[i].stamp /\ g3.alias = run[i].alias /\ g3.row = run[i].row
    BY <2>5, <2>7 DEF PageRun
  <2> HIDE DEF g3
  <2>9. /\ g \in PageRun /\ g.walked = run[i].walked /\ g.page = p /\ g.got = got
        /\ g.stamp = run[i].stamp /\ g.alias = run[i].alias /\ g.row = run[i].row
        /\ g.pc = pc
    BY <2>3, <2>8 DEF PageRun
  <2> HIDE DEF g
  <2>10. ASSUME NEW q \in Pages PROVE ReadIsTrue(q, g, kind[i], file, now, hidden)
    <3>1. ReadIsTrue(q, run[i], kind[i], file, now, hidden)
      BY <1>2 DEF RunIsTrue
    <3>2. g.walked[q] = run[i].walked[q] /\ g.stamp[q] = run[i].stamp[q]
      BY <2>9
    <3>3. CASE q = p
      <4>1. g.got[q] = f
        BY <2>5, <2>9, <3>3
      <4>2. CASE f = NoFile
        BY <3>1, <3>2, <4>1, <4>2 DEF ReadIsTrue
      <4>3. CASE f # NoFile
        <5>1. f = file[p] /\ g.pc = "stamp" /\ g.page = p
          BY <2>3, <2>9, <4>3
        <5> QED BY <2>4, <3>1, <3>2, <3>3, <4>1, <4>3, <5>1 DEF ReadIsTrue
      <4> QED BY <4>2, <4>3
    <3>4. CASE q # p
      <4>1. g.got[q] = run[i].got[q]
        BY <2>5, <2>9, <3>4
      <4> QED BY <1>1, <3>1, <3>2, <4>1 DEF ReadIsTrue
    <3> QED BY <3>3, <3>4
  <2>11. StepIsOfKind(g, kind[i])
    BY <1>2, <2>2, <2>3, <2>9 DEF StepIsOfKind
  <2>12. IdIsOf(g.row, g.page, docs, lastDoc)
    BY <1>2, <2>9 DEF IdIsOf
  <2>13. RunIsTrue(g, kind[i], file, now, hidden, docs, lastDoc)
    BY <1>2, <2>9, <2>10, <2>11, <2>12 DEF RunIsTrue
  <2>14. RunIsTrue(g, kind[i], file, now, hidden, docs', lastDoc')
    BY <1>1, <2>13
  <2> QED BY <1>1, <1>3, <2>1, <2>9, <2>14, FollowedPages
<1> QED BY <1>4, <1>5 DEF ParsePage

LEMMA StampKeepsPages == ASSUME PageInv, NEW i \in Indexers, StampPage(i) PROVE PageInv'
<1> DEFINE p == run[i].page
           stamp == [run[i].stamp EXCEPT ![p] = now]
           g1 == [run[i] EXCEPT !.stamp = stamp]
           g  == [g1 EXCEPT !.pc = "parse"]
<1>1. /\ run[i].pc = "stamp" /\ UNCHANGED <<file, now, docs, lastDoc, kind>>
      /\ run' = [run EXCEPT ![i] = g]
      /\ hidden' = IF kind[i] = "ingest" /\ file[p] \notin {run[i].got[p], NoFile}
                   THEN hidden \cup {p} ELSE hidden
  BY DEF StampPage, PageAt, Becomes
<1>2. /\ kind[i] \in {"wiki", "ingest"} /\ run[i] \in PageRun /\ run[i].row = NoDoc
      /\ RunIsTrue(run[i], kind[i], file, now, hidden, docs, lastDoc) /\ now \in Nat
      /\ p \in Pages /\ lastDoc \in Nat
  BY <1>1, RunFacts
<1>3. /\ stamp \in [Pages -> Nat]
      /\ \A q \in Pages : stamp[q] = IF q = p THEN now ELSE run[i].stamp[q]
  BY <1>2 DEF PageRun
<1> HIDE DEF stamp
<1>4. /\ g1 \in PageRun /\ g1.walked = run[i].walked /\ g1.got = run[i].got /\ g1.stamp = stamp
      /\ g1.alias = run[i].alias /\ g1.row = run[i].row /\ g1.page = p
  BY <1>2, <1>3 DEF PageRun
<1> HIDE DEF g1
<1>5. /\ g \in PageRun /\ g.walked = run[i].walked /\ g.got = run[i].got /\ g.stamp = stamp
      /\ g.alias = run[i].alias /\ g.row = run[i].row /\ g.page = p /\ g.pc = "parse"
  BY <1>4 DEF PageRun
<1> HIDE DEF g
<1>6. hidden' \in SUBSET Pages /\ hidden \subseteq hidden'
  BY <1>1, <1>2 DEF PageInv, PageShape
<1>7. ASSUME NEW q \in Pages PROVE ReadIsTrue(q, g, kind[i], file, now, hidden')
  <2>1. ReadIsTrue(q, run[i], kind[i], file, now, hidden)
    BY <1>2 DEF RunIsTrue
  <2>2. g.walked[q] = run[i].walked[q] /\ g.got[q] = run[i].got[q]
        /\ g.stamp[q] = IF q = p THEN now ELSE run[i].stamp[q]
    BY <1>3, <1>5
  <2>3. CASE q = p
    <3>1. kind[i] = "ingest" /\ p \notin hidden' => file[p] \in {run[i].got[p], NoFile}
      BY <1>1
    <3> QED BY <1>2, <2>1, <2>2, <2>3, <3>1 DEF ReadIsTrue
  <2>4. CASE q # p
    BY <1>6, <2>1, <2>2, <2>4 DEF ReadIsTrue
  <2> QED BY <2>3, <2>4
<1>8. StepIsOfKind(g, kind[i])
  BY <1>2, <1>5 DEF StepIsOfKind
<1>9. RunIsTrue(g, kind[i], file, now, hidden', docs, lastDoc)
  BY <1>2, <1>5, <1>7, <1>8 DEF RunIsTrue
<1>10. RunIsTrue(g, kind[i], file, now, hidden', docs', lastDoc')
  BY <1>1, <1>9
<1>11. RowsFollow(docs', lastDoc')
  BY <1>1, RowsStay
<1>12. /\ docs' \in [Doc -> PageRow] /\ lastDoc' \in Nat /\ lastDoc <= lastDoc'
       /\ \A d \in Doc : docs'[d] = docs[d] \/ RowIsTrue(docs'[d], file, now, hidden, Ingesting)
       /\ \A d \in Doc : d <= lastDoc => docs'[d].page \in {docs[d].page, NoPage}
       /\ PathsDiffer(docs') /\ NumbersAreFresh(docs', lastDoc')
       /\ \A d \in Doc : docs'[d].page \in Virtual => docs[d].page \in Virtual
  BY <1>11 DEF RowsFollow
<1>13. file' = file /\ now' = now /\ kind' = kind
  BY <1>1
<1> QED BY <1>1, <1>5, <1>6, <1>10, <1>12, <1>13, IndexerKeepsPages

LEMMA IndexedIs ==
    ASSUME PageInv, NEW i \in Indexers, run[i].pc = "commit", NEW p \in Pages, NEW d \in Doc
    PROVE  \/ run[i].got[p].says \notin {"accepted", "draft"} /\ Indexed(i, p, d) \in {Blank, docs[d]}
           \/ /\ Indexed(i, p, d) \in PageRow
              /\ Indexed(i, p, d).page = p /\ Indexed(i, p, d).canon = TRUE
              /\ RowIsTrue(Indexed(i, p, d), file, now, hidden, Ingesting)
<1> DEFINE got == run[i].got[p]
           r0 == Fresh(p, got, run[i].walked[p], got.says, TRUE)
           entry == [r0 EXCEPT !.stamp = run[i].stamp[p]]
           t == [entry EXCEPT !.text = 0]
           bare == [t EXCEPT !.vecs = 0]
<1>1. /\ run[i] \in PageRun /\ ReadIsTrue(p, run[i], kind[i], file, now, hidden)
      /\ now \in Nat /\ (Ingesting => kind[i] = "ingest")
  BY RunFacts DEF RunIsTrue
<1>2. /\ got \in FileState /\ got.mtime \in Nat /\ run[i].walked[p] \in Nat
      /\ run[i].stamp[p] \in Nat
  BY <1>1 DEF PageRun, FileState
<1>3. p # NoPage
  BY PageConstants
<1>4. Indexed(i, p, d) = CASE got.says = "complete" -> bare
                           [] got.says = "blocked" -> Blank
                           [] got.says \in {"accepted", "draft"} -> entry
                           [] OTHER -> docs[d]
  BY DEF Indexed
<1>5. CASE got.says \in {"complete", "accepted", "draft"}
  <2>1. got # NoFile
    BY <1>5 DEF NoFile
  <2>2. /\ run[i].walked[p] <= got.mtime /\ got.mtime <= now /\ run[i].stamp[p] <= now
        /\ file[p] # NoFile => got.mtime <= file[p].mtime
        /\ Ingesting /\ p \notin hidden /\ file[p] # NoFile /\ file[p].mtime <= run[i].stamp[p]
              => got.mtime = file[p].mtime
    BY <1>1, <2>1 DEF ReadIsTrue
  <2>3. /\ r0.page = p /\ r0.canon = TRUE /\ r0.mtime = run[i].walked[p]
        /\ r0.status = got.says /\ r0.text = got.mtime /\ r0.vecs = got.mtime
    BY DEF Fresh
  <2>4. r0 \in PageRow
    <3> HIDE DEF got
    <3> QED BY <1>1, <1>2, <1>5 DEF Fresh, PageRow, Frontmatter
  <2> HIDE DEF r0, got
  <2>5. /\ entry \in PageRow /\ entry.page = p /\ entry.canon = TRUE /\ entry.mtime = run[i].walked[p]
        /\ entry.status = got.says /\ entry.text = got.mtime /\ entry.vecs = got.mtime
        /\ entry.stamp = run[i].stamp[p]
    BY <1>2, <2>3, <2>4 DEF PageRow
  <2> HIDE DEF entry
  <2>6. /\ t \in PageRow /\ t.page = p /\ t.canon = TRUE
        /\ t.status = got.says /\ t.text = 0 /\ t.stamp = run[i].stamp[p]
    BY <2>5 DEF PageRow
  <2> HIDE DEF t
  <2>7. /\ bare \in PageRow /\ bare.page = p /\ bare.canon = TRUE
        /\ bare.status = got.says /\ bare.text = 0 /\ bare.vecs = 0 /\ bare.stamp = run[i].stamp[p]
    BY <2>6 DEF PageRow
  <2> HIDE DEF bare
  <2>8. CASE got.says = "complete"
    <3>1. Indexed(i, p, d) = bare
      BY <1>4, <2>8
    <3>2. file[p].mtime \in Nat
      BY DEF PageInv, PageShape, FileState
    <3>3. RowIsTrue(bare, file, now, hidden, Ingesting)
      BY <1>1, <2>2, <2>7, <2>8, <3>2 DEF RowIsTrue
    <3> QED BY <2>7, <3>1, <3>3
  <2>9. CASE got.says \in {"accepted", "draft"}
    <3>1. Indexed(i, p, d) = entry
      BY <1>4, <2>9
    <3>2. RowIsTrue(entry, file, now, hidden, Ingesting)
      BY <1>1, <1>2, <1>3, <2>2, <2>5 DEF RowIsTrue
    <3> QED BY <2>5, <3>1, <3>2
  <2> QED BY <1>5, <2>8, <2>9
<1>6. CASE got.says \notin {"complete", "accepted", "draft"}
  BY <1>4, <1>6
<1> QED BY <1>5, <1>6

LEMMA CommitKeepsPages ==
    ASSUME PageInv, NEW i \in Indexers, CommitRun(i)
    PROVE  /\ PageInv'
           /\ \A d \in Doc : docs[d].page \notin Virtual
<1> DEFINE fresh == {p \in Pages : run[i].got[p].says \in {"accepted", "draft"}
                                   /\ Canonical(p) = {}}
           walked == {p \in Pages : run[i].walked[p] > 0}
           new == CHOOSE p \in fresh : TRUE
<1>1. /\ run[i].pc = "commit" /\ run' = [run EXCEPT ![i] = Idle]
      /\ UNCHANGED <<file, now, kind, hidden>>
      /\ Cardinality(fresh) <= 1 /\ lastDoc' = lastDoc + Cardinality(fresh)
      /\ docs' = [d \in Doc |->
            IF d > lastDoc /\ d <= lastDoc' THEN Indexed(i, new, d)
            ELSE IF docs[d].page \in walked /\ docs[d].canon THEN Indexed(i, docs[d].page, d)
            ELSE IF docs[d].page \in walked /\ kind[i] = "wiki" THEN docs[d]
            ELSE Blank]
  BY DEF CommitRun, PageAt, Becomes
<1>2. /\ \A d \in Doc : docs[d].page \notin Virtual
      /\ docs \in [Doc -> PageRow] /\ lastDoc \in Nat /\ now \in Nat
  BY <1>1, RunFacts
<1>3. Cardinality(fresh) \in Nat /\ (fresh = {} => Cardinality(fresh) = 0)
  <2>1. IsFiniteSet(fresh)
    BY PageConstants, FS_Subset
  <2> QED BY <2>1, FS_CardinalityType, FS_EmptySet
<1>4. /\ lastDoc' \in Nat /\ lastDoc <= lastDoc' /\ lastDoc' <= lastDoc + 1
      /\ lastDoc' # lastDoc => fresh # {}
  BY <1>1, <1>2, <1>3
<1>5. lastDoc' # lastDoc => new \in fresh
  BY <1>4
<1>6. /\ Blank \in PageRow /\ Blank.page = NoPage /\ NoPage \notin Pages \cup Virtual
      /\ RowIsTrue(Blank, file, now, hidden, Ingesting)
  BY <1>2, BlankIsTrue, PageConstants
<1>7. new \in fresh => new \in Pages /\ run[i].got[new].says \in {"accepted", "draft"}
                       /\ Canonical(new) = {}
  OBVIOUS
<1>8. walked \subseteq Pages
  OBVIOUS
<1> HIDE DEF new, fresh, walked
\* Row by row: a new one, one indexed again, one as it was, one that goes.
<1>9. ASSUME NEW d \in Doc
      PROVE  \/ d = lastDoc + 1 /\ d = lastDoc' /\ new \in fresh
                /\ docs'[d] \in PageRow /\ docs'[d].page = new
                /\ RowIsTrue(docs'[d], file, now, hidden, Ingesting)
             \/ (d <= lastDoc \/ d > lastDoc') /\ docs[d].page \in walked /\ docs[d].canon
                /\ docs'[d] \in PageRow /\ docs'[d].page = docs[d].page
                /\ RowIsTrue(docs'[d], file, now, hidden, Ingesting)
             \/ (d <= lastDoc \/ d > lastDoc') /\ docs'[d] = docs[d]
             \/ (d <= lastDoc \/ d > lastDoc') /\ docs'[d] = Blank
  <2>1. CASE d > lastDoc /\ d <= lastDoc'
    <3>1. d \in Nat /\ d = lastDoc + 1 /\ d = lastDoc' /\ lastDoc' # lastDoc
      BY <1>2, <1>4, <2>1 DEF Doc
    <3>2. new \in fresh /\ new \in Pages /\ run[i].got[new].says \in {"accepted", "draft"}
      BY <1>5, <1>7, <3>1
    <3>3. docs'[d] = Indexed(i, new, d)
      BY <1>1, <2>1
    <3>4. /\ Indexed(i, new, d) \in PageRow /\ Indexed(i, new, d).page = new
          /\ RowIsTrue(Indexed(i, new, d), file, now, hidden, Ingesting)
      BY <1>1, <3>2, IndexedIs
    <3> QED BY <3>1, <3>2, <3>3, <3>4
  <2>2. CASE ~(d > lastDoc /\ d <= lastDoc')
    <3>1. d <= lastDoc \/ d > lastDoc'
      BY <1>2, <1>4, <2>2 DEF Doc
    <3>2. docs'[d] = IF docs[d].page \in walked /\ docs[d].canon THEN Indexed(i, docs[d].page, d)
                     ELSE IF docs[d].page \in walked /\ kind[i] = "wiki" THEN docs[d]
                     ELSE Blank
      BY <1>1, <2>2
    <3>3. CASE docs[d].page \in walked /\ docs[d].canon
      <4>1. docs'[d] = Indexed(i, docs[d].page, d) /\ docs[d].page \in Pages
        BY <1>8, <3>2, <3>3
      <4> DEFINE q == docs[d].page
      <4>2. \/ Indexed(i, q, d) \in {Blank, docs[d]}
            \/ /\ Indexed(i, q, d) \in PageRow /\ Indexed(i, q, d).page = q
               /\ RowIsTrue(Indexed(i, q, d), file, now, hidden, Ingesting)
        <5>1. q \in Pages
          BY <4>1
        <5> HIDE DEF q
        <5> QED BY <1>1, <5>1, IndexedIs
      <4> QED BY <3>1, <3>3, <4>1, <4>2
    <3>4. CASE ~(docs[d].page \in walked /\ docs[d].canon)
      BY <3>1, <3>2, <3>4
    <3> QED BY <3>3, <3>4
  <2> QED BY <2>1, <2>2
<1>10. docs' \in [Doc -> PageRow]
  <2>1. \A d \in Doc : docs'[d] \in PageRow
    BY <1>2, <1>6, <1>9
  <2>2. docs' = [d \in Doc |-> docs'[d]]
    BY <1>1
  <2> QED BY <2>1, <2>2
<1>11. \A d \in Doc : docs'[d] = docs[d] \/ RowIsTrue(docs'[d], file, now, hidden, Ingesting)
  BY <1>6, <1>9
<1>12. \A d \in Doc : d <= lastDoc => docs'[d].page \in {docs[d].page, NoPage}
  BY <1>2, <1>6, <1>9 DEF Doc
<1>13. \A d \in Doc : docs'[d].page \in Virtual => docs[d].page \in Virtual
  <2>1. new \in fresh => new \notin Virtual
    BY <1>7, PageConstants
  <2> QED BY <1>6, <1>9, <2>1
<1>14. NumbersAreFresh(docs', lastDoc')
  <2> SUFFICES ASSUME NEW d \in Doc, d > lastDoc' PROVE docs'[d] = Blank
    BY DEF NumbersAreFresh
  <2>1. d > lastDoc /\ d # lastDoc'
    BY <1>2, <1>4 DEF Doc
  <2>2. docs[d] = Blank
    BY <2>1 DEF PageInv, NumbersAreFresh
  <2>3. docs[d].page \notin walked
    BY <1>6, <1>8, <2>2
  <2> QED BY <1>9, <2>1, <2>2, <2>3
<1>15. PathsDiffer(docs')
  \* A row of a page that is not new was the canonical row of the page.
  <2>1. ASSUME NEW d \in Doc, docs'[d].page \in Pages, docs'[d].canon,
               ~(d = lastDoc' /\ lastDoc' # lastDoc)
        PROVE  docs[d].page = docs'[d].page /\ docs[d].canon
    <3>1. ~(d = lastDoc + 1 /\ d = lastDoc')
      BY <1>2, <2>1
    <3> QED BY <1>6, <1>9, <2>1, <3>1
  <2>2. ASSUME NEW d \in Doc, d = lastDoc' /\ lastDoc' # lastDoc
        PROVE  docs'[d].page = new /\ (\A e \in Doc : ~(docs[e].page = new /\ docs[e].canon))
    <3>1. ~(d <= lastDoc \/ d > lastDoc')
      BY <1>2, <1>4, <2>2
    <3>2. docs'[d].page = new /\ Canonical(new) = {}
      BY <1>7, <1>9, <3>1
    <3> QED BY <3>2 DEF Canonical, RowsOf
  <2> SUFFICES ASSUME NEW d \in Doc, NEW e \in Doc, docs'[d].page \in Pages,
                      docs'[e].page = docs'[d].page, docs'[d].canon, docs'[e].canon
               PROVE  d = e
    BY DEF PathsDiffer
  <2>3. CASE d = lastDoc' /\ lastDoc' # lastDoc
    BY <2>1, <2>2, <2>3
  <2>4. CASE e = lastDoc' /\ lastDoc' # lastDoc
    BY <2>1, <2>2, <2>4
  <2>5. CASE ~(d = lastDoc' /\ lastDoc' # lastDoc) /\ ~(e = lastDoc' /\ lastDoc' # lastDoc)
    BY <2>1, <2>5 DEF PageInv, PathsDiffer
  <2> QED BY <2>3, <2>4, <2>5
<1>16. RowsFollow(docs', lastDoc')
  BY <1>4, <1>10, <1>11, <1>12, <1>13, <1>14, <1>15 DEF RowsFollow
<1>17. Idle \in PageRun /\ RunIsTrue(Idle, kind[i], file, now, hidden, docs', lastDoc')
  BY IdleIsRun, IdleIsTrue DEF PageInv, PageShape
<1> QED BY <1>1, <1>2, <1>16, <1>17, FollowedPages

LEMMA LookUpSpares ==
    ASSUME PageInv, NEW i \in Indexers, LookUp(i)
    PROVE  \A d \in Doc : docs[d].page \in Virtual => docs'[d] = docs[d]
<1>1. /\ run[i].pc = "pages"
      /\ \E p \in run[i].todo : docs' = docs \/ docs' = [docs EXCEPT ![run[i].alias[p]] = Blank]
  BY DEF LookUp, PageAt
<1>2. /\ run[i] \in PageRun /\ docs \in [Doc -> PageRow]
      /\ RunIsTrue(run[i], kind[i], file, now, hidden, docs, lastDoc)
  BY <1>1, VaultFacts
<1>3. PICK p \in run[i].todo : docs' = docs \/ docs' = [docs EXCEPT ![run[i].alias[p]] = Blank]
  BY <1>1
<1>4. p \in Pages /\ IdIsOf(run[i].alias[p], p, docs, lastDoc)
  BY <1>2 DEF PageRun, RunIsTrue
<1>5. \A d \in Doc : d = run[i].alias[p] => docs[d].page \notin Virtual
  BY <1>4, PageConstants DEF IdIsOf, Doc, NoDoc
<1> QED BY <1>2, <1>3, <1>5

LEMMA UnchangedSpares ==
    ASSUME PageInv, NEW i \in Indexers, KeepUnchanged(i)
    PROVE  \A d \in Doc : docs[d].page \in Virtual => docs'[d] = docs[d]
<1> DEFINE r == run[i].row
<1>1. /\ run[i].pc = "unchanged"
      /\ \A d \in Doc : d # r => docs'[d] = docs[d]
  BY DEF KeepUnchanged, PageAt, PageInv, PageShape
<1>2. /\ run[i] \in PageRun /\ run[i].page \in Pages
      /\ RunIsTrue(run[i], kind[i], file, now, hidden, docs, lastDoc)
  BY <1>1, VaultFacts
<1>3. r \in Doc => docs[r].page \notin Virtual
  <2>1. IdIsOf(r, run[i].page, docs, lastDoc)
    BY <1>2 DEF RunIsTrue
  <2> QED BY <1>2, <2>1, PageConstants DEF IdIsOf, Doc, NoDoc
<1> QED BY <1>1, <1>3

LEMMA PageStepInv ==
    ASSUME PageInv, [PageNext]_pageVars
    PROVE  /\ PageInv'
           /\ \A d \in Doc : docs[d].page \in Virtual => docs'[d] = docs[d]
<1> DEFINE Spared == \A d \in Doc : docs[d].page \in Virtual => docs'[d] = docs[d]
<1>1. ASSUME NEW p \in Pages, Edit(p) PROVE PageInv' /\ Spared
  <2>1. docs' = docs
    BY <1>1 DEF Edit
  <2> QED BY <1>1, <2>1, EditKeepsPages
<1>2. ASSUME NEW i \in Indexers, IndexerStep(i) PROVE PageInv' /\ Spared
  <2>1. CASE Walk(i)
    <3>1. docs' = docs
      BY <2>1 DEF Walk
    <3> QED BY <2>1, <3>1, WalkKeepsPages
  <2>2. CASE CollectAliases(i)
    <3>1. \A d \in Doc : docs'[d] = docs[d] \/ \E p \in Pages : d \in RowsOf(p)
      BY <2>2 DEF CollectAliases
    <3>2. Spared
      <4>1. \A p \in Pages : \A d \in RowsOf(p) : docs[d].page \notin Virtual
        BY PageConstants DEF RowsOf
      <4> QED BY <3>1, <4>1
    <3> QED BY <2>2, <3>2, AliasesKeepPages
  <2>3. CASE LookUp(i)
    <3>1. Spared
      BY <2>3, LookUpSpares
    <3> QED BY <2>3, <3>1, LookUpKeepsPages
  <2>4. CASE KeepUnchanged(i)
    <3>1. Spared
      BY <2>4, UnchangedSpares
    <3> QED BY <2>4, <3>1, UnchangedKeepsPages
  <2>5. CASE ReadPage(i)
    <3>1. docs' = docs
      BY <2>5 DEF ReadPage
    <3> QED BY <2>5, <3>1, ReadKeepsPages
  <2>6. CASE WritePage(i)
    BY <2>6, WriteKeepsPages
  <2>7. CASE Prune(i)
    BY <2>7, PruneKeepsPages
  <2>8. CASE ParsePage(i)
    <3>1. docs' = docs
      BY <2>8 DEF ParsePage
    <3> QED BY <2>8, <3>1, ParseKeepsPages
  <2>9. CASE StampPage(i)
    <3>1. docs' = docs
      BY <2>9 DEF StampPage
    <3> QED BY <2>9, <3>1, StampKeepsPages
  <2>10. CASE CommitRun(i)
    BY <2>10, CommitKeepsPages
  <2> QED BY <1>2, <2>1, <2>2, <2>3, <2>4, <2>5, <2>6, <2>7, <2>8, <2>9, <2>10 DEF IndexerStep
<1>3. CASE UNCHANGED pageVars
  <2>1. UNCHANGED <<file, now, docs, lastDoc, kind, run, hidden>>
    BY <1>3 DEF pageVars
  <2>2. Ingesting' = Ingesting
    BY <2>1 DEF Ingesting
  <2>3. PageShape'
    BY <2>1 DEF PageInv, PageShape
  <2>4. \A d \in Doc : RowIsTrue(docs[d], file, now, hidden, Ingesting)'
    BY <2>1, <2>2 DEF PageInv
  <2>5. \A i \in Indexers : RunIsTrue(run[i], kind[i], file, now, hidden, docs, lastDoc)'
    BY <2>1 DEF PageInv
  <2>6. PathsDiffer(docs)' /\ NumbersAreFresh(docs, lastDoc)' /\ StraysAreOfVault(docs, kind)'
    BY <2>1 DEF PageInv
  <2> QED BY <2>1, <2>3, <2>4, <2>5, <2>6 DEF PageInv
<1> QED BY <1>1, <1>2, <1>3 DEF PageNext

LEMMA PageInvariant == PageSpec => []PageInv
<1>1. PageInv /\ [PageNext]_pageVars => PageInv'
  BY PageStepInv
<1> QED BY PageInitInv, <1>1, PTL DEF PageSpec

(* The index of pages keeps its types, one canonical row per path and no      *)
(* number used twice, for any pages, indexers and edits.                      *)
THEOREM PageTypes == PageSpec => []PageTypeOK
<1>1. ASSUME PageInv PROVE PageTypeOK
  <2>1. /\ now \in Nat /\ lastDoc \in Nat /\ docs \in [Doc -> PageRow] /\ hidden \subseteq Pages
        /\ file \in [Pages -> FileState] /\ (\A p \in Pages : file[p].mtime <= now)
    BY <1>1 DEF PageInv, PageShape
  <2>2. \A p \in Pages : file[p].says \in Frontmatter \cup {"nothing"} /\ file[p].mtime \in 0..now
    BY <2>1 DEF FileState
  <2>3. ASSUME NEW p \in Pages PROVE Cardinality(Canonical(p)) <= 1
    <3>1. CASE Canonical(p) = {}
      BY <3>1, FS_EmptySet
    <3>2. CASE Canonical(p) # {}
      <4>1. PICK d \in Canonical(p) : TRUE
        BY <3>2
      <4>2. \A e \in Canonical(p) : e = d
        BY <1>1, <4>1 DEF PageInv, PathsDiffer, Canonical, RowsOf
      <4>3. Canonical(p) = {d}
        BY <4>1, <4>2
      <4>4. Cardinality({d}) = 1
        BY FS_Singleton
      <4> QED BY <4>3, <4>4
    <3> QED BY <3>1, <3>2
  <2>4. ASSUME NEW d \in Doc
        PROVE  docs[d].text \in 0..now /\ docs[d].vecs \in {0, docs[d].text}
               /\ (d > lastDoc => docs[d] = Blank)
    <3>1. RowIsTrue(docs[d], file, now, hidden, Ingesting) /\ docs[d].text \in Nat
      BY <1>1, <2>1 DEF PageInv, PageRow
    <3>2. docs[d].text \in 0..now /\ docs[d].vecs \in {0, docs[d].text}
      BY <2>1, <3>1 DEF RowIsTrue
    <3> QED BY <1>1, <3>2 DEF PageInv, NumbersAreFresh
  <2> QED BY <2>1, <2>2, <2>3, <2>4 DEF PageTypeOK
<1> QED BY PageInvariant, <1>1, PTL

LEMMA PageInvIsHonest == PageInv => NoEditIsLost
<1> SUFFICES ASSUME PageInv, NEW p \in Pages \ hidden, NEW d \in Canonical(p),
                    file[p] # NoFile, TakenForCurrent(d, p)
             PROVE  docs[d].text \in {file[p].mtime}
                        \cup (IF docs[d].status = "complete" THEN {0} ELSE {})
  BY DEF NoEditIsLost
<1>1. d \in Doc /\ docs[d].page = p /\ p \in Pages
  BY DEF Canonical, RowsOf
<1>2. /\ RowIsTrue(docs[d], file, now, hidden, Ingesting)
      /\ docs[d].text \in Nat /\ docs[d].mtime \in Nat /\ docs[d].stamp \in Nat
      /\ file[p].mtime \in Nat
  BY <1>1 DEF PageInv, PageShape, PageRow, FileState
<1>3. file[p].mtime <= IF Ingesting THEN docs[d].stamp ELSE docs[d].mtime
  BY DEF TakenForCurrent, Ingesting
<1>4. docs[d].text = file[p].mtime \/ (docs[d].status = "complete" /\ docs[d].text = 0)
  <2>1. CASE Ingesting
    BY <1>1, <1>2, <1>3, <2>1 DEF RowIsTrue
  <2>2. CASE ~Ingesting
    BY <1>1, <1>2, <1>3, <2>2 DEF RowIsTrue
  <2> QED BY <2>1, <2>2
<1> QED BY <1>4

(* No indexer loses an edit or a row that has no file: a row the gate takes   *)
(* for up to date holds the text of its file, whatever the author does        *)
(* between the walk, the read and the commit, and however sweeps overlap; and *)
(* no step touches a row of a promoted learning.                              *)
THEOREM NothingIsLost == PageSpec => IndexersLoseNothing
<1> DEFINE Spares == \A d \in Doc : docs[d].page \in Virtual => docs'[d] = docs[d]
<1>1. PageInv /\ [PageNext]_pageVars => [Spares]_pageVars
  BY PageStepInv
<1>2. PageInv => NoEditIsLost
  BY PageInvIsHonest
<1>3. PageSpec => [][PageNext]_pageVars
  BY PTL DEF PageSpec
<1>4. PageSpec => [][Spares]_pageVars
  BY PageInvariant, <1>1, <1>3, PTL
<1>5. [][Spares]_pageVars => DurableRowsSurvive
  BY DEF DurableRowsSurvive
<1> QED BY PageInvariant, <1>2, <1>4, <1>5, PTL DEF IndexersLoseNothing
=============================================================================
