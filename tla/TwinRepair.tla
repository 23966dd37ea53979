------------------------------ MODULE TwinRepair ------------------------------
(***************************************************************************)
(* The repair of candidate packets that an earlier version ingested twice  *)
(* (repair_dual_candidates.py): rows of one inbox slot with one text are   *)
(* collapsed to one, and the unique index on the slots is created. The plan *)
(* is made outside of the transaction, while the daemon goes on resolving   *)
(* and fencing the rows; every group is read and decided again inside it.   *)
(*                                                                         *)
(* Current writers insert no twin (InboxFiles), so no row is added here.   *)
(***************************************************************************)
EXTENDS Integers, FiniteSetsExt

CONSTANTS
    Twins,      \* the candidate_ids, in the order of their insertion
    Bodies,     \* the texts (content digests)
    Repairers   \* runs of the repair tool

ASSUME TwinsAssumption == Twins \subseteq Nat /\ IsFiniteSet(Twins)

IdleRepair == [at |-> "idle", plan |-> {}]

VARIABLES
    packet,     \* packet[c]: a row; alias is a principal under its old slug,
                \* stamped a source_principal in derived_from
    marked,     \* the rows with an active afm_review marker
    uniq,       \* the index: "none", "stale" (by the raw principal), "current"
    repairer    \* repairer[r]: where the run is, and the groups it planned

twinVars == <<packet, marked, uniq, repairer>>

PacketStatus == {"proposed", "accepted", "rejected"}
NoTwin == [status |-> "none", body |-> "none", alias |-> FALSE, stamped |-> FALSE]
TwinRow == {NoTwin} \cup [status : PacketStatus, body : Bodies,
                           alias : BOOLEAN, stamped : BOOLEAN]

Stored == {c \in Twins : packet[c].status # "none"}
\* _collapse_key: one slot is modelled, so a group is the rows of one text.
\* Slugs of one principal belong to one family.
GroupOf(b) == {c \in Stored : packet[c].body = b}
InGroup(G, s) == {c \in G : packet[c].status = s}
\* A leftover slug, in the principal or in the stamp (_alias_source_principal).
FromAlias(c) == packet[c].alias \/ packet[c].stamped

\* Mutant: a closed row beats an open one, as its status ranks higher.
WinnerByRank(G) ==
    LET top == CHOOSE s \in PacketStatus :
                 /\ InGroup(G, s) # {}
                 /\ s = "proposed" => InGroup(G, "accepted") \cup InGroup(G, "rejected") = {}
                 /\ s = "rejected" => InGroup(G, "accepted") = {}
    IN  Min(InGroup(G, top))

\* Mutant: the fences are not looked at.
WinnerUnderFence(G) ==
    LET accepted == InGroup(G, "accepted")
        proposed == InGroup(G, "proposed")
    IN  CASE accepted # {} -> IF accepted = G THEN 0 ELSE Min(accepted)
          [] accepted = {} /\ proposed # {} /\ proposed # G -> 0
          [] OTHER -> Min(G)

\* collapse_decision: the row to keep, or 0 when only the operator can tell.
\* An accepted row wins; open and closed twins are left alone; among open ones
\* an unfenced row wins, so that the pass still has one it looks at.
Winner(G) ==
    LET accepted == InGroup(G, "accepted")
        proposed == InGroup(G, "proposed")
        unfenced == proposed \ marked
    IN  CASE accepted # {} -> IF accepted = G THEN 0 ELSE Min(accepted)
          [] accepted = {} /\ proposed # {} ->
               IF proposed # G THEN 0
               ELSE Min(IF unfenced # {} THEN unfenced ELSE proposed)
          [] OTHER -> Min(G)
Losers(G) == {c \in G : c # Winner(G) /\ packet[c].status # "accepted"}

\* find_duplicate_candidate_groups: the groups a repair could collapse now.
Collapsible == {b \in Bodies : LET G == GroupOf(b) IN
                  Cardinality(G) >= 2 /\ Winner(G) # 0 /\ Losers(G) # {}}
Planned == [body : Bodies, gone : SUBSET Twins]

\* The double ingest, and whatever the passes made of it since.
TwinInit ==
    /\ packet \in [Twins -> {p \in TwinRow : ~p.stamped}]
    /\ marked \in SUBSET {c \in Twins : packet[c].status = "proposed"}
    /\ uniq \in {"none", "stale"}
    /\ uniq = "stale" => \A c, d \in Stored : packet[c].alias = packet[d].alias => c = d
    /\ repairer = [r \in Repairers |-> IdleRepair]

-----------------------------------------------------------------------------
(* The daemon, meanwhile. *)

\* The operator or a pass resolves a row and takes its marker away.
ResolveTwin(c, s) ==
    /\ packet[c].status = "proposed" /\ s \in PacketStatus \ {"proposed"}
    /\ packet' = [packet EXCEPT ![c].status = s]
    /\ marked' = marked \ {c}
    /\ UNCHANGED <<uniq, repairer>>

\* A pass leaves a row to review, or a marker is superseded again.
MarkTwin(c) ==
    /\ packet[c].status = "proposed"
    /\ marked' = IF c \in marked THEN marked \ {c} ELSE marked \cup {c}
    /\ UNCHANGED <<packet, uniq, repairer>>

\* A migration that rebuilds candidate_packets drops the index.
RebuildSchema == /\ uniq # "none" /\ uniq' = "none"
                 /\ UNCHANGED <<packet, marked, repairer>>

-----------------------------------------------------------------------------
(* One run of the tool (run_full_repair). *)

RepairAt(r, place) == repairer' = [repairer EXCEPT ![r].at = place]

\* The plan, read on connections of its own; nothing to do skips the apply.
PlanCollapse(r) ==
    /\ repairer[r].at = "idle"
    /\ repairer' = [repairer EXCEPT ![r] =
          [at |-> IF Collapsible = {} THEN "collapsed" ELSE "planned", plan |-> {[body |-> b, gone |-> Losers(GroupOf(b))] : b \in Collapsible}]]
    /\ UNCHANGED <<packet, marked, uniq>>

\* Mutant: the slug of a deleted twin is not carried over to the kept row.
CollapsedUnstamped(b) ==
    LET G == GroupOf(b) keep == Winner(G) gone == Losers(G) IN
    [c \in Twins |->
        IF Cardinality(G) < 2 \/ keep = 0 \/ gone = {} \/ c \notin G THEN packet[c]
        ELSE IF c \in gone THEN NoTwin
        ELSE IF c = keep
        THEN [packet[c] EXCEPT !.alias = FALSE, !.stamped = FromAlias(keep)]
        ELSE packet[c]]

\* Mutant: a twin is closed instead of deleted.
CollapsedInPlace(b) ==
    LET G == GroupOf(b) keep == Winner(G) gone == Losers(G) IN
    [c \in Twins |->
        IF Cardinality(G) < 2 \/ keep = 0 \/ c \notin gone THEN packet[c]
        ELSE [packet[c] EXCEPT !.status = "none"]]

\* The transaction: groups that changed since the plan are decided as they are
\* now, skipped if they are no twins any more or need the operator. The kept
\* row gets the canonical principal and the leftover slug as its source.
Collapsed(b) ==
    LET G == GroupOf(b) keep == Winner(G) gone == Losers(G) IN
    [c \in Twins |->
        IF Cardinality(G) < 2 \/ keep = 0 \/ gone = {} \/ c \notin G THEN packet[c]
        ELSE IF c \in gone THEN NoTwin
        ELSE IF c = keep
        THEN [packet[c] EXCEPT !.alias = FALSE,
                               !.stamped = @ \/ \E d \in gone \cup {keep} : FromAlias(d)]
        ELSE packet[c]]

\* Mutant: the rows of the plan are deleted as they were planned.
ApplyAsPlanned(r) ==
    /\ repairer[r].at = "planned"
    /\ packet' = [c \in Twins |->
          IF \E g \in repairer[r].plan : c \in g.gone THEN NoTwin ELSE packet[c]]
    /\ repairer' = [repairer EXCEPT ![r] = [at |-> "collapsed", plan |-> {}]]
    /\ UNCHANGED <<marked, uniq>>

\* Groups are disjoint, so their order does not matter. The planned deletions
\* only count in the report. The markers of a deleted row stay behind.
ApplyCollapse(r) ==
    /\ repairer[r].at = "planned"
    /\ packet' = [c \in Twins |->
          IF c \in Stored /\ \E g \in repairer[r].plan : g.body = packet[c].body
          THEN Collapsed(packet[c].body)[c] ELSE packet[c]]
    /\ repairer' = [repairer EXCEPT ![r] = [at |-> "collapsed", plan |-> {}]]
    /\ UNCHANGED <<marked, uniq>>

SlotIsUnique == Cardinality(Stored) <= 1

\* ensure_inbox_dedup_index, up to the preflight: a current index is kept, and
\* collisions of any text leave the index there is.
PreflightIndex(r) ==
    /\ repairer[r].at = "collapsed"
    /\ RepairAt(r, IF uniq # "current" /\ SlotIsUnique THEN "clear" ELSE "idle")
    /\ UNCHANGED <<packet, marked, uniq>>

\* Drop and create in one transaction: CREATE raises on a collision.
CreateIndex(r) ==
    /\ repairer[r].at = "clear"
    /\ uniq' = IF SlotIsUnique THEN "current" ELSE uniq
    /\ RepairAt(r, "idle")
    /\ UNCHANGED <<packet, marked>>

\* The tool is killed; an open transaction rolls back.
KillRepair(r) ==
    /\ repairer[r].at # "idle"
    /\ repairer' = [repairer EXCEPT ![r] = IdleRepair]
    /\ UNCHANGED <<packet, marked, uniq>>

TwinNext ==
    \/ \E c \in Twins : MarkTwin(c) \/ \E s \in PacketStatus : ResolveTwin(c, s)
    \/ RebuildSchema
    \/ \E r \in Repairers : \/ PlanCollapse(r) \/ ApplyCollapse(r)
                            \/ PreflightIndex(r) \/ CreateIndex(r) \/ KillRepair(r)

TwinSpec == TwinInit /\ [][TwinNext]_twinVars

-----------------------------------------------------------------------------
TwinTypeOK ==
    /\ packet \in [Twins -> TwinRow]
    /\ marked \subseteq Twins
    /\ uniq \in {"none", "stale", "current"}
    /\ repairer \in [Repairers -> [at : {"idle", "planned", "collapsed", "clear"},
                                   plan : SUBSET Planned]]

\* A row is deleted only beside a twin that stands for it: the same text,
\* accepted if it is a decision that promoted it, open if it is open, still
\* before the passes if it was, and under the old name if any of them was.
\* An accepted row, to which a learning refers, is never deleted.
StandsFor(d, c) ==
    /\ packet[d].body = packet[c].body /\ packet'[d].status = packet[d].status
    /\ packet[c].status = "proposed" =>
         \/ packet[d].status = "accepted"
         \/ packet[d].status = "proposed" /\ (c \in marked \/ d \notin marked')
    /\ FromAlias(c) => packet'[d].alias \/ packet'[d].stamped
CollapseLosesNothing ==
    [][\A c \in Stored : packet'[c].status = "none" =>
          /\ packet[c].status # "accepted"
          /\ \E d \in Stored \ {c} : packet'[d].status # "none" /\ StandsFor(d, c)]_twinVars
===============================================================================
