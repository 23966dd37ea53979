------------------------------ MODULE Governance ------------------------------
(***************************************************************************)
(* The governed write path of the daemon: candidate packets, durable       *)
(* learnings and the afm_review fence, as the SQLite store holds them, and *)
(* every actor that changes them: RPC handlers of several principals       *)
(* (minnid_runtime/governance.py), inbox ingest, and the consolidation     *)
(* passes of the AFM loop and of daemon.compile (afm_passes/consolidation, *)
(* minnid_runtime/afm.py), which decide on what they read and apply the    *)
(* decisions later, one candidate at a time.                               *)
(*                                                                         *)
(* One action is one transaction of the store, or one read whose result    *)
(* is used after other transactions may have run. A definition headed      *)
(* "Mutant" is a faulty variant of the one below it; no specification uses *)
(* it, and the runs are shown to reject it in its place.                   *)
(***************************************************************************)
EXTENDS Naturals, FiniteSets

CONSTANTS
    Agents,        \* principals stamped by the daemon
    Canon,         \* _canonical_principal: alias slug -> canonical id
    Operators,     \* is_operator_principal (force learn, accept)
    Explicit,      \* explicitly_allowed_operator (cross-principal resolution)
    FlagAcceptors, \* literal accept_flagged capability
    AutoAccept,    \* auto_accept_own set in principals/<id>.json
    Contents,      \* content classes: equal content_hash
    Flagged,       \* contents for which is_instruction_like holds
    Short, Weak,   \* contents below the length floor, below the quality floor
    Dispositions,  \* non-accept terminal statuses of resolve_candidate
    Passes,        \* consolidation passes that may overlap
    MaxCand, MaxLearn, \* rows the two tables may hold
    MaxFaults      \* lost passes and failed promotions

ASSUME CanonAssumption ==
    /\ Canon \in [Agents -> Agents]
    /\ \A a \in Agents : Canon[Canon[a]] = Canon[a]

ASSUME PartsAssumption ==
    /\ Operators \subseteq Agents
    /\ Explicit \subseteq Agents
    /\ FlagAcceptors \subseteq Agents
    /\ AutoAccept \subseteq Agents
    /\ Flagged \subseteq Contents
    /\ Short \subseteq Contents /\ Weak \subseteq Contents

ASSUME NonEmptyAssumption == Agents # {} /\ Contents # {}

ASSUME BoundsAssumption ==
    MaxCand \in Nat /\ MaxLearn \in Nat /\ MaxFaults \in Nat

ASSUME DispositionsAssumption ==
    Dispositions \cap {"absent", "proposed", "accepted"} = {}

CandIds  == 1..MaxCand
LearnIds == 1..MaxLearn

\* "safe" stands for _SAFE_PRIVACY, "review" for the clamp of stage_candidate,
\* "private" for anything outside _EXAMINABLE_PRIVACY.
Privacy == {"safe", "review", "private"}

Statuses == {"absent", "proposed", "accepted", "rejected"} \cup Dispositions

\* A row that was never inserted keeps the filler values of NoCandidate.
Candidate == [status : Statuses, owner : Agents, content : Contents,
              privacy : Privacy, flagged : BOOLEAN,
              by : {"nobody", "principal", "auto", "afm"}]

\* via, writer and src are history: which path wrote the learning, on whose
\* authority, and from which candidate (0 when it came from none).
Learning == [status : {"absent", "active", "superseded"}, owner : Agents,
             content : Contents, hashed : BOOLEAN, sup : 0..MaxLearn,
             src : 0..MaxCand, writer : Agents,
             via : {"force", "auto", "manual", "afm", "correct"}]

\* One contradiction_events row.
Event == [old : LearnIds, new : LearnIds, by : Agents]

\* A consolidation pass: the rows it still has to examine, the keys it has
\* already decided to promote, its three decision lists, all ids it decided
\* on, and the candidate whose promotion is prepared (snapshot read,
\* embedding computed).
PassState == [phase : {"idle", "hashed", "examine", "decided", "apply"},
              todo : SUBSET CandIds, seen : SUBSET (Agents \X Contents),
              promote : SUBSET CandIds, dedup : SUBSET CandIds,
              review : SUBSET CandIds, took : SUBSET CandIds,
              cur : 0..MaxCand]

VARIABLES
    cand,     \* candidate_packets
    learn,    \* learnings
    fenced,   \* candidates with an afm_review marker that is not superseded
    events,   \* contradiction_events
    nCand, nLearn,  \* last AUTOINCREMENT ids
    pass,     \* consolidation passes, in daemon memory
    faults    \* faults so far

store == <<cand, learn, fenced, events, nCand, nLearn>>
vars == <<store, pass, faults>>

-----------------------------------------------------------------------------
(* Reads shared by the handlers *)

IsProposed(c) == cand[c].status = "proposed"

\* ACTIVE_LEARNING_SQL on this module's two lifecycle values.
Active(l) == learn[l].status = "active" /\ learn[l].sup = 0

\* has_active_learning_hash: rows without a stored hash do not match.
HasActiveHash(x, a) ==
    \E l \in LearnIds : /\ Active(l) /\ learn[l].hashed
                        /\ learn[l].content = x /\ learn[l].owner = a

\* Owner check of resolve_candidate.
MayResolve(a, c) == Canon[cand[c].owner] = Canon[a] \/ a \in Explicit

\* computed_instruction_like: the stored stamp or the text itself.
InstructionLike(c) == cand[c].flagged \/ cand[c].content \in Flagged

\* auto_accept_blockers is empty; it reads the privacy the author declared.
AutoAcceptable(a, x, priv, flag) ==
    /\ a \in AutoAccept
    /\ ~flag /\ x \notin Flagged \cup Short \cup Weak
    /\ priv = "safe"

StoredPrivacy(a, priv) == IF a \in Explicit THEN priv ELSE "review"

IdlePass == [phase |-> "idle", todo |-> {}, seen |-> {}, promote |-> {},
             dedup |-> {}, review |-> {}, took |-> {}, cur |-> 0]

-----------------------------------------------------------------------------
(* Row writers: the INSERTs and the UPDATEs the transactions are made of *)

InsertCandidate(row) ==
    /\ nCand < MaxCand
    /\ cand' = [cand EXCEPT ![nCand + 1] = row]
    /\ nCand' = nCand + 1

NewLearning(a, x, hashed, src, writer, via) ==
    [status |-> "active", owner |-> a, content |-> x, hashed |-> hashed,
     sup |-> 0, src |-> src, writer |-> writer, via |-> via]

InsertLearning(row) ==
    /\ nLearn < MaxLearn
    /\ learn' = [learn EXCEPT ![nLearn + 1] = row]
    /\ nLearn' = nLearn + 1

\* Mutant: the accept paths forget supersede_afm_review.
SettleKeepsFence(c, status, flag, by) ==
    /\ cand' = [cand EXCEPT ![c].status = status, ![c].flagged = flag,
                            ![c].by = by]
    /\ fenced' = fenced

\* UPDATE candidate_packets ... and apply_accepted_candidate_effects: the
\* review fence is superseded in the transaction that resolves the row.
Settle(c, status, flag, by) ==
    /\ cand' = [cand EXCEPT ![c].status = status, ![c].flagged = flag,
                            ![c].by = by]
    /\ fenced' = fenced \ {c}

-----------------------------------------------------------------------------
(* RPC handlers *)

\* stage_candidate, when it stages: the row is written as proposed because the
\* principal is not opted in, a blocker withholds it, the duplicate check
\* fails, or preparing the hash, the embedding or the canonical node failed.
Stage(a, x, priv, flag) ==
    /\ InsertCandidate([status |-> "proposed", owner |-> a, content |-> x,
                        privacy |-> StoredPrivacy(a, priv),
                        flagged |-> flag \/ x \in Flagged,
                        by |-> "nobody"])
    /\ UNCHANGED <<learn, nLearn, fenced, events, pass, faults>>

\* Mutant: the duplicate check is made before the transaction, not in it.
StageAutoAcceptedUnchecked(a, x, priv, flag) ==
    /\ AutoAcceptable(a, x, priv, flag)
    /\ InsertCandidate([status |-> "accepted", owner |-> a, content |-> x,
                        privacy |-> StoredPrivacy(a, priv),
                        flagged |-> FALSE, by |-> "auto"])
    /\ InsertLearning(NewLearning(a, x, TRUE, nCand + 1, a, "auto"))
    /\ UNCHANGED <<fenced, events, pass, faults>>

\* Mutant: the learning commits, the accepted mark does not.
StageAutoAcceptedHalf(a, x, priv, flag) ==
    /\ AutoAcceptable(a, x, priv, flag)
    /\ ~HasActiveHash(x, a)
    /\ InsertCandidate([status |-> "proposed", owner |-> a, content |-> x,
                        privacy |-> StoredPrivacy(a, priv),
                        flagged |-> FALSE, by |-> "nobody"])
    /\ InsertLearning(NewLearning(a, x, TRUE, nCand + 1, a, "auto"))
    /\ UNCHANGED <<fenced, events, pass, faults>>

\* stage_candidate with auto_accept_own: insert, duplicate check, learning and
\* accepted mark in one transaction.
StageAutoAccepted(a, x, priv, flag) ==
    /\ AutoAcceptable(a, x, priv, flag)
    /\ ~HasActiveHash(x, a)
    /\ InsertCandidate([status |-> "accepted", owner |-> a, content |-> x,
                        privacy |-> StoredPrivacy(a, priv),
                        flagged |-> FALSE, by |-> "auto"])
    /\ InsertLearning(NewLearning(a, x, TRUE, nCand + 1, a, "auto"))
    /\ UNCHANGED <<fenced, events, pass, faults>>

\* inbox_ingest.ingest: a hook's file candidate, owned by the vault's
\* canonical principal, with the privacy the file declares.
Ingest(a, x, priv) ==
    /\ InsertCandidate([status |-> "proposed", owner |-> Canon[a],
                        content |-> x, privacy |-> priv,
                        flagged |-> x \in Flagged, by |-> "nobody"])
    /\ UNCHANGED <<learn, nLearn, fenced, events, pass, faults>>

\* Mutant: learning a text again reactivates the rows that carried it.
ForceLearnRevives(a, x, older) ==
    /\ a \in Operators
    /\ older \in 0..(nLearn + 1)
    /\ nLearn < MaxLearn
    /\ learn' = [l \in LearnIds |->
          IF l = nLearn + 1 THEN NewLearning(a, x, FALSE, 0, a, "force")
          ELSE IF learn[l].status = "superseded" /\ learn[l].content = x
               THEN [learn[l] EXCEPT !.status = "active", !.sup = 0]
               ELSE learn[l]]
    /\ nLearn' = nLearn + 1
    /\ UNCHANGED <<cand, nCand, fenced, events, pass, faults>>

\* handle_learn with force=true. An optional "supersedes" id (0: none) only
\* sets superseded_by; neither its owner nor its state is looked at, and the
\* id of the row just inserted is accepted.
ForceLearn(a, x, older) ==
    /\ a \in Operators
    /\ older \in 0..(nLearn + 1)
    /\ nLearn < MaxLearn
    /\ LET l == nLearn + 1
           added == [learn EXCEPT ![l] = NewLearning(a, x, FALSE, 0, a, "force")]
       IN  learn' = IF older = 0 THEN added
                    ELSE [added EXCEPT ![older].sup = l]
    /\ nLearn' = nLearn + 1
    /\ UNCHANGED <<cand, nCand, fenced, events, pass, faults>>

\* Mutant: instruction-like text is not gated on accept_flagged.
ResolveAcceptUngated(a, c) ==
    /\ IsProposed(c) /\ MayResolve(a, c)
    /\ a \in Operators \cup Explicit
    /\ InsertLearning(NewLearning(a, cand[c].content, FALSE, c, a, "manual"))
    /\ Settle(c, "accepted", InstructionLike(c), "principal")
    /\ UNCHANGED <<nCand, events, pass, faults>>

\* resolve_candidate with accept or learn. Every writer of the queue stamps
\* instruction-like text when it inserts the row, so the stamp the handler
\* adds before its checks (and commits even when it refuses) changes nothing.
ResolveAccept(a, c) ==
    /\ IsProposed(c) /\ MayResolve(a, c)
    /\ InstructionLike(c) => a \in FlagAcceptors
    /\ a \in Operators \cup Explicit
    /\ InsertLearning(NewLearning(a, cand[c].content, FALSE, c, a, "manual"))
    /\ Settle(c, "accepted", InstructionLike(c), "principal")
    /\ UNCHANGED <<nCand, events, pass, faults>>

\* Mutant: a non-accept decision does not look at the status.
ResolveOtherAgain(a, c, status) ==
    /\ cand[c].status # "absent" /\ MayResolve(a, c)
    /\ Settle(c, status, InstructionLike(c), "principal")
    /\ UNCHANGED <<learn, nLearn, nCand, events, pass, faults>>

\* resolve_candidate with any other decision, open to the owner too.
ResolveOther(a, c, status) ==
    /\ IsProposed(c) /\ MayResolve(a, c)
    /\ Settle(c, status, InstructionLike(c), "principal")
    /\ UNCHANGED <<learn, nLearn, nCand, events, pass, faults>>

\* Mutant: the supersession commits and the new learning is rolled back.
CorrectLosesInsert(a, old, x, hashed) ==
    /\ old # {}
    /\ \A l \in old : /\ learn[l].status # "absent"
                      /\ learn[l].owner = a \/ a \in Explicit
    /\ x \in Flagged => a \in FlagAcceptors
    /\ nLearn < MaxLearn
    /\ learn' = [l \in LearnIds |->
          IF l \in old
          THEN [learn[l] EXCEPT !.status = "superseded", !.sup = nLearn + 1]
          ELSE learn[l]]
    /\ UNCHANGED <<cand, nCand, nLearn, fenced, events, pass, faults>>

\* handle_resolve_contradiction: the superseded rows need not be active; the
\* hash is missing when the column could not be ensured.
Correct(a, old, x, hashed) ==
    /\ old # {}
    /\ \A l \in old : /\ learn[l].status # "absent"
                      /\ learn[l].owner = a \/ a \in Explicit
    /\ x \in Flagged => a \in FlagAcceptors
    /\ nLearn < MaxLearn
    /\ LET n == nLearn + 1
       IN  /\ learn' = [l \in LearnIds |->
                IF l = n THEN NewLearning(a, x, hashed, 0, a, "correct")
                ELSE IF l \in old
                     THEN [learn[l] EXCEPT !.status = "superseded", !.sup = n]
                     ELSE learn[l]]
           /\ events' = events \cup {[old |-> l, new |-> n, by |-> a] : l \in old}
    /\ nLearn' = nLearn + 1
    /\ UNCHANGED <<cand, nCand, fenced, pass, faults>>

-----------------------------------------------------------------------------
(* The consolidation pass: decide *)

\* _ensure_dedup_index: backfill the hash of every row that lacks one (a row
\* inserted while it runs keeps none, as one inserted right after it).
EnsureDedupIndex(p) ==
    /\ pass[p].phase = "idle"
    /\ learn' = [l \in LearnIds |-> IF learn[l].status = "absent" THEN learn[l]
                                    ELSE [learn[l] EXCEPT !.hashed = TRUE]]
    /\ pass' = [pass EXCEPT ![p].phase = "hashed"]
    /\ UNCHANGED <<cand, nCand, nLearn, fenced, events, faults>>

\* _proposed_candidates: one read of the unfenced queue.
SelectBatch(p) ==
    /\ pass[p].phase = "hashed"
    /\ pass' = [pass EXCEPT
                  ![p].phase = "examine",
                  ![p].todo = {c \in CandIds : IsProposed(c) /\ c \notin fenced}]
    /\ UNCHANGED <<store, faults>>

\* The decision run() takes for one row: the rows are snapshots, the
\* duplicate probe reads the learnings as they are now.
Decision(p, c) ==
    LET key == <<Canon[cand[c].owner], cand[c].content>>
    IN  IF key[2] \in Short THEN "review"
        ELSE IF key \in pass[p].seen \/ HasActiveHash(key[2], key[1]) THEN "dedup"
        ELSE IF InstructionLike(c) \/ key[2] \in Weak \/ cand[c].privacy # "safe"
             THEN "review"
        ELSE "promote"

\* One iteration of run(), in any order: proposed_at comes from the inbox file
\* and does not follow the ids.
Examine(p, c) ==
    /\ pass[p].phase = "examine" /\ c \in pass[p].todo
    /\ LET d == Decision(p, c)
       IN  pass' = [pass EXCEPT
              ![p].todo = @ \ {c}, ![p].took = @ \cup {c},
              ![p].promote = IF d = "promote" THEN @ \cup {c} ELSE @,
              ![p].seen = IF d = "promote"
                          THEN @ \cup {<<Canon[cand[c].owner], cand[c].content>>}
                          ELSE @,
              ![p].dedup = IF d = "dedup" THEN @ \cup {c} ELSE @,
              ![p].review = IF d = "review" THEN @ \cup {c} ELSE @]
    /\ UNCHANGED <<store, faults>>

FinishExamine(p) ==
    /\ pass[p].phase = "examine" /\ pass[p].todo = {}
    /\ pass' = [pass EXCEPT ![p].phase = "decided"]
    /\ UNCHANGED <<store, faults>>

-----------------------------------------------------------------------------
(* The consolidation pass: apply. The drafts are written between the two    *)
(* halves; the writer may take the batch at once, much later, or refuse it. *)

BeginApply(p) ==
    /\ pass[p].phase = "decided"
    /\ pass' = [pass EXCEPT ![p].phase = "apply"]
    /\ UNCHANGED <<store, faults>>

\* The batch is refused by the draft writer, or the daemon restarts.
LosePass(p) ==
    /\ pass[p].phase # "idle" /\ faults < MaxFaults
    /\ pass' = [pass EXCEPT ![p] = IdlePass]
    /\ faults' = faults + 1
    /\ UNCHANGED store

\* promote_candidate_durable up to the transaction: the row is read and its
\* embedding computed with no lock held.
PromoteRead(p, c) ==
    /\ pass[p].phase = "apply" /\ pass[p].cur = 0
    /\ c \in pass[p].promote
    /\ pass' = [pass EXCEPT ![p].promote = @ \ {c},
                            ![p].cur = IF IsProposed(c) THEN c ELSE 0]
    /\ UNCHANGED <<store, faults>>

\* Mutant: the transaction trusts the row read before the embedding.
PromoteCommitStale(p) ==
    LET c == pass[p].cur IN
    /\ c # 0
    /\ InsertLearning(NewLearning(Canon[cand[c].owner], cand[c].content, TRUE,
                                  c, Canon[cand[c].owner], "afm"))
    /\ Settle(c, "accepted", cand[c].flagged, "afm")
    /\ pass' = [pass EXCEPT ![p].cur = 0]
    /\ UNCHANGED <<nCand, events, faults>>

\* The transaction: the snapshot must still match (_row_matches_snapshot).
\* There is no duplicate check here, unlike the auto-accept transaction.
PromoteCommit(p) ==
    LET c == pass[p].cur IN
    /\ c # 0
    /\ IsProposed(c)
    /\ InsertLearning(NewLearning(Canon[cand[c].owner], cand[c].content, TRUE,
                                  c, Canon[cand[c].owner], "afm"))
    /\ Settle(c, "accepted", cand[c].flagged, "afm")
    /\ pass' = [pass EXCEPT ![p].cur = 0]
    /\ UNCHANGED <<nCand, events, faults>>

\* The row was resolved between the read and the transaction.
PromoteDrift(p) ==
    /\ pass[p].cur # 0
    /\ ~IsProposed(pass[p].cur)
    /\ pass' = [pass EXCEPT ![p].cur = 0]
    /\ UNCHANGED <<store, faults>>

\* The transaction raises (canonical node, busy store) and rolls back; the
\* exception is logged and the candidate stays proposed.
PromoteFail(p) ==
    /\ pass[p].cur # 0 /\ faults < MaxFaults
    /\ pass' = [pass EXCEPT ![p].cur = 0]
    /\ faults' = faults + 1
    /\ UNCHANGED store

\* reject_candidate_dedup: the replacement is looked up again in the
\* rejecting transaction.
Dedup(p, c) ==
    /\ pass[p].phase = "apply" /\ pass[p].cur = 0 /\ pass[p].promote = {}
    /\ c \in pass[p].dedup
    /\ pass' = [pass EXCEPT ![p].dedup = @ \ {c}]
    /\ IF IsProposed(c) /\ HasActiveHash(cand[c].content, Canon[cand[c].owner])
       THEN Settle(c, "rejected", cand[c].flagged, "afm")
       ELSE UNCHANGED <<cand, fenced>>
    /\ UNCHANGED <<learn, nLearn, nCand, events, faults>>

\* Mutant: review writes a status of its own instead of a fence.
ReviewSetsStatus(p, c) ==
    /\ pass[p].phase = "apply" /\ pass[p].cur = 0
    /\ pass[p].promote = {} /\ pass[p].dedup = {}
    /\ c \in pass[p].review
    /\ pass' = [pass EXCEPT ![p].review = @ \ {c}]
    /\ cand' = [cand EXCEPT ![c].status = "needs_review"]
    /\ UNCHANGED <<learn, nLearn, nCand, fenced, events, faults>>

\* Mutant: the review marker is never inserted.
ReviewWithoutFence(p, c) ==
    /\ pass[p].phase = "apply" /\ pass[p].cur = 0
    /\ pass[p].promote = {} /\ pass[p].dedup = {}
    /\ c \in pass[p].review
    /\ pass' = [pass EXCEPT ![p].review = @ \ {c}]
    /\ UNCHANGED <<cand, learn, nLearn, nCand, fenced, events, faults>>

\* mark_candidate_review: fence the row, stamping instruction-like text.
Review(p, c) ==
    /\ pass[p].phase = "apply" /\ pass[p].cur = 0
    /\ pass[p].promote = {} /\ pass[p].dedup = {}
    /\ c \in pass[p].review
    /\ pass' = [pass EXCEPT ![p].review = @ \ {c}]
    /\ IF IsProposed(c)
       THEN /\ cand' = [cand EXCEPT ![c].flagged = InstructionLike(c)]
            /\ fenced' = fenced \cup {c}
       ELSE UNCHANGED <<cand, fenced>>
    /\ UNCHANGED <<learn, nLearn, nCand, events, faults>>

FinishPass(p) ==
    /\ pass[p].phase = "apply" /\ pass[p].cur = 0
    /\ pass[p].promote = {} /\ pass[p].dedup = {} /\ pass[p].review = {}
    /\ pass' = [pass EXCEPT ![p] = IdlePass]
    /\ UNCHANGED <<store, faults>>

\* unpark_review_privacy_backlog --apply, run by hand from a process of its
\* own: lift the fence of the good rows that are only parked for privacy=review.
\* Any learning with the text keeps the row parked, whoever owns it.
Unpark ==
    LET parked == {c \in fenced :
          /\ IsProposed(c) /\ cand[c].privacy = "review" /\ ~InstructionLike(c)
          /\ cand[c].content \notin Short \cup Weak
          /\ ~\E l \in LearnIds : /\ learn[l].status # "absent"
                                  /\ learn[l].content = cand[c].content}
    IN  /\ parked # {}
        /\ fenced' = fenced \ parked
        /\ UNCHANGED <<cand, learn, nCand, nLearn, events, pass, faults>>

-----------------------------------------------------------------------------

NoCandidate == [status |-> "absent", owner |-> CHOOSE a \in Agents : TRUE,
                content |-> CHOOSE x \in Contents : TRUE,
                privacy |-> "review", flagged |-> FALSE, by |-> "nobody"]

NoLearning == [status |-> "absent", owner |-> CHOOSE a \in Agents : TRUE,
               content |-> CHOOSE x \in Contents : TRUE, hashed |-> FALSE,
               sup |-> 0, src |-> 0, writer |-> CHOOSE a \in Agents : TRUE,
               via |-> "force"]

Init ==
    /\ cand = [c \in CandIds |-> NoCandidate]
    /\ learn = [l \in LearnIds |-> NoLearning]
    /\ fenced = {} /\ events = {}
    /\ nCand = 0 /\ nLearn = 0
    /\ pass = [p \in Passes |-> IdlePass]
    /\ faults = 0

\* One wet consolidation pass, as daemon.compile runs it.
PassStep(p) ==
    \/ EnsureDedupIndex(p) \/ SelectBatch(p) \/ FinishExamine(p)
    \/ BeginApply(p) \/ PromoteCommit(p) \/ PromoteDrift(p) \/ FinishPass(p)
    \/ \E c \in CandIds : \/ Examine(p, c) \/ PromoteRead(p, c)
                          \/ Dedup(p, c) \/ Review(p, c)

PassFault(p) == LosePass(p) \/ PromoteFail(p)

Write(a) ==
    \/ \E x \in Contents, priv \in Privacy, flag \in BOOLEAN :
          Stage(a, x, priv, flag) \/ StageAutoAccepted(a, x, priv, flag)
    \/ \E x \in Contents, priv \in Privacy : Ingest(a, x, priv)
    \/ \E x \in Contents, older \in 0..MaxLearn : ForceLearn(a, x, older)
    \/ \E x \in Contents, old \in SUBSET LearnIds, hashed \in BOOLEAN :
          Correct(a, old, x, hashed)

Resolve(a) ==
    \E c \in CandIds : \/ ResolveAccept(a, c)
                       \/ \E s \in Dispositions : ResolveOther(a, c, s)

Next ==
    \/ \E a \in Agents : Write(a) \/ Resolve(a)
    \/ \E p \in Passes : PassStep(p) \/ PassFault(p)
    \/ Unpark

Spec == Init /\ [][Next]_vars

\* The AFM loop re-fires on its interval and nothing blocks a pass for ever;
\* faults are finitely many, so the steps of a pass keep being taken.
LiveSpec == Spec /\ \A p \in Passes : WF_vars(PassStep(p))

-----------------------------------------------------------------------------
(* Properties *)

TypeOK ==
    /\ cand \in [CandIds -> Candidate]
    /\ learn \in [LearnIds -> Learning]
    /\ fenced \subseteq CandIds
    /\ events \subseteq Event
    /\ nCand \in 0..MaxCand /\ nLearn \in 0..MaxLearn
    /\ pass \in [Passes -> PassState]
    /\ faults \in 0..MaxFaults

Present(l) == learn[l].status # "absent"

\* A candidate is accepted exactly when one learning came from it, and never
\* two: no accept path (resolve, auto-accept, consolidation) can write a
\* second learning for a row another path has already promoted.
AcceptedHasOneLearning ==
    /\ \A c \in CandIds : cand[c].status = "accepted" <=>
          \E l \in LearnIds : Present(l) /\ learn[l].src = c
    /\ \A l, m \in LearnIds :
          Present(l) /\ Present(m) /\ learn[l].src = learn[m].src /\ learn[l].src # 0
             => l = m

\* Who stood behind a durable write. Consolidation promotes only safe,
\* unflagged, good text; auto-accept only the opted-in principal's own; a
\* manual accept needs an operator and, for flagged text, accept_flagged; a
\* correction with flagged text needs accept_flagged as well.
DurableByAuthority ==
    \A l \in LearnIds : Present(l) =>
      LET c == cand[learn[l].src] IN
      CASE learn[l].via = "afm" ->
             /\ c.privacy = "safe" /\ ~c.flagged
             /\ learn[l].content \notin Flagged \cup Short \cup Weak
        [] learn[l].via = "auto" ->
             /\ learn[l].owner \in AutoAccept
             /\ learn[l].content \notin Flagged \cup Short \cup Weak
        [] learn[l].via = "manual" ->
             /\ learn[l].writer \in Operators \cup Explicit
             /\ c.flagged \/ learn[l].content \in Flagged => learn[l].writer \in FlagAcceptors
        [] learn[l].via = "correct" ->
             learn[l].content \in Flagged => learn[l].writer \in FlagAcceptors
        [] learn[l].via = "force" -> learn[l].writer \in Operators

\* The afm_review fence does not outlive the candidate it fences: every path
\* that resolves a row supersedes its marker in the same transaction.
FenceOnlyOnQueued == \A c \in fenced : IsProposed(c)

\* A candidate that consolidation rejected as a duplicate left its text, under
\* the same canonical owner, in the learnings.
RejectedCopyIsKept ==
    \A c \in CandIds : cand[c].status = "rejected" /\ cand[c].by = "afm" =>
      \E l \in LearnIds : /\ Present(l) /\ learn[l].content = cand[c].content
                          /\ learn[l].owner = Canon[cand[c].owner]

\* Two auto-accepts of one principal never leave the same text active twice,
\* whatever is superseded or re-learned in between.
AutoAcceptNeverTwins ==
    \A l, m \in LearnIds :
      /\ Active(l) /\ Active(m) /\ l # m
      /\ learn[l].via = "auto" /\ learn[m].via = "auto"
      => <<learn[l].owner, learn[l].content>> # <<learn[m].owner, learn[m].content>>

\* A text is kept once: its copies are rejected for it, and never accepted beside it.
CopiesYieldToOne == RejectedCopyIsKept /\ AutoAcceptNeverTwins

\* A learning that was replaced always has a live replacement at least as new
\* as its successor, however often it and its successors are corrected again.
SuccessorLives ==
    \A l \in LearnIds : learn[l].sup \notin {0, l} =>
      \E m \in LearnIds : m >= learn[l].sup /\ Active(m)

\* Resolution is terminal: a resolved row never changes again, by any path.
ResolutionIsTerminal ==
    [][\A c \in CandIds : cand[c].status \notin {"absent", "proposed"}
          => cand'[c] = cand[c]]_vars

\* A learning that left the active set never returns to it, its text and owner
\* are never rewritten, and its successor is only ever replaced by a newer one.
SupersessionIsMonotone ==
    [][\A l \in LearnIds : Present(l) =>
          /\ ~Active(l) => ~Active(l)'
          /\ learn'[l].content = learn[l].content /\ learn'[l].owner = learn[l].owner
          /\ learn'[l].sup >= learn[l].sup]_vars

\* Every candidate the passes can see is eventually resolved or fenced, unless
\* the learnings bound of the instance is exhausted.
ProposedAreSettled ==
    \A c \in CandIds :
      IsProposed(c) ~> (~IsProposed(c) \/ c \in fenced \/ nLearn = MaxLearn)
=============================================================================
