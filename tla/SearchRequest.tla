---------------------------- MODULE SearchRequest ----------------------------
(***************************************************************************)
(* One search request (recall.py): the corpora of its scope are asked one   *)
(* after the other under one deadline, their rows merged, the hits counted, *)
(* their confidences calibrated against the shared window, and the          *)
(* learnings looked up with what time is left. A ranking is what            *)
(* RankingContract allows. Every corpus has one document for the query.     *)
(***************************************************************************)
EXTENDS RankingContract, Sequences, FiniteSets, Functions

CONSTANTS Others,       \* the other agents' vaults
          Limit,        \* rows of an answer
          Threshold     \* scores that make calibration live

\* A request asks for a row at least.
ASSUME SearchAssumption ==
    /\ IsFiniteSet(Others) /\ "own" \notin Others /\ "shared" \notin Others
    /\ Limit \in Nat \ {0} /\ Threshold \in Nat \ {0}

VARIABLES
    scope, hasOwn,   \* the request: its scope, and whether its agent has a vault
    left,            \* of the budget
    engines,         \* generation of the vaults' engines (SIGHUP drops them), while legs run
    at,              \* where the handler is
    todo,            \* legs still to run
    snapshot,        \* the personal leg's result if any, for the own vault's second turn
    own, rest,       \* rows of the personal leg, and of the combined ones, until they are merged
    reports,         \* the degradations of the answer
    lateLeg,         \* a leg was poisoned by the deadline
    results,         \* the merged rows
    bumped,          \* access counts by corpus
    scored,          \* corpora whose row's score is in the window
    confidence,      \* of their rows: as formatted, or what calibration made of it
    window,          \* scores in the shared window, up to Threshold
    learnings,       \* what the learnings' lookup counted
    \* History:
    ran,             \* legs that ran: their corpus and what they owe to the report
    healthy          \* one of them returned a row that is not late

searchVars == <<scope, hasOwn, left, engines, at, todo, snapshot, own, rest, reports, lateLeg,
                results, bumped, scored, confidence, window, learnings, ran, healthy>>

Vaults == {"own"} \cup Others
Orders == Bijection(1 .. Cardinality(Others), Others)
Corpora == Vaults \cup {"shared"}
None == "none"

Leg(c, src, soft) == [corpus |-> c, src |-> src, soft |-> soft, engine |-> engines]
SharedLeg(soft) == [corpus |-> "shared", src |-> "c", soft |-> soft, engine |-> 0]
Report(src, agent, verdict) == [src |-> src, agent |-> agent, verdict |-> verdict]
Row(l, score, late) == [corpus |-> l.corpus, src |-> l.src, score |-> score, late |-> late]

\* A hybrid's score may be below a lexical one: cross-encoder logits are signed.
Scores(verdict) == IF verdict = "late" THEN {2} ELSE {1, 3}

SearchInit ==
    /\ scope \in {"personal", "combined", "both"} /\ hasOwn \in BOOLEAN
    /\ left \in {0, 1, 2} /\ engines = 1 /\ snapshot = <<>>
    /\ at = IF scope = "combined" THEN "resolving" ELSE "asking"
    /\ todo = CASE scope = "combined" -> <<>>
                [] scope # "combined" /\ hasOwn -> <<Leg("own", "p", FALSE)>>
                [] OTHER -> <<SharedLeg(scope = "both")>>
    /\ own = <<>> /\ rest = <<>> /\ reports = <<>> /\ lateLeg = FALSE
    /\ results = {} /\ bumped = [c \in Corpora |-> 0]
    /\ scored = {} /\ confidence = [c \in Corpora |-> "blend"]
    /\ window = 0 /\ learnings = "unasked" /\ ran = <<>> /\ healthy = FALSE

Request == <<scope, hasOwn>>
Rows == <<own, rest>>
Counts == <<bumped, scored, confidence, window, learnings>>

-----------------------------------------------------------------------------
(* The legs *)

\* The shared corpus may be asked twice; a report equal to one of its own is not
\* said again.
SharedReports == {ran[i].report : i \in {j \in DOMAIN ran : ran[j].corpus = "shared"}}
Told(l, report) ==
    /\ reports' = IF l.corpus = "shared" /\ report \in SharedReports
                  THEN reports ELSE Append(reports, report)
    /\ ran' = Append(ran, [corpus |-> l.corpus, report |-> report])

\* A vault's name is given in the combined legs; one the deadline interrupted is
\* reported without.
AgentOf(l, verdict) ==
    IF l.src = "c" /\ l.corpus # "shared" /\ verdict # "interrupted" THEN l.corpus ELSE None

\* The personal leg's rows, or its fallback's, are merged after the combined ones.
Keep(rows) == IF at = "asking" THEN own' = own \o rows /\ UNCHANGED rest
                               ELSE rest' = rest \o rows /\ UNCHANGED own

\* The engine and the principal of the personal leg: its result stands for this one.
Reusable(l) == /\ snapshot # <<>> /\ l.corpus = "own" /\ l.src = "c"
               /\ l.engine = snapshot[1].engine

\* retrieve_from: one retrieve, and its verdict with its rows. An interrupted call
\* may have published the poison of a variant before.
RunLeg ==
    /\ at \in {"asking", "combining"} /\ todo # <<>>
    /\ LET l == Head(todo) IN
       /\ ~Reusable(l)
       /\ \E e \in 0 .. left, v \in Verdicts, hit \in BOOLEAN, poison \in BOOLEAN :
            /\ MayAnswer(left, e, v, hit)
            /\ v = "late" => poison
            /\ v \in {"whole", "partial"} => ~poison
            /\ \E score \in Scores(v) :
                 /\ ~hit => \A other \in Scores(v) : score <= other
                 /\ LET rows == IF hit THEN <<Row(l, score, v = "late")>> ELSE <<>> IN
                    /\ Keep(rows)
                    /\ snapshot' = IF l.src = "p" /\ scope = "both"
                                   THEN <<[engine |-> l.engine, rows |-> rows, verdict |-> v,
                                           poison |-> poison]>>
                                   ELSE snapshot
            /\ left' = e /\ lateLeg' = (lateLeg \/ poison)
            /\ healthy' = (healthy \/ (hit /\ v # "late"))
            /\ Told(l, Report(l.src, AgentOf(l, v), v))
    /\ todo' = Tail(todo)
    /\ UNCHANGED <<Request, engines, at, results, Counts>>

\* The own vault's second turn: the same rows under the other marker.
ReuseSnapshot ==
    /\ at = "combining" /\ todo # <<>>
    /\ LET l == Head(todo) IN
       /\ Reusable(l)
       /\ Keep([i \in DOMAIN snapshot[1].rows |-> [snapshot[1].rows[i] EXCEPT !.src = "c"]])
       /\ lateLeg' = (lateLeg \/ snapshot[1].poison)
       /\ Told(l, Report("c", l.corpus, snapshot[1].verdict))
    /\ todo' = Tail(todo)
    /\ UNCHANGED <<Request, left, engines, at, snapshot, results, Counts, healthy>>

\* Mutant: the personal vault's failure is only logged.
LegFailsQuietly ==
    /\ at \in {"asking", "combining"} /\ todo # <<>>
    /\ LET l == Head(todo) IN
       /\ ~Reusable(l)
       /\ IF l.src = "c" /\ ~l.soft THEN at' = "failed" /\ UNCHANGED <<reports, ran, todo>>
          ELSE /\ IF l.src = "p" THEN UNCHANGED reports /\ ran' = Append(ran, [corpus |-> "own",
                                                report |-> Report("p", None, "failed")])
                  ELSE Told(l, Report(l.src, AgentOf(l, "failed"), "failed"))
               /\ todo' = (IF l.src = "p" THEN <<SharedLeg(TRUE)>> ELSE <<>>) \o Tail(todo)
               /\ UNCHANGED at
    /\ UNCHANGED <<Request, left, engines, snapshot, Rows, lateLeg, results, Counts, healthy>>

\* A leg that throws: reported, and a personal one falls back on the shared corpus;
\* only a shared corpus that is the whole scope fails the request.
LegFails ==
    /\ at \in {"asking", "combining"} /\ todo # <<>>
    /\ LET l == Head(todo) IN
       /\ ~Reusable(l)
       /\ IF l.src = "c" /\ ~l.soft THEN at' = "failed" /\ UNCHANGED <<reports, ran, todo>>
          ELSE /\ Told(l, Report(l.src, AgentOf(l, "failed"), "failed"))
               /\ todo' = (IF l.src = "p" THEN <<SharedLeg(TRUE)>> ELSE <<>>) \o Tail(todo)
               /\ UNCHANGED at
    /\ UNCHANGED <<Request, left, engines, snapshot, Rows, lateLeg, results, Counts, healthy>>

\* The vaults are looked up after the personal leg, the others in some order. The lookup may open a store:
\* one the deadline ends answers without rows, another failure is the request's.
ResolveVaults ==
    /\ at = "resolving"
    /\ \/ /\ at' = "combining"
          /\ \E order \in Orders :
               todo' = (IF hasOwn THEN <<Leg("own", "c", TRUE)>> ELSE <<>>)
                       \o [i \in 1 .. Cardinality(Others) |-> Leg(order[i], "c", TRUE)]
                       \o <<SharedLeg(TRUE)>>
       \/ at' = "failed" /\ UNCHANGED todo
    /\ UNCHANGED <<Request, left, engines, snapshot, Rows, reports, lateLeg, results, Counts, ran, healthy>>
ResolveExpires ==
    /\ at = "resolving" /\ left = 0
    /\ at' = "answered" /\ reports' = Append(reports, Report("request", None, "interrupted"))
    /\ UNCHANGED <<Request, left, engines, todo, snapshot, Rows, lateLeg, results, Counts, ran, healthy>>

-----------------------------------------------------------------------------
(* The answer *)

\* A row and its place in the lists.
Placed(rows, before) == {[row |-> rows[i], place |-> before + i] : i \in DOMAIN rows}

Priority(row) == IF row.src = "p" THEN 1 ELSE 0
Better(a, b) == \/ a.score > b.score
                \/ a.score = b.score /\ Priority(a) > Priority(b)

\* By score; of equal scores a personal one if those are preferred, then the earlier.
Ahead(g, h, preferPersonal) ==
    \/ g.row.score > h.row.score
    \/ g.row.score = h.row.score /\ preferPersonal /\ Priority(g.row) > Priority(h.row)
    \/ /\ g.row.score = h.row.score /\ g.place < h.place
       /\ preferPersonal => Priority(g.row) = Priority(h.row)
\* The first Limit hits.
Top(hits, preferPersonal) ==
    {h \in hits : Cardinality({g \in hits : Ahead(g, h, preferPersonal)}) < Limit}

\* Mutant: a document is merged once per marker.
EveryTurn(hits) == hits
\* Of the rows of one document the best, in the place of the first.
Deduped(hits) ==
    LET Twins(h) == {g \in hits : g.row.corpus = h.row.corpus}
        Best(h) == CHOOSE g \in Twins(h) : \A k \in Twins(h) : ~Better(k.row, g.row)
        firsts == {h \in hits : \A g \in Twins(h) : h.place <= g.place}
    IN  {[row |-> Best(h).row, place |-> h.place] : h \in firsts}

\* Mutant: a late row competes with the healthy ones.
AllRows(hits) == hits
\* A late row is dropped where there is a healthy one.
Ranked(hits) ==
    LET fit == {h \in hits : ~h.row.late} IN IF fit = {} THEN hits ELSE fit

\* merge_document_results, of the scope.
Merged ==
    LET personal == Placed(own, 0)
        combined == Top(Ranked(Placed(rest, Len(own))), FALSE)
        merged == CASE scope = "personal" -> personal
                    [] scope = "combined" -> combined
                    [] OTHER -> Top(Deduped(Ranked(personal \cup combined)), TRUE)
    IN  {h.row : h \in merged}

\* All legs are in; packing may leave rows out, or has no time left.
Merge ==
    /\ at \in {"asking", "combining"} /\ todo = <<>>
    /\ IF at = "asking" /\ scope = "both"
       THEN at' = "resolving" /\ UNCHANGED <<results, reports, Rows, snapshot, engines>>
       ELSE /\ at' = "counting" /\ own' = <<>> /\ rest' = <<>> /\ snapshot' = <<>> /\ engines' = 1
            /\ \/ results' = Merged /\ UNCHANGED reports
               \/ /\ left > 0 /\ UNCHANGED reports
                  /\ \E packed \in SUBSET Merged : packed # {} /\ results' = packed
               \/ /\ left = 0 /\ results' = Merged
                  /\ reports' = Append(reports, Report("request", "packing", "interrupted"))
    /\ UNCHANGED <<Request, left, todo, lateLeg, Counts, ran, healthy>>

Skipped(stage) == reports' = Append(reports, Report("request", stage, "interrupted"))

\* Mutant: an answer without rows counts, whatever its legs were.
AllRowsLate == results # {} /\ \A row \in results : row.late
\* Nothing is counted for an answer that is late in every row, or has none and a
\* late leg.
NothingCounts == IF results = {} THEN lateLeg ELSE \A row \in results : row.late

\* _bump_merged_document_access: each in a transaction of its own. One that the
\* deadline interrupts ends the counting, another failure the request.
Countable == {row \in results : ~row.late /\ bumped[row.corpus] = 0}
BumpRow ==
    /\ at = "counting" /\ ~NothingCounts
    /\ \E row \in Countable : bumped' = [bumped EXCEPT ![row.corpus] = @ + 1]
    /\ UNCHANGED <<Request, left, engines, at, todo, snapshot, Rows, reports, lateLeg, results,
                   scored, confidence, window, learnings, ran, healthy>>
EndCounting ==
    /\ at = "counting"
    /\ \/ (NothingCounts \/ Countable = {}) /\ at' = "scoring"
          /\ IF NothingCounts /\ left = 0 THEN Skipped("document_access") ELSE UNCHANGED reports
       \/ ~NothingCounts /\ Countable # {} /\ left = 0 /\ at' = "scoring" /\ Skipped("document_access")
       \/ ~NothingCounts /\ Countable # {} /\ at' = "failed" /\ UNCHANGED reports
    /\ UNCHANGED <<Request, left, engines, todo, snapshot, Rows, lateLeg, results, Counts, ran, healthy>>

Scorable == IF NothingCounts THEN {} ELSE {row \in results : ~row.late}

\* record_scores, first pass: the rows' scores into the window.
RecordRow ==
    /\ at = "scoring"
    /\ \E row \in Scorable : row.corpus \notin scored /\ scored' = scored \cup {row.corpus}
    /\ window' = IF window < Threshold THEN window + 1 ELSE window
    /\ UNCHANGED <<Request, left, engines, at, todo, snapshot, Rows, reports, lateLeg, results,
                   bumped, confidence, learnings, ran, healthy>>

\* The second pass starts once every score is in.
AllScored(row) == \A other \in Scorable : other.corpus \in scored

\* A calibration that fails leaves the raw blend.
CalibrateRow ==
    /\ at = "scoring"
    /\ \E row \in Scorable :
         /\ AllScored(row) /\ confidence[row.corpus] = "blend"
         /\ \E c \in {"raw", IF window >= Threshold THEN "rank" ELSE "raw"} :
              confidence' = [confidence EXCEPT ![row.corpus] = c]
    /\ UNCHANGED <<Request, left, engines, at, todo, snapshot, Rows, reports, lateLeg, results,
                   bumped, scored, window, learnings, ran, healthy>>
ToScore == {row \in Scorable : confidence[row.corpus] = "blend"}
\* Interrupted, every row has its first confidence again.
EndScoring ==
    /\ at = "scoring" /\ at' = "learning"
    /\ \/ ToScore = {} /\ UNCHANGED confidence
          /\ IF NothingCounts /\ left = 0 THEN Skipped("score_calibration") ELSE UNCHANGED reports
       \/ /\ ToScore # {} /\ left = 0 /\ Skipped("score_calibration")
          /\ confidence' = [c \in Corpora |-> "blend"]
    /\ UNCHANGED <<Request, left, engines, todo, snapshot, Rows, lateLeg, results, bumped, scored,
                   window, learnings, ran, healthy>>

\* search_learnings: its rows' access is counted unless nothing counts. A lookup
\* that fails, or that the deadline ends, leaves the answer without them.
LookUpLearnings ==
    /\ at = "learning" /\ at' = "answered"
    /\ \/ left > 0 /\ learnings' = (IF NothingCounts THEN "read" ELSE "counted") /\ UNCHANGED reports
       \/ left > 0 /\ UNCHANGED <<learnings, reports>>
       \/ left = 0 /\ Skipped("learnings") /\ UNCHANGED learnings
    /\ UNCHANGED <<Request, left, engines, todo, snapshot, Rows, lateLeg, results, bumped, scored,
                   confidence, window, ran, healthy>>

-----------------------------------------------------------------------------
(* The world meanwhile, where the request can tell *)

\* The legs take their own time.
TimePasses ==
    /\ at \in {"resolving", "counting", "scoring", "learning"} /\ left > 0 /\ left' = left - 1
    /\ UNCHANGED <<Request, engines, at, todo, snapshot, Rows, reports, lateLeg, results, Counts, ran, healthy>>
\* SIGHUP drops the vaults' engines.
Hangup ==
    /\ at \in {"asking", "resolving"} /\ engines = 1 /\ engines' = 2
    /\ UNCHANGED <<Request, left, at, todo, snapshot, Rows, reports, lateLeg, results, Counts, ran, healthy>>
\* Another request records a score.
OthersRecord ==
    /\ at \in {"counting", "scoring"} /\ window < Threshold /\ window' = window + 1
    /\ UNCHANGED <<Request, left, engines, at, todo, snapshot, Rows, reports, lateLeg, results,
                   bumped, scored, confidence, learnings, ran, healthy>>

SearchNext ==
    \/ RunLeg \/ ReuseSnapshot \/ LegFails \/ ResolveVaults \/ ResolveExpires \/ Merge
    \/ BumpRow \/ EndCounting \/ RecordRow \/ CalibrateRow \/ EndScoring \/ LookUpLearnings
    \/ TimePasses \/ Hangup \/ OthersRecord

SearchSpec == SearchInit /\ [][SearchNext]_searchVars

-----------------------------------------------------------------------------
SearchTypeOK ==
    /\ at \in {"asking", "resolving", "combining", "counting", "scoring", "learning",
               "answered", "failed"}
    /\ left \in Budgets /\ window \in 0 .. Threshold /\ scored \subseteq Corpora
    /\ \A row \in results : row.corpus \in Corpora /\ row.src \in {"p", "c"}
    /\ Cardinality(results) <= Limit
    /\ \A c \in Corpora : confidence[c] \in {"blend", "raw", "rank"} /\ bumped[c] \in Nat

\* A healthy ranking is never displaced by one the deadline cut short: once any
\* corpus of the scope has a healthy row, the answer is not empty and has no late one.
HealthyIsNotEvicted ==
    at \in {"counting", "scoring", "learning"} /\ healthy
        => results # {} /\ \A row \in results : ~row.late

\* The document of one corpus is in the answer once, counted once, and counted only
\* for an answer that has it; without an interruption every healthy one is.
CountsFollowAnswer ==
    /\ \A row, other \in results : row.corpus = other.corpus => row = other
    /\ \A c \in Corpora :
         /\ bumped[c] <= 1
         /\ bumped[c] = 1 => \E row \in results : row.corpus = c /\ ~row.late
    /\ at = "answered" /\ left > 0 => \A row \in results : row.late \/ bumped[row.corpus] = 1

\* An answer the deadline left with nothing but late rows, or with none at all,
\* leaves no trace: not in the access counts, the window, or the learnings.
LateAnswerLeavesNoTrace ==
    (results = {} /\ lateLeg) \/ (results # {} /\ \A row \in results : row.late)
        => /\ \A c \in Corpora : bumped[c] = 0
           /\ scored = {} /\ learnings # "counted"

\* What the answer says of its corpora is what they did: a report per leg, the
\* shared corpus's told apart only where they differ. One that reports nothing but
\* whole rankings has asked every corpus of the scope, and all in time.
EveryCorpusIsReported ==
    at \in {"counting", "scoring", "learning", "answered"} =>
      LET ofLegs == {i \in DOMAIN reports : reports[i].src # "request"}
          vaultRuns == {i \in DOMAIN ran : ran[i].corpus # "shared"}
      IN  /\ {reports[i] : i \in ofLegs} = {ran[i].report : i \in DOMAIN ran}
          /\ Cardinality(ofLegs) = Cardinality(vaultRuns) + Cardinality(SharedReports)
          /\ (\A i \in DOMAIN reports : reports[i].verdict = "whole") =>
               /\ \A i \in DOMAIN ran : ran[i].report.verdict = "whole"
               /\ scope # "personal" => Others \cup {"shared"} \cup (IF hasOwn THEN {"own"} ELSE {})
                                        \subseteq {ran[i].corpus : i \in DOMAIN ran}

\* All of these of one request.
SearchIsHonest ==
    HealthyIsNotEvicted /\ CountsFollowAnswer /\ LateAnswerLeavesNoTrace /\ EveryCorpusIsReported
=============================================================================
