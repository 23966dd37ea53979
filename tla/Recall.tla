-------------------------------- MODULE Recall --------------------------------
(***************************************************************************)
(* One retrieve() of retrieval.py under a request's clock: its query        *)
(* variants one after the other, each with a lexical leg, a vector leg, a   *)
(* rerank and perhaps a second round for a hypothetical answer. Nothing     *)
(* that runs can be cancelled; what may not start any more is left out, and *)
(* told.                                                                    *)
(* What is published keeps RankingContract.                                 *)
(***************************************************************************)
EXTENDS RankingContract, Sequences

CONSTANTS MaxVariants,      \* queries that one query is expanded to
          MaxInvalidations  \* of the index, while the call runs

ASSUME RecallAssumption == MaxVariants \in Nat \ {0} /\ MaxInvalidations \in Nat

VARIABLES
    remaining,      \* of the budget
    encoder,        \* the process's embedding model: whether its load is over
    ranker,         \* its cross-encoder; off by the config, or missing once its load failed
    index,          \* the vector index; none: the store has no vectors
    invalidations,
    asked,          \* the request: by time, with HyDE
    place,          \* where the call is
    round,          \* 1, or 2 for the hypothetical answer
    variant,        \* the query that runs: 0 if there is only one, else 1 and on
    variants,
    flags,          \* verdicts of the query that runs, and at last of the call
    lexical, rows,  \* whether the leg, the ranking found something
    before,         \* flags and rows of the first round, for the second
    expanded,       \* verdict on the expansion, before the variants clear it
    kept,           \* variants that made it into the merge
    counted,        \* access counts are raised, if the caller asks for it
    \* History:
    start,          \* of the budget, when the call began
    lacks,          \* the ranking lacks the vectors of an index that has some
    complete,       \* the first round of the query that runs was in time
    timely         \* there was a ranking in time before any late one

recallVars == <<remaining, encoder, ranker, index, invalidations, asked, place, round, variant,
                variants, flags, lexical, rows, before, expanded, kept, counted, start, lacks,
                complete, timely>>

Marks == {"none", "late", "fault"}
Flags == [vector : Marks, rerank : Marks, expand : Marks, hyde : Marks]
Clean == [vector |-> "none", rerank |-> "none", expand |-> "none", hyde |-> "none"]
Poisoned(f) == f.vector = "late" \/ f.rerank = "late"

NoPass == [flags |-> Clean, rows |-> FALSE, lacks |-> FALSE]

PastDeadline == remaining <= 1
TooLateToLoad == remaining <= 2

\* What is warm has been loaded by others, before the call looks (OthersLoad).
RecallInit ==
    /\ remaining \in Budgets /\ start = remaining
    /\ encoder = "cold" /\ ranker \in {"off", "cold"}
    /\ index \in {"none", "cold"} /\ invalidations = 0
    /\ asked \in [chronological : BOOLEAN, hyde : BOOLEAN]
    /\ asked.chronological => ~asked.hyde
    /\ place = "expand" /\ round = 1 /\ variant = 0 /\ variants = 1
    /\ flags = Clean /\ lexical = FALSE /\ rows = FALSE
    /\ before = NoPass
    /\ expanded = "none" /\ kept = <<>> /\ counted = FALSE
    /\ lacks = FALSE /\ complete = FALSE /\ timely = FALSE

World == <<encoder, ranker, index, invalidations>>
\* What a leg or a round leaves alone.
Call == <<asked, variant, variants, expanded, kept, counted, start, timely>>

Flag(name, v) == flags' = [flags EXCEPT ![name] = v]
\* A native call takes what it takes.
TakesTime == remaining' \in 0 .. remaining

-----------------------------------------------------------------------------
(* The variants *)

\* _resolve_query_variants; the expansion may fail softly.
Expand ==
    /\ place = "expand"
    /\ \E expand \in BOOLEAN, n \in 1 .. MaxVariants, v \in {"none", "fault"} :
         /\ ~expand => v = "none"
         /\ ~expand \/ PastDeadline => n = 1
         /\ Flag("expand", IF expand /\ PastDeadline THEN "late" ELSE v)
         /\ variants' = n /\ expanded' = flags'.expand
         /\ IF n > 1 THEN variant' = 1 /\ place' = "variant"
                     ELSE variant' = 0 /\ place' = "lexical"
    /\ UNCHANGED <<remaining, World, asked, round, lexical, rows, before, kept, counted, start,
                   lacks, complete, timely>>

HasRanking == \E i \in DOMAIN kept : kept[i].rows

\* The loop's gate: a later query is not started once there is a ranking and the
\* time is up; after a miss it is.
BeginVariant ==
    /\ place = "variant"
    /\ IF HasRanking /\ PastDeadline
       THEN place' = "join" /\ UNCHANGED <<flags, rows, round, lacks, complete>>
       ELSE /\ place' = "lexical" /\ flags' = Clean /\ rows' = FALSE /\ round' = 1
            /\ lacks' = FALSE /\ complete' = FALSE
    /\ UNCHANGED <<remaining, World, Call, lexical, before>>

-----------------------------------------------------------------------------
(* The legs *)

\* _lexical_eligible: short statements still run when the time is up, and are
\* interrupted once none is remaining; before anything was searched that ends the call,
\* or its variants. In the order by time there is no other leg.
Lexical ==
    /\ place = "lexical"
    /\ LET next == IF asked.chronological THEN "gate" ELSE "semantic" IN
       \/ /\ place' = next /\ lexical' \in BOOLEAN /\ rows' = (asked.chronological /\ lexical')
          /\ Flag("vector", IF asked.chronological /\ PastDeadline THEN "late" ELSE "none")
       \/ remaining = 0 /\ place' = next /\ lexical' = FALSE /\ rows' = FALSE /\ Flag("vector", "late")
       \/ /\ remaining = 0 /\ place' = (IF variant = 0 THEN "interrupted" ELSE "join")
          /\ lexical' = FALSE /\ rows' = FALSE /\ UNCHANGED flags
    /\ UNCHANGED <<remaining, World, Call, round, before, lacks, complete>>

\* What the vector leg returns, and what it has not looked at.
LegEnds(found, unseen) ==
    /\ place' = "fuse" /\ rows' = (lexical \/ found) /\ lacks' = unseen
LateLeg == LegEnds(FALSE, index # "none") /\ Flag("vector", "late")
Goes(next) == place' = next /\ UNCHANGED <<rows, flags, lacks>>

\* Nothing found and nothing indexed: no model is loaded.
Semantic ==
    /\ place = "semantic"
    /\ IF PastDeadline THEN LateLeg
       ELSE IF ~lexical /\ index = "none" THEN LegEnds(FALSE, FALSE) /\ UNCHANGED flags
       ELSE Goes("encode")
    /\ UNCHANGED <<remaining, World, Call, round, lexical, before, complete>>

\* _encode_query: the request's memo may have what an earlier leg encoded, never a
\* hypothetical answer; the deadline comes before it. A lock that others hold is
\* waited for as long as a stage may start.
Encode ==
    /\ place = "encode"
    /\ \/ /\ PastDeadline \/ (encoder = "cold" /\ TooLateToLoad)
          /\ LateLeg /\ UNCHANGED <<remaining, encoder>>
       \/ ~PastDeadline /\ round = 1 /\ Goes("search") /\ UNCHANGED <<remaining, encoder>>
       \/ /\ ~PastDeadline /\ (encoder = "cold" => ~TooLateToLoad)
          /\ \/ remaining' = 1 /\ LateLeg /\ UNCHANGED encoder
             \/ /\ TakesTime /\ LegEnds(FALSE, index # "none") /\ Flag("vector", "fault")
                /\ encoder' = "warm"
             \/ /\ TakesTime /\ encoder' = "warm" /\ place' = "search" /\ UNCHANGED <<rows, lacks>>
                /\ Flag("vector", IF remaining' = 0 THEN "late" ELSE flags.vector)
    /\ UNCHANGED <<ranker, index, invalidations, Call, round, lexical, before, complete>>

\* _semantic_search; what is not found in a warm index is looked for once more.
Search ==
    /\ place = "search"
    /\ \/ PastDeadline /\ LateLeg
       \/ ~PastDeadline /\ index = "ready" /\ LegEnds(TRUE, FALSE) /\ UNCHANGED flags
       \/ ~PastDeadline /\ Goes("load")
    /\ UNCHANGED <<remaining, World, Call, round, lexical, before, complete>>

\* _ensure_faiss_loaded: from the disk if there is time for a stage, by a rebuild
\* if there is time for one, unless its lock is taken for as long. The store may not
\* hold still for the rebuild.
Load ==
    /\ place = "load" /\ place' = "again"
    /\ \/ index = "ready" /\ UNCHANGED <<remaining, index, flags>>
       \/ index # "ready" /\ PastDeadline /\ Flag("vector", "late") /\ UNCHANGED <<remaining, index>>
       \/ /\ index # "ready" /\ ~PastDeadline
          /\ \/ index = "cold" /\ index' = "ready" /\ UNCHANGED <<remaining, flags>>
             \/ /\ remaining' = (IF remaining = 3 THEN 2 ELSE remaining)
                /\ Flag("vector", "late") /\ UNCHANGED index
             \/ /\ ~TooLateToLoad /\ TakesTime /\ UNCHANGED flags
                /\ index' \in IF index = "cold" THEN {"cold", "ready"} ELSE {"none"}
    /\ UNCHANGED <<encoder, ranker, invalidations, Call, round, lexical, rows, before, lacks,
                   complete>>

\* Mutant: a load that was ran out of time is taken for a miss.
SearchWhatIsThere ==
    /\ place = "again"
    /\ IF PastDeadline THEN LateLeg
       ELSE /\ \E found \in BOOLEAN : (found => index = "ready") /\ LegEnds(found, index = "cold")
            /\ Flag("vector", "none")
    /\ UNCHANGED <<remaining, World, Call, round, lexical, before, complete>>

\* An index that is still cold for want of time is not a miss.
SearchAgain ==
    /\ place = "again"
    /\ IF PastDeadline \/ (index # "ready" /\ (TooLateToLoad \/ Poisoned(flags))) THEN LateLeg
       ELSE /\ \E found \in BOOLEAN : (found => index = "ready") /\ LegEnds(found, index = "cold")
            /\ UNCHANGED flags
    /\ UNCHANGED <<remaining, World, Call, round, lexical, before, complete>>

-----------------------------------------------------------------------------
(* The ranking *)

\* Mutant: the second round's verdicts stay.
DropRows(v) ==
    /\ place' = "gate" /\ rows' = before.rows /\ lacks' = before.lacks
    /\ flags' = [flags EXCEPT !.hyde = v]
\* The second round is not applied: the first one's ranking and verdicts stand.
DropSecond(v) ==
    /\ place' = "gate" /\ rows' = before.rows /\ lacks' = before.lacks
    /\ flags' = [before.flags EXCEPT !.hyde = v]

\* Both legs are merged; a second round without its vectors is dropped.
Fuse ==
    /\ place = "fuse"
    /\ IF round = 2 /\ flags.vector = "late" THEN DropSecond("late") ELSE Goes("rerank")
    /\ lexical' = FALSE /\ UNCHANGED <<remaining, World, Call, round, before, complete>>

\* The reranker property and _rerank, and their verdict. A model that cannot be
\* built is cached as None; a ranking whose scores are cached needs no call of it.
Scored(v) ==
    \/ /\ PastDeadline \/ (ranker = "cold" /\ TooLateToLoad)
       /\ v = "late" /\ UNCHANGED <<remaining, ranker>>
    \/ ~PastDeadline /\ ranker = "missing" /\ v = "none" /\ UNCHANGED <<remaining, ranker>>
    \/ /\ ~PastDeadline /\ ranker # "missing" /\ (ranker = "cold" => ~TooLateToLoad)
       /\ ranker' \in IF ranker = "cold" THEN {"warm", "missing"} ELSE {ranker}
       /\ \/ remaining' = 1 /\ v = "late"
          \/ UNCHANGED remaining /\ v = "none"
          \/ TakesTime /\ ranker' = "warm" /\ v = "fault"
          \/ TakesTime /\ ranker' = "missing" /\ v = "none"
          \/ TakesTime /\ ranker' = "warm" /\ v = IF remaining' = 0 THEN "late" ELSE "none"

RerankFirst ==
    /\ place = "rerank" /\ round = 1 /\ place' = "hyde"
    /\ IF rows /\ ranker # "off" THEN \E v \in {"none", "late", "fault"} : Scored(v) /\ Flag("rerank", v)
                                 ELSE UNCHANGED <<remaining, ranker, flags>>
    /\ complete' = (rows /\ ~Poisoned(flags'))
    /\ UNCHANGED <<encoder, index, invalidations, Call, round, lexical, rows, before, lacks>>

\* The second round is merged into the first, if neither it nor the clock is late.
RerankSecond ==
    /\ place = "rerank" /\ round = 2
    /\ \E v \in {"none", "late", "fault"} :
         /\ IF ranker # "off" THEN Scored(v) ELSE v = "none" /\ UNCHANGED <<remaining, ranker>>
         /\ LET f == IF v = "none" THEN flags ELSE [flags EXCEPT !.rerank = v]
            IN  IF remaining' <= 1 \/ Poisoned(f) THEN DropSecond("late")
                ELSE /\ place' = "gate" /\ flags' = f /\ rows' = (rows \/ before.rows)
                     /\ lacks' = before.lacks
    /\ UNCHANGED <<encoder, index, invalidations, Call, round, lexical, before, complete>>

\* The second round: if every result is weak and AFM has an answer in time.
Hyde ==
    /\ place = "hyde"
    /\ \/ /\ asked.hyde => ~PastDeadline
          /\ place' = "gate" /\ UNCHANGED <<remaining, flags, round, lexical, before>>
       \/ /\ asked.hyde /\ PastDeadline
          /\ place' = "gate" /\ Flag("hyde", "late") /\ UNCHANGED <<remaining, round, lexical, before>>
       \/ /\ asked.hyde /\ ~PastDeadline /\ rows /\ TakesTime
          /\ \/ /\ place' = "gate" /\ UNCHANGED <<round, lexical, before>>
                /\ \E v \in {"late", "fault"} : (v = "late" => remaining' <= 1) /\ Flag("hyde", v)
             \/ /\ remaining' > 1 /\ round' = 2 /\ lexical' \in BOOLEAN /\ place' = "encode"
                /\ before' = [flags |-> flags, rows |-> rows, lacks |-> lacks] /\ UNCHANGED flags
    /\ UNCHANGED <<World, Call, rows, lacks, complete>>

\* Any step of the second round may raise.
SecondPassFails ==
    /\ round = 2 /\ place \in {"encode", "search", "load", "again", "fuse", "rerank"}
    /\ DropSecond("fault")
    /\ UNCHANGED <<remaining, World, Call, round, lexical, before, complete>>

\* Status and privacy again, the read gate, the formatting, and the access counts.
Gate ==
    /\ place = "gate" /\ place' = "settle"
    /\ \E r \in BOOLEAN : (r => rows) /\ rows' = r
    /\ counted' = (variant = 0 /\ rows' /\ ~Poisoned(flags))
    /\ lexical' = FALSE /\ before' = NoPass /\ round' = 1
    /\ UNCHANGED <<remaining, World, asked, variant, variants, expanded, kept, start, timely,
                   flags, lacks, complete>>

-----------------------------------------------------------------------------
(* The merge of the variants *)

InTime == \A i \in DOMAIN kept : ~Poisoned(kept[i].flags)

\* Mutant: whatever came back is merged.
DropsNone(child) == FALSE
\* _should_drop_deadline_child: what is late does not join a ranking that is not.
Drops(child) == HasRanking /\ Poisoned(child.flags) /\ InTime

SettleVariant ==
    /\ place = "settle"
    /\ LET child == [flags |-> flags, rows |-> rows, lacks |-> lacks] IN
       IF variant > 0 /\ Drops(child) THEN place' = "join" /\ UNCHANGED <<variant, kept>>
       ELSE /\ kept' = Append(kept, child)
            /\ IF variant = 0 THEN place' = "published" /\ UNCHANGED variant
               ELSE IF variant = variants THEN place' = "join" /\ UNCHANGED variant
               ELSE place' = "variant" /\ variant' = variant + 1
    /\ timely' = (timely \/ (complete /\ rows /\ InTime))
    /\ complete' = FALSE
    /\ UNCHANGED <<remaining, World, asked, variants, round, flags, lexical, rows, before, expanded,
                   counted, start, lacks>>

Truncated == Len(kept) < variants

\* Mutant: the last variant decides.
LastOf(name) == IF kept = <<>> THEN "none" ELSE kept[Len(kept)].flags[name]
\* The verdicts of what was kept; of several the deadline's is heard.
Joined(name) ==
    LET told == {kept[i].flags[name] : i \in DOMAIN kept}
    IN  IF "late" \in told THEN "late" ELSE IF "fault" \in told THEN "fault" ELSE "none"

Join ==
    /\ place = "join" /\ place' = "published"
    /\ flags' = [vector |-> Joined("vector"), rerank |-> Joined("rerank"),
                  expand |-> IF Truncated THEN "late" ELSE expanded, hyde |-> Joined("hyde")]
    /\ rows' = HasRanking
    /\ counted' = (HasRanking /\ ~Poisoned(flags'))
    /\ UNCHANGED <<remaining, World, asked, round, variant, variants, lexical, before, expanded,
                   kept, start, lacks, complete, timely>>

-----------------------------------------------------------------------------
(* Meanwhile *)

Running == place \notin {"published", "interrupted"}
Untouched == <<Call, place, round, flags, lexical, rows, before, lacks, complete>>

\* Each where the call is about to look.
ClockRuns ==
    /\ place \in {"expand", "variant", "lexical", "semantic", "encode", "search", "load", "again",
                  "rerank", "hyde"}
    /\ remaining > 0 /\ remaining' = remaining - 1
    /\ UNCHANGED <<World, Untouched>>

\* The vault watch, or a writer whose refresh failed.
Invalidate ==
    /\ place \in {"search", "load", "again"}
    /\ index = "ready" /\ invalidations < MaxInvalidations
    /\ index' = "cold" /\ invalidations' = invalidations + 1
    /\ UNCHANGED <<remaining, encoder, ranker, Untouched>>

\* The warmup or another request loads what was cold.
OthersLoad ==
    /\ \/ place = "encode" /\ encoder = "cold" /\ encoder' = "warm" /\ UNCHANGED <<ranker, index>>
       \/ place = "rerank" /\ ranker = "cold" /\ ranker' = "warm" /\ UNCHANGED <<encoder, index>>
       \/ /\ place \in {"search", "load", "again"} /\ index = "cold" /\ index' = "ready"
          /\ UNCHANGED <<encoder, ranker>>
    /\ UNCHANGED <<remaining, invalidations, Untouched>>

RecallNext ==
    \/ Expand \/ BeginVariant \/ Lexical \/ Semantic \/ Encode \/ Search \/ Load \/ SearchAgain
    \/ Fuse \/ RerankFirst \/ RerankSecond \/ Hyde \/ SecondPassFails \/ Gate \/ SettleVariant \/ Join
    \/ ClockRuns \/ Invalidate \/ OthersLoad

RecallSpec == RecallInit /\ [][RecallNext]_recallVars

-----------------------------------------------------------------------------
RecallTypeOK ==
    /\ remaining \in Budgets /\ start \in Budgets /\ invalidations \in 0 .. MaxInvalidations
    /\ variants \in 1 .. MaxVariants /\ variant \in 0 .. variants /\ round \in {1, 2}
    /\ Len(kept) <= variants
    /\ flags \in Flags
    /\ place \in {"expand", "variant", "lexical", "semantic", "encode", "search", "load", "again",
                  "fuse", "rerank", "hyde", "gate", "settle", "join", "published", "interrupted"}

Verdict ==
    IF place = "interrupted" THEN "interrupted"
    ELSE IF Poisoned(flags) THEN "late"
    ELSE IF flags = Clean THEN "whole" ELSE "partial"

\* What a call says agrees with the time it had, as a search relies on.
KeepsContract == ~Running => MayAnswer(start, remaining, Verdict, rows)

\* A ranking that was complete in time is not called late for what followed it: not
\* for a second round, and not for a later variant.
HealthyStaysHealthy == place = "published" /\ timely => ~Poisoned(flags)

\* What the ranking lacks is told: the vectors of an index that has some, unless the
\* call began with time for a rebuild (the index was dropped behind its back, or the
\* store did not hold still); and every variant that was not merged. A late ranking
\* is not counted.
NothingIsLostSilently ==
    place = "published" =>
        /\ (\E i \in DOMAIN kept : kept[i].lacks) /\ flags.vector = "none" => start = 3
        /\ Truncated => flags.expand = "late"
        /\ counted => ~Poisoned(flags)

\* All of these of one call.
RecallIsHonest == KeepsContract /\ HealthyStaysHealthy /\ NothingIsLostSilently
===============================================================================
