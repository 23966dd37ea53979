--------------------------- MODULE RankingContract ---------------------------
(***************************************************************************)
(* What one retrieve() owes to the search that calls it: how the verdict it *)
(* publishes with its rows agrees with the time it had. Recall keeps this   *)
(* contract; SearchRequest relies on it and on nothing else of a ranking.   *)
(***************************************************************************)
EXTENDS Naturals

\* What is left of the request's budget: 3, more than a cold model or a rebuilt
\* index takes; 2, a stage may still start; 1, none may; 0, it has expired.
Budgets == 0 .. 3

\* whole: every leg ran; partial: one is missing or the enrichment is, and not for
\* the deadline; late: the ranking lacks its vector leg or its rerank for it;
\* interrupted: the deadline ended the call without a ranking.
Verdicts == {"whole", "partial", "late", "interrupted"}

\* A call that starts with s left and ends with e may say v, with rows or without.
MayAnswer(s, e, v, rows) ==
    /\ e <= s
    /\ v \in {"whole", "partial"} => s >= 2
    /\ v = "late" => e <= 2
    /\ v = "interrupted" => e = 0 /\ ~rows
===============================================================================
