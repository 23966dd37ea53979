------------------------- MODULE GovernanceRefinement -------------------------
(* Governance implements CandidateLedger: the candidate's status, with every *)
(* non-accept disposition read as closed, and the learnings that carry its   *)
(* id as their source.                                                       *)
EXTENDS Governance

LedgerState(status) ==
    IF status \in {"absent", "proposed", "accepted"} THEN status ELSE "closed"

Ledger == INSTANCE CandidateLedger WITH
    Ids    <- CandIds,
    Tokens <- LearnIds,
    state  <- [c \in CandIds |-> LedgerState(cand[c].status)],
    minted <- [c \in CandIds |-> {l \in LearnIds : Present(l) /\ learn[l].src = c}]

\* resolve_candidate, auto-accept and consolidation together implement the
\* abstract ledger: one settlement and one learning per candidate.
ImplementsLedger == Ledger!Spec
=============================================================================
