------------------------------ MODULE MCRequests ------------------------------
(***************************************************************************)
(* What the daemon does for its requests: one run checks these parts side by *)
(* side. A behaviour is one of one part, chosen at the start, and the other *)
(* parts stand still.                                                       *)
(*   review  GovernanceRefinement: staging and resolution against two       *)
(*           consolidation passes                                           *)
(*   search  SearchRequest                                                  *)
(*   recall  Recall                                                         *)
(***************************************************************************)
EXTENDS GovernanceRefinement, SearchRequest, Recall

CONSTANTS agent, operator

VARIABLE part

\* An agent and an operator, each a principal of its own.
MCCanon == [a \in Agents |-> a]

requestVars == <<part, vars, searchVars, recallVars>>

\* A part that stands still has one initial state.
RequestInit ==
    /\ part \in {"review", "search", "recall"}
    /\ Init
    /\ SearchInit /\ (part # "search" => scope = "personal" /\ hasOwn /\ left = 0)
    /\ RecallInit
    /\ part # "recall" => /\ remaining = 0 /\ ranker = "off" /\ index = "none"
                          /\ asked.chronological

RequestNext ==
    /\ UNCHANGED part
    /\ \/ part = "review" /\ Next /\ UNCHANGED <<searchVars, recallVars>>
       \/ part = "search" /\ SearchNext /\ UNCHANGED <<vars, recallVars>>
       \/ part = "recall" /\ RecallNext /\ UNCHANGED <<vars, searchVars>>

RequestSpec == RequestInit /\ [][RequestNext]_requestVars

\* The type invariants of the parts.
PartsTypeOK == TypeOK /\ SearchTypeOK /\ RecallTypeOK

\* A search, and each ranking it asks for, says what it lacks and counts what it shows.
SearchesAreHonest == SearchIsHonest /\ RecallIsHonest
===============================================================================
