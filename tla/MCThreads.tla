------------------------------ MODULE MCThreads ------------------------------
(***************************************************************************)
(* Safety of parts of the thread engine that share no state: one run        *)
(* checks them side by side. A behaviour is one of one part, chosen at the  *)
(* start, and the other parts stand still.                                  *)
(*   lock     ThreadLock, with processes that stall and are taken for dead  *)
(*   journal  ThreadJournal                                                 *)
(*   claims   SliceClaims                                                   *)
(*   graph    PlanGraph                                                     *)
(***************************************************************************)
EXTENDS ThreadLock, ThreadJournal, SliceClaims, PlanGraph

CONSTANTS c1, c2, c3, orch

VARIABLE part

\* Both sessions belong to the orchestrator.
MCWho == [h \in Hooks |-> orch]

threadsVars == <<part, vars, journalVars, claimVars, graphVars>>

\* A part that stands still has one initial state.
ThreadsInit == /\ part \in {"lock", "journal", "claims", "graph"}
               /\ Init /\ JournalInit /\ ClaimInit
               /\ GraphInit /\ (part # "graph" => \A s \in Born : slices[s].deps = {})

ThreadsNext ==
    /\ UNCHANGED part
    /\ \/ part = "lock" /\ Next /\ UNCHANGED <<journalVars, claimVars, graphVars>>
       \/ part = "journal" /\ JournalNext /\ UNCHANGED <<vars, claimVars, graphVars>>
       \/ part = "claims" /\ ClaimNext /\ UNCHANGED <<vars, journalVars, graphVars>>
       \/ part = "graph" /\ GraphNext /\ UNCHANGED <<vars, journalVars, claimVars>>

ThreadsSpec == ThreadsInit /\ [][ThreadsNext]_threadsVars

\* The type invariants of the parts.
PartsTypeOK == TypeOK /\ JournalTypeOK /\ ClaimTypeOK /\ GraphTypeOK

\* The journal loses no event of a write, and its events tell what was written.
JournalIsTrue == EventsAreAccountedFor /\ PlanIsTold
===============================================================================
