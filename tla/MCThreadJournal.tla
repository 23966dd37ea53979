---------------------------- MODULE MCThreadJournal ----------------------------
(* A small instance of ThreadJournal for TLC. *)
EXTENDS ThreadJournal

CONSTANT orch

\* Both sessions belong to the orchestrator.
MCWho == [h \in Hooks |-> orch]
================================================================================
