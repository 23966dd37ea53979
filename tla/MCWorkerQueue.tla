---------------------------- MODULE MCWorkerQueue ----------------------------
(* Small instances of WorkerQueue for TLC. *)
EXTENDS WorkerQueue

CONSTANTS s1, k1, k2, k3

\* A slice that is started, blocked and completed.
OneSlice == [k \in Keys |-> s1]
StartBlockComplete ==
    [k \in Keys |-> IF k = k1 THEN "start" ELSE IF k = k2 THEN "block" ELSE "complete"]
ProgressComplete == [k \in Keys |-> IF k = k1 THEN "progress" ELSE "complete"]

\* Well typed, and an answer tells what became of its write, now and later.
QueueIsSound == TypeOK /\ AnswersAreTrue
=============================================================================
