------------------------------- MODULE MCQueues -------------------------------
(***************************************************************************)
(* Parts of the daemon and of the plugin that work off what waits; one run  *)
(* checks them side by side. A behaviour is one of one part, chosen at the  *)
(* start, and the other parts stand still.                                  *)
(*   candidates   Governance, with an alias vault and one AFM loop          *)
(*   drafts       DraftWriter                                               *)
(*   pages        DraftPages                                                *)
(*   lock         ThreadLock, with processes that crash and never stall     *)
(*   corrections  Reassert                                                  *)
(***************************************************************************)
EXTENDS Governance, DraftWriter, DraftPages, Reassert

CONSTANTS agent, alias, c1, c2, c3, NoOwner, Torn, MaxDirs

VARIABLES part, at, owner, pc, mine, known, alive, reused, theft, aged, nDirs

\* The alias slug maps to the agent, as agy does to gemini.
MCCanon == [a \in Agents |-> IF a = alias THEN agent ELSE a]

lockVars == <<at, owner, aged, nDirs, pc, mine, known, alive, reused, theft>>

Calls == {c1, c2, c3}

\* Two of three processes may die, and pids are not reused.
Lock == INSTANCE ThreadLock WITH
    Mortal <- {c1, c2}, Markers <- TRUE, Stalls <- FALSE, MaxFaults <- 0, faults <- 0

queuesVars == <<part, vars, draftVars, draftPageVars, lockVars, reassertVars>>

QueuesInit ==
    /\ part \in {"candidates", "drafts", "pages", "lock", "corrections"}
    /\ Init /\ DraftInit /\ DraftPagesInit /\ Lock!Init /\ ReassertInit
    /\ part # "corrections" => injects = "Stop"

QueuesNext ==
    /\ UNCHANGED part
    /\ \/ /\ part = "candidates" /\ Next
          /\ UNCHANGED <<draftVars, draftPageVars, lockVars, reassertVars>>
       \/ /\ part = "drafts" /\ DraftNext
          /\ UNCHANGED <<vars, draftPageVars, lockVars, reassertVars>>
       \/ /\ part = "pages" /\ DraftPagesNext
          /\ UNCHANGED <<vars, draftVars, lockVars, reassertVars>>
       \/ /\ part = "lock" /\ Lock!Next
          /\ UNCHANGED <<vars, draftVars, draftPageVars, reassertVars>>
       \/ /\ part = "corrections" /\ ReassertNext
          /\ UNCHANGED <<vars, draftVars, draftPageVars, lockVars>>

\* The fairness of each part, while it is the one that moves.
QueuesSpec ==
    /\ QueuesInit /\ [][QueuesNext]_queuesVars
    /\ \A p \in Passes : WF_vars(part = "candidates" /\ PassStep(p))
    /\ \A k \in Callers : /\ WF_draftVars(part = "drafts" /\ Select(k))
                          /\ WF_draftVars(part = "drafts" /\ CallerGoesOn(k))
    /\ WF_draftVars(part = "drafts" /\ WriterGoesOn)
    /\ \A c \in Calls : WF_lockVars(part = "lock" /\ Lock!Run(c))
    /\ WF_lockVars(part = "lock" /\ Lock!Age)
    /\ WF_reassertVars(part = "corrections" /\ \E h \in Hooks : Boot(h))
    /\ WF_reassertVars(part = "corrections" /\ \E h \in Hooks : StopHook(h))
    /\ \A h \in Hooks : WF_reassertVars(part = "corrections" /\ Runs(h))

\* The type invariants of the parts.
PartsTypeOK == TypeOK /\ DraftTypeOK /\ DraftPagesTypeOK /\ Lock!TypeOK /\ ReassertTypeOK

\* Governance: no proposed candidate stays unfenced and undecided.
QueueDrains == part = "candidates" => ProposedAreSettled

\* Reassert: a correction is kept until it is heard, and heard in the end.
EveryCorrectionIsHeard == []UnheardIsKept /\ (part = "corrections" => HeardInTheEnd)

\* DraftWriter: every candidate for review is fenced in the end.
EveryReviewIsFenced == part = "drafts" => ReviewsAreFenced

\* ThreadLock: every call for the lock ends, holding it or turned away.
EveryCallEnds == part = "lock" => Lock!EveryCallEnds
===============================================================================
