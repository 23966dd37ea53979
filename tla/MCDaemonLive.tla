----------------------------- MODULE MCDaemonLive -----------------------------
(***************************************************************************)
(* Parts of the daemon that repair what is left behind, and must get there  *)
(* in the end; one run checks them side by side. A behaviour is one of one  *)
(* part, chosen at the start, and the other parts stand still.              *)
(*   rows   Projection                                                      *)
(*   pages  PageIndex                                                       *)
(*   inbox  InboxFiles                                                      *)
(***************************************************************************)
EXTENDS Projection, PageIndex, InboxFiles

CONSTANTS k1, k2, k3, i1, i2, gemini, agy, t1, t2

VARIABLE part

\* Two sweeps of one vault, a run of the wiki indexer, or one of the ingest.
MCMixes ==
    {[i \in Indexers |-> "vault"]}
    \cup {[i \in Indexers |-> IF i = i1 THEN m ELSE "off"] : m \in {"wiki", "ingest"}}

\* The vault agy was renamed to gemini.
MCVaults == <<agy, gemini>>
MCOwner == [v \in {agy, gemini} |-> gemini]
MCDocs ==
    {[kind |-> "stop", cands |-> c] : c \in {<<t2, t1>>, <<t1, Echo, t1>>, <<Echo>>}}
    \cup {[kind |-> k, cands |-> <<t1>>] : k \in {"other agent", "dead letter"}}

repairVars == <<part, vars, pageVars, inboxVars>>

RepairInit ==
    /\ part \in {"rows", "pages", "inbox"}
    /\ Init /\ PageInit /\ InboxInit
    /\ part # "rows" => learn[1].key = k1
    /\ part # "pages" => /\ \A i \in Indexers : kind[i] = "vault"
                         /\ \A p \in Pages : file[p].says = "accepted" /\ Settled(p)
    /\ part # "inbox" => packets = {}

RepairNext ==
    /\ UNCHANGED part
    /\ \/ part = "rows" /\ Next /\ UNCHANGED <<pageVars, inboxVars>>
       \/ part = "pages" /\ PageNext /\ UNCHANGED <<vars, inboxVars>>
       \/ part = "inbox" /\ InboxNext /\ UNCHANGED <<vars, pageVars>>

\* The fairness of each part, while it is the one that moves.
RepairSpec ==
    /\ RepairInit /\ [][RepairNext]_repairVars
    /\ WF_vars(part = "rows" /\ Repair)
    /\ WF_vars(part = "rows" /\ \E d \in owed : Deliver(d))
    /\ \A i \in Indexers : WF_pageVars(part = "pages" /\ IndexerStep(i))
    /\ WF_inboxVars(part = "inbox" /\ Ingests)
    /\ WF_inboxVars(part = "inbox" /\ Cleans)
    /\ WF_inboxVars(part = "inbox" /\ Decides)

\* The type invariants of the parts.
PartsTypeOK == TypeOK /\ PageTypeOK /\ InboxTypeOK

\* Projection: text is given and taken with the learnings of a row, and it is
\* given in the end.
TextFollowsLearnings == TextIsEarned /\ (part = "rows" => RepairReachesEveryRow)

\* PageIndex: once its author has stopped, every page settles.
EveryPageSettles == part = "pages" => PagesSettle

\* InboxFiles: every file that can leave the inbox leaves it, and every candidate
\* in the others becomes a packet.
EveryFileIsDrained == part = "inbox" => FilesAreDrained
===============================================================================
