------------------------------- MODULE MCDaemon -------------------------------
(***************************************************************************)
(* Safety of parts of the daemon that share no state: one run checks them   *)
(* side by side. A behaviour is one of one part, chosen at the start, and   *)
(* the other parts stand still.                                             *)
(*   corrections  Governance, with corrections only                         *)
(*   handoffs     Handoff                                                   *)
(*   vectors      VectorIndex                                               *)
(*   pages        PageIndex, while its author goes on editing               *)
(*   graph        GraphCommit                                               *)
(***************************************************************************)
EXTENDS Governance, Handoff, VectorIndex, PageIndex, GraphCommit

CONSTANTS agent, operator, i1, i2

VARIABLE part

\* The agents and the operator are principals of their own.
MCCanon == [a \in Agents |-> a]

OneAck == {"accepted"}

\* Both leases are sent once, or one of them twice.
TwoSends == \A l \in Leases, m \in Leases : l = m \/ sent[l] + sent[m] <= 2

\* Two sweeps of one vault, a run of the wiki indexer, or one of the ingest.
MCMixes ==
    {[i \in Indexers |-> "vault"]}
    \cup {[i \in Indexers |-> IF i = i1 THEN m ELSE "off"] : m \in {"wiki", "ingest"}}

daemonVars == <<part, vars, handoffVars, indexVars, pageVars, graphVars>>

Parts == {"corrections", "handoffs", "vectors", "pages", "graph"}

\* A part that stands still has one initial state.
DaemonInit ==
    /\ part \in Parts
    /\ Init /\ HandoffInit /\ GraphInit
    /\ IndexInit /\ (part # "vectors" => \A c \in IndexCalls : call[c] = Over)
    /\ PageInit
    /\ part # "pages" => /\ \A i \in Indexers : kind[i] = "vault"
                         /\ lastDoc = Cardinality(Virtual)
                         /\ \A p \in Pages : file[p].says \in {"accepted", "nothing"}

DaemonNext ==
    /\ UNCHANGED part
    /\ \/ part = "corrections" /\ Next
          /\ UNCHANGED <<handoffVars, indexVars, pageVars, graphVars>>
       \/ part = "handoffs" /\ HandoffNext /\ TwoSends'
          /\ UNCHANGED <<vars, indexVars, pageVars, graphVars>>
       \/ part = "vectors" /\ IndexNext
          /\ UNCHANGED <<vars, handoffVars, pageVars, graphVars>>
       \/ part = "pages" /\ PageNext
          /\ UNCHANGED <<vars, handoffVars, indexVars, graphVars>>
       \/ part = "graph" /\ GraphNext
          /\ UNCHANGED <<vars, handoffVars, indexVars, pageVars>>

DaemonSpec == DaemonInit /\ [][DaemonNext]_daemonVars

\* The type invariants of the parts.
PartsTypeOK == TypeOK /\ HandoffTypeOK /\ IndexTypeOK /\ PageTypeOK /\ GraphTypeOK
===============================================================================
