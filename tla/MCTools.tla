------------------------------- MODULE MCTools -------------------------------
(***************************************************************************)
(* The tools an operator runs beside the daemon: they share no state, and   *)
(* one run checks them side by side. A behaviour is one of one part, chosen *)
(* at the start, and the other parts stand still.                           *)
(*   twins     TwinRepair                                                   *)
(*   payloads  PayloadStore                                                 *)
(*   custom    CustomRefresh                                                *)
(*   adoption  ClaudeAdoption                                               *)
(*   updates   Installer                                                    *)
(***************************************************************************)
EXTENDS TwinRepair, PayloadStore, CustomRefresh, ClaudeAdoption, Installer

CONSTANTS claude, generic, grok, antigravity, cursor

VARIABLE part

MCHostSets == {{claude}, {generic}}

\* Grok has a TOML, Antigravity JSON views, Cursor only its .mcp.json; the first
\* two share an install root.
MCKind == [p \in Surfaces |-> CASE p = grok -> "toml" [] p = antigravity -> "views" [] OTHER -> "plain"]
MCRoot == [p \in Surfaces |-> IF p = cursor THEN "local" ELSE "shared"]

toolsVars == <<part, twinVars, wireVars, refreshVars, adoptionVars, installerVars>>

\* A part that stands still has one initial state.
ToolsInit ==
    /\ part \in {"twins", "payloads", "custom", "adoption", "updates"}
    /\ TwinInit
    /\ part # "twins" => /\ uniq = "none" /\ marked = {}
                         /\ \A c \in Twins : packet[c] = CHOOSE p \in TwinRow : ~p.stamped
    /\ PayloadInit /\ (part # "payloads" => \A v \in Versions : dir[v] = "absent")
    /\ RefreshInit /\ (part # "custom" => rowOf = 1)
    /\ AdoptionInit
    /\ part # "adoption" => /\ plugins.user = "none" /\ plugins.project = "none"
                            /\ desktop = "none" /\ settings = FALSE
    /\ InstallerInit /\ (part # "updates" => \A d \in Roots : tree[d] = "none")

ToolsNext ==
    /\ UNCHANGED part
    /\ \/ part = "twins" /\ TwinNext
          /\ UNCHANGED <<wireVars, refreshVars, adoptionVars, installerVars>>
       \/ part = "payloads" /\ PayloadNext
          /\ UNCHANGED <<twinVars, refreshVars, adoptionVars, installerVars>>
       \/ part = "custom" /\ RefreshNext
          /\ UNCHANGED <<twinVars, wireVars, adoptionVars, installerVars>>
       \/ part = "adoption" /\ AdoptionNext
          /\ UNCHANGED <<twinVars, wireVars, refreshVars, installerVars>>
       \/ part = "updates" /\ InstallerNext
          /\ UNCHANGED <<twinVars, wireVars, refreshVars, adoptionVars>>

ToolsSpec == ToolsInit /\ [][ToolsNext]_toolsVars

\* The type invariants of the parts.
PartsTypeOK ==
    /\ TwinTypeOK /\ PayloadTypeOK /\ RefreshTypeOK /\ AdoptionTypeOK /\ InstallerTypeOK
===============================================================================
