----------------------------- MODULE CustomRefresh -----------------------------
(***************************************************************************)
(* The refresh of one registered custom MCP binding (custom_refresh.py): a  *)
(* config file that its operator edits too, and its row in wired.json. The  *)
(* file is checked against what was read, replaced, read back and recorded, *)
(* or put back; there is no lock on the file.                               *)
(***************************************************************************)
EXTENDS Integers, FiniteSets

CONSTANTS
    Payloads,       \* versions with a payload that verifies
    Refreshers,     \* runs of the refresh
    NoBinding,      \* a binding that is absent, disabled or the operator's own
    MaxEdits,       \* edits of the file, numbered: each makes another content
    MaxRefreshFaults

ASSUME RefreshAssumption == NoBinding \notin Payloads /\ MaxEdits \in Nat

VARIABLES
    config,     \* the file: the payload it binds, and the last edit in it
    rowOf,      \* the payload in the registry, whose row is keyed by the file
    refresher,  \* refresher[r]: where the run is, what it read and wants, its last answer
    nEdits, refreshFaults,
    overtaken,    \* history: edits that came between a run's check and its write
    stranded        \* history: a run died with its write neither recorded nor undone, or two
                \* writes of the file met

refreshVars == <<config, rowOf, refresher, nEdits, refreshFaults, overtaken, stranded>>

Content == [args : Payloads \cup {NoBinding}, edit : 0 .. MaxEdits]
NoContent == [args |-> NoBinding, edit |-> 0]
IdleRefresh == [at |-> "idle", read |-> NoContent, row |-> NoBinding, to |-> NoBinding,
                said |-> "nothing"]

\* An installed binding, and its row.
RefreshInit ==
    /\ rowOf \in Payloads
    /\ config = [args |-> rowOf, edit |-> 0]
    /\ nEdits = 0 /\ refreshFaults = 0 /\ overtaken = {} /\ stranded = FALSE
    /\ refresher = [r \in Refreshers |-> IdleRefresh]

\* The run r ends with an answer.
EndsWith(r, answer) == [refresher EXCEPT ![r] = [@ EXCEPT !.at = "idle", !.said = answer]]
Written(r) == [refresher[r].read EXCEPT !.args = refresher[r].to]

\* _refresh, up to the plan: the binding has to be the registered one before
\* anything is asked about the target.
PlanRefresh(r, v) ==
    /\ refresher[r].at = "idle"
    /\ refresher' = [refresher EXCEPT ![r] =
          [at |-> IF config.args = rowOf /\ v # rowOf THEN "planned" ELSE "idle",
           read |-> config, row |-> rowOf, to |-> v,
           said |-> CASE config.args = NoBinding -> "absent"
                      [] config.args \notin {NoBinding, rowOf} -> "foreign"
                      [] config.args = rowOf /\ v = rowOf -> "current"
                      [] OTHER -> "nothing"]]
    /\ UNCHANGED <<config, rowOf, nEdits, refreshFaults, overtaken, stranded>>

\* Mutant: the file is not compared with what was read.
CheckRecordOnly(r) ==
    /\ refresher[r].at = "planned"
    /\ refresher' = IF rowOf = refresher[r].row THEN [refresher EXCEPT ![r].at = "checked"]
                    ELSE EndsWith(r, "failed")
    /\ UNCHANGED <<config, rowOf, nEdits, refreshFaults, overtaken, stranded>>

\* The row is as it was read (_check_record), and after the backup the file is
\* as it was read.
CheckConfig(r) ==
    /\ refresher[r].at = "planned"
    /\ refresher' = IF rowOf = refresher[r].row /\ config = refresher[r].read
                    THEN [refresher EXCEPT ![r].at = "checked"] ELSE EndsWith(r, "failed")
    /\ UNCHANGED <<config, rowOf, nEdits, refreshFaults, overtaken, stranded>>

\* _replace: over whatever is there by now.
ReplaceConfig(r) ==
    /\ refresher[r].at = "checked"
    /\ config' = Written(r)
    /\ refresher' = [refresher EXCEPT ![r].at = "written"]
    /\ stranded' = (stranded \/ config # refresher[r].read)
    /\ UNCHANGED <<rowOf, nEdits, refreshFaults, overtaken>>

\* Mutants of the publication: the rollback does not look at the file, or is
\* left out.
PublishRollsBackBlindly(r) ==
    /\ refresher[r].at = "written"
    /\ IF config = Written(r) /\ rowOf = refresher[r].row
       THEN rowOf' = refresher[r].to /\ UNCHANGED config
       ELSE config' = refresher[r].read /\ UNCHANGED rowOf
    /\ refresher' = EndsWith(r, "failed")
    /\ UNCHANGED <<nEdits, refreshFaults, overtaken, stranded>>
PublishOnly(r) ==
    /\ refresher[r].at = "written"
    /\ rowOf' = IF config = Written(r) /\ rowOf = refresher[r].row
                THEN refresher[r].to ELSE rowOf
    /\ refresher' = EndsWith(r, "failed")
    /\ UNCHANGED <<config, nEdits, refreshFaults, overtaken, stranded>>

\* The readback, and the row in its lock if it is still the one that was read;
\* a failure puts the file back unless somebody wrote it since.
Publish(r) ==
    LET published == config = Written(r) /\ rowOf = refresher[r].row IN
    /\ refresher[r].at = "written"
    /\ \/ published /\ rowOf' = refresher[r].to /\ UNCHANGED <<config, refreshFaults>>
       \/ /\ published => refreshFaults < MaxRefreshFaults   \* the registry cannot be written
          /\ refreshFaults' = IF published THEN refreshFaults + 1 ELSE refreshFaults
          /\ config' = IF config = Written(r) THEN refresher[r].read ELSE config
          /\ UNCHANGED rowOf
    /\ stranded' = (stranded \/ config # Written(r))
    /\ refresher' = EndsWith(r, IF rowOf' # rowOf THEN "refreshed" ELSE "failed")
    /\ UNCHANGED <<nEdits, overtaken>>

\* The operator, or the host, saves the file, with or without a binding of his.
EditConfig(args) ==
    /\ nEdits < MaxEdits /\ args \in {config.args, NoBinding}
    /\ nEdits' = nEdits + 1
    /\ config' = [args |-> args, edit |-> nEdits + 1]
    /\ overtaken' = IF \E r \in Refreshers : refresher[r].at = "checked"
                  THEN overtaken \cup {nEdits + 1} ELSE overtaken
    /\ UNCHANGED <<rowOf, refresher, refreshFaults, stranded>>

KillRefresh(r) ==
    /\ refresher[r].at # "idle" /\ refreshFaults < MaxRefreshFaults
    /\ refreshFaults' = refreshFaults + 1
    /\ stranded' = (stranded \/ refresher[r].at = "written")
    /\ refresher' = EndsWith(r, "nothing")
    /\ UNCHANGED <<config, rowOf, nEdits, overtaken>>

RefreshNext ==
    \/ \E r \in Refreshers :
          \/ \E v \in Payloads : PlanRefresh(r, v)
          \/ CheckConfig(r) \/ ReplaceConfig(r) \/ Publish(r) \/ KillRefresh(r)
    \/ \E args \in Payloads \cup {NoBinding} : EditConfig(args)

RefreshSpec == RefreshInit /\ [][RefreshNext]_refreshVars

-----------------------------------------------------------------------------
RefreshTypeOK ==
    /\ config \in Content /\ rowOf \in Payloads
    /\ refresher \in [Refreshers -> [at : {"idle", "planned", "checked", "written"},
           read : Content, row : Payloads \cup {NoBinding}, to : Payloads \cup {NoBinding},
           said : {"nothing", "absent", "foreign", "current", "failed", "refreshed"}]]
    /\ nEdits \in 0 .. MaxEdits /\ overtaken \subseteq 0 .. MaxEdits

\* The last edit of the operator is in the file, unless it came between the last
\* check and the write: no run, rollback or crash takes an edit away, and a run
\* that overwrote one has not made up for it by an older file.
EditsSurvive == nEdits \notin overtaken => config.edit = nEdits

\* When nothing runs, the file binds the payload of its row or one of the
\* operator's making: a run that failed or lost a race undid its write. Only a
\* run that died before the record, or found an edit in what it wrote, or wrote
\* over one, leaves them apart.
BindingFollowsRow ==
    ((\A r \in Refreshers : refresher[r].at = "idle") /\ ~stranded /\ overtaken = {}) =>
        config.args \in {rowOf, NoBinding}

\* Both: neither an edit nor a binding is lost to a refresh.
RefreshKeepsBinding == EditsSurvive /\ BindingFollowsRow
===============================================================================
