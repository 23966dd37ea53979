------------------------------- MODULE Installer -------------------------------
(***************************************************************************)
(* update-plugin of the installer (propagate.py): it copies the plugin over *)
(* a surface's install root, stamps the root's .mcp.json, and then writes   *)
(* the host's own config and hooks. Surfaces may share a root; the host's   *)
(* operator edits the same files; runs overlap and die, and no lock keeps   *)
(* them apart. A bulk update refreshes what is bound and activates nothing. *)
(***************************************************************************)
EXTENDS Naturals

CONSTANTS
    Surfaces,
    Kind,       \* Kind[p]: "toml", "views" or "plain", which has no config of its own
    Root,       \* Root[p]: its install root
    Workspaces, \* workspaces a surface may be given
    Repo,       \* the one that an update takes where it finds none
    Runs,
    MaxUpdates, MaxChanges, MaxInstallFaults

\* A surface without a config of its own has a root of its own (platform_spec).
ASSUME InstallerAssumption ==
    /\ Surfaces # {}
    /\ Kind \in [Surfaces -> {"toml", "views", "plain"}] /\ Repo \notin Workspaces
    /\ \A p, q \in Surfaces : Kind[p] = "plain" /\ Root[p] = Root[q] => p = q
    /\ {MaxUpdates, MaxChanges, MaxInstallFaults} \subseteq Nat

WorkspaceIds == Workspaces \cup {Repo}
Roots == {Root[p] : p \in Surfaces}

VARIABLES
    tree,    \* tree[d]: the plugin in the root
    mcp,     \* mcp[d]: its .mcp.json, and the workspace in it
    host,    \* host[p]: the host's binding, and the workspace in it
    hooks,   \* hooks[p]: the entries in the host's hook file
    update,     \* update[r]: the update's step, what it was asked and has read
    nUpdates, nChanges, installFaults,
    \* History:
    granted,   \* granted[p]: the workspace last asked for, or found first
    woken,   \* surfaces whose binding a bulk update made
    mixed    \* roots where an update died between its read and its stamp, or two met there

installerVars ==
    <<tree, mcp, host, hooks, update, nUpdates, nChanges, installFaults, granted, woken, mixed>>

\* disturbed: another update or the operator has written since the update began.
IdleRun == [at |-> "idle", of |-> CHOOSE p \in Surfaces : TRUE, bulk |-> FALSE, asked |-> Repo,
            seen |-> Repo, said |-> "nothing", copied |-> FALSE, disturbed |-> FALSE]

\* Surfaces that are bound with a workspace of their own to an older plugin, or
\* a machine with nothing on it.
InstallerInit ==
    /\ \E w \in Workspaces, fresh \in BOOLEAN :
          /\ tree = [d \in Roots |-> IF fresh THEN "none" ELSE "old"]
          /\ mcp = [d \in Roots |-> [is |-> IF fresh THEN "absent" ELSE "ok", ws |-> w]]
          /\ host = [p \in Surfaces |-> [is |-> IF fresh THEN "none" ELSE "on", ws |-> w]]
          /\ hooks = [p \in Surfaces |-> IF fresh THEN "none" ELSE "old"]
          /\ granted = [p \in Surfaces |-> IF fresh THEN Repo ELSE w]
    /\ update = [r \in Runs |-> IdleRun]
    /\ nUpdates = 0 /\ nChanges = 0 /\ installFaults = 0 /\ woken = {} /\ mixed = {}

ActiveRuns == {r \in Runs : update[r].at # "idle"}
SurfaceOf(r) == update[r].of
\* The update r goes on to a step, or ends with a status.
GoesTo(r, step) == update' = [update EXCEPT ![r].at = step]
RunEnds(r, status) == update' = [update EXCEPT ![r].at = "idle", ![r].said = status]
Disturbed == [r \in Runs |-> [update[r] EXCEPT !.disturbed = TRUE]]

-----------------------------------------------------------------------------
\* Mutant: a bulk update finds out about the hooks when it gets there.
DecidedByHost(p, bulk) ==
    CASE host[p].is = "broken" -> "failed"
      [] bulk /\ host[p].is \in {"none", "off"} -> "skipped"
      [] OTHER -> "eligible"

\* host_decision, and what a bulk update looks at before it touches anything
\* (_native_hook_plan, _existing_grok_rules). asked = Repo: no --workspace.
Decided(p, bulk) ==
    CASE host[p].is = "broken" -> "failed"
      [] bulk /\ host[p].is \in {"none", "off"} -> "skipped"
      [] bulk /\ host[p].is = "on" /\ hooks[p] = "broken" -> "failed"
      [] OTHER -> "eligible"
StartRun(r, p, bulk, asked) ==
    LET verdict == Decided(p, bulk) IN
    /\ update[r].at = "idle" /\ nUpdates < MaxUpdates
    /\ nUpdates' = nUpdates + 1
    /\ update' = [Disturbed EXCEPT ![r] =
          [at |-> IF verdict = "eligible" THEN "read" ELSE "idle", of |-> p, bulk |-> bulk,
           asked |-> asked, seen |-> Repo, copied |-> FALSE, disturbed |-> ActiveRuns # {},
           said |-> IF verdict = "eligible" THEN "nothing" ELSE verdict]]
    /\ UNCHANGED <<tree, mcp, host, hooks, nChanges, installFaults, granted, woken, mixed>>

\* After the build: the env in the root's .mcp.json, which the copy takes away;
\* a file that cannot be parsed is refused before anything is copied.
ReadSurface(r) ==
    /\ update[r].at = "read"
    /\ \/ /\ \/ mcp[Root[SurfaceOf(r)]].is = "broken"
             \/ Kind[SurfaceOf(r)] = "toml" /\ host[SurfaceOf(r)].is = "broken"
          /\ RunEnds(r, "failed")
       \/ /\ mcp[Root[SurfaceOf(r)]].is # "broken"
          /\ Kind[SurfaceOf(r)] = "toml" => host[SurfaceOf(r)].is # "broken"
          /\ update' = [update EXCEPT ![r].at = "copy",
                ![r].seen = IF mcp[Root[SurfaceOf(r)]].is = "ok"
                            THEN mcp[Root[SurfaceOf(r)]].ws ELSE Repo]
    /\ mixed' = IF \E q \in ActiveRuns \ {r} :
                      update[q].at \in {"copy", "stamp"} /\ Root[SurfaceOf(q)] = Root[SurfaceOf(r)]
                THEN mixed \cup {Root[SurfaceOf(r)]} ELSE mixed
    /\ UNCHANGED <<tree, mcp, host, hooks, nUpdates, nChanges, installFaults, granted, woken>>

\* copy_tree: the source has no .mcp.json, and its like in the root is deleted.
CopyTree(r) ==
    /\ update[r].at = "copy"
    /\ tree' = [tree EXCEPT ![Root[SurfaceOf(r)]] = "new"]
    /\ mcp' = [mcp EXCEPT ![Root[SurfaceOf(r)]].is = "absent"]
    /\ update' = [update EXCEPT ![r].at = "stamp", ![r].copied = TRUE]
    /\ UNCHANGED <<host, hooks, nUpdates, nChanges, installFaults, granted, woken, mixed>>

\* Mutant: the workspace is looked for in the file, which the copy has deleted.
StampFromFile(r) ==
    /\ update[r].at = "stamp"
    /\ mcp' = [mcp EXCEPT ![Root[SurfaceOf(r)]] = [is |-> "ok", ws |->
          IF update[r].asked = Repo /\ @.is = "ok" THEN @.ws ELSE update[r].asked]]
    /\ granted' = IF Kind[SurfaceOf(r)] = "plain" /\ update[r].asked # Repo
                THEN [granted EXCEPT ![SurfaceOf(r)] = update[r].asked] ELSE granted
    /\ GoesTo(r, "host")
    /\ UNCHANGED <<tree, host, hooks, nUpdates, nChanges, installFaults, woken, mixed>>

\* mcp_json: the workspace asked for, or the one that was read.
StampRoot(r) ==
    /\ update[r].at = "stamp"
    /\ mcp' = [mcp EXCEPT ![Root[SurfaceOf(r)]] = [is |-> "ok", ws |->
          IF update[r].asked # Repo THEN update[r].asked ELSE update[r].seen]]
    /\ granted' = IF Kind[SurfaceOf(r)] = "plain" /\ update[r].asked # Repo
                THEN [granted EXCEPT ![SurfaceOf(r)] = update[r].asked] ELSE granted
    /\ GoesTo(r, "host")
    /\ UNCHANGED <<tree, host, hooks, nUpdates, nChanges, installFaults, woken, mixed>>

\* Mutants of the binding: the workspace is the root's, or a view is written
\* whether or not it is bound still.
BoundAsRoot(r) == [is |-> "on", ws |-> mcp[Root[SurfaceOf(r)]].ws]
IsWritableAlways(r) == TRUE

\* The binding an update writes. The TOML keeps the surface's own workspace
\* (replace_toml_sections); a view takes the update's (gemini_minni_entry).
Binding(r) == [is |-> "on", ws |->
    IF Kind[SurfaceOf(r)] = "toml" /\ update[r].asked = Repo /\ host[SurfaceOf(r)].is # "none"
    THEN host[SurfaceOf(r)].ws ELSE update[r].asked]
\* A bulk update looks at a view again before it writes it (_view_has_minni_binding).
IsWritable(r) ==
    ~(/\ update[r].bulk /\ Kind[SurfaceOf(r)] = "views"
      /\ host[SurfaceOf(r)].is \in {"none", "broken"})

WriteHost(r) ==
    /\ update[r].at = "host"
    /\ \/ /\ Kind[SurfaceOf(r)] = "plain" \/ ~IsWritable(r)
          /\ GoesTo(r, "hooks") /\ UNCHANGED <<host, granted, woken>>
       \/ /\ Kind[SurfaceOf(r)] # "plain" /\ IsWritable(r) /\ host[SurfaceOf(r)].is = "broken"
          /\ RunEnds(r, "failed") /\ UNCHANGED <<host, granted, woken>>
       \/ /\ Kind[SurfaceOf(r)] # "plain" /\ IsWritable(r) /\ host[SurfaceOf(r)].is # "broken"
          /\ host' = [host EXCEPT ![SurfaceOf(r)] = Binding(r)]
          /\ granted' = [granted EXCEPT ![SurfaceOf(r)] = IF update[r].asked # Repo THEN update[r].asked
                                             ELSE IF host[SurfaceOf(r)].is = "none" THEN Repo ELSE @]
          /\ woken' = IF update[r].bulk /\ host[SurfaceOf(r)].is = "none"
                      THEN woken \cup {SurfaceOf(r)} ELSE woken
          /\ GoesTo(r, "hooks")
    /\ UNCHANGED <<tree, mcp, hooks, nUpdates, nChanges, installFaults, mixed>>

\* Mutant: a hook that could not be registered does not count.
RefreshHooksSilently(r) ==
    /\ update[r].at = "hooks"
    /\ \/ /\ ~update[r].bulk /\ hooks' = [hooks EXCEPT ![SurfaceOf(r)] = "new"]
          /\ RunEnds(r, "updated") /\ UNCHANGED installFaults
       \/ /\ installFaults < MaxInstallFaults /\ installFaults' = installFaults + 1
          /\ RunEnds(r, "updated") /\ UNCHANGED hooks
    /\ UNCHANGED <<tree, mcp, host, nUpdates, nChanges, granted, woken, mixed>>

\* The hooks and rules: a bulk update refreshes its own entries and leaves others,
\* another update writes them or fails to (agy, a missing template); the status.
RefreshHooks(r) ==
    /\ update[r].at = "hooks"
    /\ \/ /\ hooks[SurfaceOf(r)] = "broken" /\ (update[r].bulk \/ Kind[SurfaceOf(r)] = "plain")
          /\ RunEnds(r, "failed") /\ UNCHANGED <<hooks, installFaults>>
       \/ /\ update[r].bulk /\ hooks[SurfaceOf(r)] # "broken"
          /\ hooks' = [hooks EXCEPT ![SurfaceOf(r)] = IF @ = "old" THEN "new" ELSE @]
          /\ RunEnds(r, "updated") /\ UNCHANGED installFaults
       \/ /\ ~update[r].bulk /\ (Kind[SurfaceOf(r)] = "plain" => hooks[SurfaceOf(r)] # "broken")
          /\ \/ /\ hooks' = [hooks EXCEPT ![SurfaceOf(r)] = "new"]
                /\ RunEnds(r, "updated") /\ UNCHANGED installFaults
             \/ /\ installFaults < MaxInstallFaults /\ installFaults' = installFaults + 1
                /\ RunEnds(r, "degraded") /\ UNCHANGED hooks
    /\ UNCHANGED <<tree, mcp, host, nUpdates, nChanges, granted, woken, mixed>>

\* An update dies; in the copy it may have deleted the .mcp.json, and in the write of
\* a TOML, which is not atomic, it leaves half of it.
KillRun(r) ==
    /\ update[r].at # "idle" /\ installFaults < MaxInstallFaults
    /\ installFaults' = installFaults + 1
    /\ RunEnds(r, "nothing")
    /\ \/ UNCHANGED <<tree, mcp, host>>
       \/ /\ update[r].at = "copy" /\ tree' = [tree EXCEPT ![Root[SurfaceOf(r)]] = "half"]
          /\ mcp' = [mcp EXCEPT ![Root[SurfaceOf(r)]].is = "absent"] /\ UNCHANGED host
       \/ /\ update[r].at = "host" /\ Kind[SurfaceOf(r)] = "toml"
          /\ host' = [host EXCEPT ![SurfaceOf(r)].is = "broken"] /\ UNCHANGED <<tree, mcp>>
    /\ mixed' = IF update[r].at \in {"copy", "stamp"} THEN mixed \cup {Root[SurfaceOf(r)]} ELSE mixed
    /\ UNCHANGED <<hooks, nUpdates, nChanges, granted, woken>>

\* The operator: a binding removed, disabled or damaged, hooks likewise, or a
\* .mcp.json that no longer parses.
OperatorEdits(p) ==
    /\ nChanges < MaxChanges /\ nChanges' = nChanges + 1
    /\ update' = Disturbed
    /\ \/ /\ \E state \in {"none", "broken"} \cup (IF host[p].is = "on" THEN {"off"} ELSE {}) :
                host' = [host EXCEPT ![p].is = state]
          /\ UNCHANGED <<mcp, hooks>>
       \/ /\ \E state \in {"none", "custom", "broken"} : hooks' = [hooks EXCEPT ![p] = state]
          /\ UNCHANGED <<mcp, host>>
       \/ /\ mcp[Root[p]].is = "ok" /\ mcp' = [mcp EXCEPT ![Root[p]].is = "broken"]
          /\ UNCHANGED <<host, hooks>>
    /\ UNCHANGED <<tree, nUpdates, installFaults, granted, woken, mixed>>

InstallerNext ==
    \/ \E r \in Runs :
          \/ \E p \in Surfaces, bulk \in BOOLEAN, asked \in WorkspaceIds :
                StartRun(r, p, bulk, asked)
          \/ ReadSurface(r) \/ CopyTree(r) \/ StampRoot(r) \/ WriteHost(r) \/ RefreshHooks(r)
          \/ KillRun(r)
    \/ \E p \in Surfaces : OperatorEdits(p)

InstallerSpec == InstallerInit /\ [][InstallerNext]_installerVars

-----------------------------------------------------------------------------
InstallerTypeOK ==
    /\ tree \in [Roots -> {"none", "old", "half", "new"}]
    /\ mcp \in [Roots -> [is : {"absent", "ok", "broken"}, ws : WorkspaceIds]]
    /\ host \in [Surfaces -> [is : {"none", "on", "off", "broken"}, ws : WorkspaceIds]]
    /\ hooks \in [Surfaces -> {"none", "old", "new", "custom", "broken"}]
    /\ granted \in [Surfaces -> WorkspaceIds] /\ woken \subseteq Surfaces /\ mixed \subseteq Roots
    /\ \A r \in Runs : update[r].at \in {"idle", "read", "copy", "stamp", "host", "hooks"}

\* A surface keeps the workspace it was granted, over updates that do not name one:
\* in its TOML whatever runs die or meet, also where the root is another's too,
\* and in the .mcp.json of a root of its own, unless an update died between its
\* read and its stamp of it, or two were there at a time.
WorkspaceIsKept ==
    \A p \in Surfaces :
        /\ Kind[p] = "toml" /\ host[p].is \in {"on", "off"} => host[p].ws = granted[p]
        /\ Kind[p] = "plain" /\ Root[p] \notin mixed /\ mcp[Root[p]].is = "ok" =>
              mcp[Root[p]].ws = granted[p]

\* A bulk update binds no view that its operator has unbound, not even while it ran.
BulkActivatesNothing == \A p \in woken : Kind[p] # "views"

\* An update that nothing disturbed and that says "updated" has left the surface on
\* the new plugin, its binding and its hooks with it; a bulk update that nothing
\* disturbed and that says "failed" or "skipped" has not touched it.
AnswersHold ==
    \A r \in Runs :
        /\ update[r].said = "updated" /\ ~update[r].disturbed =>
            /\ tree[Root[SurfaceOf(r)]] = "new" /\ mcp[Root[SurfaceOf(r)]].is = "ok"
            /\ Kind[SurfaceOf(r)] # "plain" => host[SurfaceOf(r)].is = "on"
            /\ hooks[SurfaceOf(r)] = "new" \/ (update[r].bulk /\ hooks[SurfaceOf(r)] \in {"none", "custom"})
        /\ update[r].said \in {"failed", "skipped"} /\ update[r].bulk /\ ~update[r].disturbed =>
              ~update[r].copied

\* All three: updates leave to the surfaces what is theirs, and say so truly.
UpdatesAreSafe == WorkspaceIsKept /\ BulkActivatesNothing /\ AnswersHold
===============================================================================
