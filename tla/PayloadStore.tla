----------------------------- MODULE PayloadStore -----------------------------
(***************************************************************************)
(* The versioned plugin payloads of one home (minni wire): a payload is     *)
(* staged and renamed into place under a lock of its version, the configs   *)
(* of the hosts are stamped with its path, verified and recorded in         *)
(* wired.json, and at the end of a run the versions that no host uses are   *)
(* pruned. Runs take no lock against each other.                            *)
(***************************************************************************)
EXTENDS Integers, FiniteSetsExt

CONSTANTS
    Versions,   \* payload versions, ordered
    Dev,        \* those of a checkout: never "current", never the newest release
    Hosts,      \* host configs
    HostSets,   \* sets of hosts that one run may name
    Scanned,    \* those at a path that the pruning reads
    Wires,      \* processes of minni wire
    MaxRuns, MaxWireFaults

ASSUME PayloadAssumption ==
    /\ Versions \subseteq Nat \ {0} /\ Dev \subseteq Versions /\ Scanned \subseteq Hosts
    /\ HostSets \subseteq SUBSET Hosts
    /\ Hosts \cap {"idle", "locking", "staging", "wiring", "pruning"} = {}

VARIABLES
    dir,        \* dir[v]: "absent", "good", or "holed" (files missing)
    staged,     \* staged[w]: the staging directory of the process
    aside,      \* versions moved to quarantine and not yet put back
    stamp,      \* stamp[h]: the version in the config of the host, 0 if none
    recorded,        \* recorded[h]: the version recorded in wired.json
    wire,       \* wire[w]: where the process is
    nRuns, wireFaults,
    damaged,    \* history: versions edited by hand
    crossed     \* history: another process ran while one pruned

wireVars == <<dir, staged, aside, stamp, recorded, wire, nRuns, wireFaults, damaged, crossed>>

IdleWire == [at |-> "idle", v |-> 0, force |-> FALSE, todo |-> {},
             wired |-> FALSE, doomed |-> {}]
StageOf == {"none", "partial", "full", "holed"}

\* The hosts that earlier runs wired, and what they left in the store.
PayloadInit ==
    /\ dir \in [Versions -> {"absent", "good"}]
    /\ staged = [w \in Wires |-> "none"]
    /\ aside = {}
    /\ stamp \in [Hosts -> {v \in Versions : dir[v] = "good"} \cup {0}] /\ recorded = stamp
    /\ wire = [w \in Wires |-> IdleWire]
    /\ nRuns = 0 /\ wireFaults = 0 /\ damaged = {} /\ crossed = FALSE

Goes(w, place) == wire' = [wire EXCEPT ![w].at = place]
WireEnds(w) == wire' = [wire EXCEPT ![w] = IdleWire]

-----------------------------------------------------------------------------
(* The payload (install_payload). *)

\* minni wire of a bundled or built payload, for some hosts.
StartWire(w, v, hs, force) ==
    /\ wire[w].at = "idle" /\ nRuns < MaxRuns
    /\ wire' = [wire EXCEPT ![w] = [IdleWire EXCEPT
          !.at = "locking", !.v = v, !.force = force, !.todo = hs]]
    /\ nRuns' = nRuns + 1
    /\ crossed' = (crossed \/ \E o \in Wires : wire[o].at = "pruning")
    /\ UNCHANGED <<dir, staged, aside, stamp, recorded, wireFaults, damaged>>

\* --use-version: a version that is installed, whatever is left of it.
UseVersion(w, v, hs) ==
    /\ wire[w].at = "idle" /\ nRuns < MaxRuns /\ dir[v] # "absent"
    /\ wire' = [wire EXCEPT ![w] = [IdleWire EXCEPT !.at = "wiring", !.v = v, !.todo = hs]]
    /\ nRuns' = nRuns + 1
    /\ crossed' = (crossed \/ \E o \in Wires : wire[o].at = "pruning")
    /\ UNCHANGED <<dir, staged, aside, stamp, recorded, wireFaults, damaged>>

\* _install_locked, up to the copy. A version that is there whole is taken, one
\* that differs is refused or, on --force-reinstall, moved aside.
LockInstall(w) ==
    LET v == wire[w].v IN
    /\ wire[w].at = "locking"
    /\ \A o \in Wires : wire[o].at = "staging" => wire[o].v # v
    /\ \/ dir[v] = "good" /\ Goes(w, "wiring") /\ UNCHANGED <<dir, staged, aside>>
       \/ dir[v] = "holed" /\ ~wire[w].force /\ WireEnds(w) /\ UNCHANGED <<dir, staged, aside>>
       \/ /\ dir[v] = "absent" \/ (dir[v] = "holed" /\ wire[w].force)
          /\ dir' = [dir EXCEPT ![v] = "absent"]
          /\ aside' = IF dir[v] = "holed" THEN aside \cup {v} ELSE aside
          /\ staged' = [staged EXCEPT ![w] = "partial"]
          /\ Goes(w, "staging")
    /\ UNCHANGED <<stamp, recorded, nRuns, wireFaults, damaged, crossed>>

\* Mutant: a payload is copied to its version directory itself.
CopyInPlace(w) ==
    /\ wire[w].at = "staging"
    /\ dir' = [dir EXCEPT ![wire[w].v] = IF staged[w] = "partial" THEN "holed" ELSE "good"]
    /\ staged' = [staged EXCEPT ![w] = IF @ = "partial" THEN "full" ELSE "none"]
    /\ IF staged[w] = "partial" THEN Goes(w, "staging") ELSE Goes(w, "wiring")
    /\ UNCHANGED <<aside, stamp, recorded, nRuns, wireFaults, damaged, crossed>>

\* The copy ends, unless its directory was taken away and a later file fails.
CopyStage(w) ==
    /\ wire[w].at = "staging" /\ staged[w] \in {"partial", "holed"}
    /\ \/ staged[w] = "partial" /\ staged' = [staged EXCEPT ![w] = "full"] /\ UNCHANGED wire
       \/ staged[w] = "holed" /\ staged' = [staged EXCEPT ![w] = "none"] /\ WireEnds(w)
    /\ UNCHANGED <<dir, aside, stamp, recorded, nRuns, wireFaults, damaged, crossed>>

\* The rename, of what the staging directory holds by now.
RenameStage(w) ==
    LET v == wire[w].v IN
    /\ wire[w].at = "staging" /\ staged[w] # "partial"
    /\ dir' = [dir EXCEPT ![v] = IF staged[w] = "full" THEN "good"
                                 ELSE IF staged[w] = "holed" THEN "holed" ELSE @]
    /\ aside' = IF staged[w] = "none" THEN aside ELSE aside \ {v}
    /\ staged' = [staged EXCEPT ![w] = "none"]
    /\ IF staged[w] = "none" THEN WireEnds(w) ELSE Goes(w, "wiring")
    /\ UNCHANGED <<stamp, recorded, nRuns, wireFaults, damaged, crossed>>

-----------------------------------------------------------------------------
(* The hosts (_wire_platform and run_wire). *)

\* The .mcp.json of the version, making its directory if need be, then the
\* config of the host.
StampHost(w, h) ==
    /\ wire[w].at = "wiring" /\ h \in wire[w].todo
    /\ dir' = [dir EXCEPT ![wire[w].v] = IF @ = "absent" THEN "holed" ELSE @]
    /\ stamp' = [stamp EXCEPT ![h] = wire[w].v]
    /\ Goes(w, h)
    /\ UNCHANGED <<staged, aside, recorded, nRuns, wireFaults, damaged, crossed>>

\* A preflight that fails, or a config that cannot be parsed.
RefuseHost(w, h) ==
    /\ wire[w].at = "wiring" /\ h \in wire[w].todo /\ wireFaults < MaxWireFaults
    /\ wire' = [wire EXCEPT ![w].todo = @ \ {h}]
    /\ wireFaults' = wireFaults + 1
    /\ UNCHANGED <<dir, staged, aside, stamp, recorded, nRuns, damaged, crossed>>

\* run_verify and upsert_wire. A payload with holes may pass the probes.
VerifyHost(w, h) ==
    LET v == wire[w].v IN
    /\ wire[w].at = h
    /\ \E passes \in BOOLEAN :
          /\ dir[v] = "good" => passes \/ wireFaults < MaxWireFaults
          /\ wireFaults' = IF dir[v] = "good" /\ ~passes THEN wireFaults + 1 ELSE wireFaults
          /\ recorded' = IF passes THEN [recorded EXCEPT ![h] = v] ELSE recorded
          /\ wire' = [wire EXCEPT ![w].at = "wiring", ![w].todo = @ \ {h},
                                  ![w].wired = @ \/ passes]
    /\ UNCHANGED <<dir, staged, aside, stamp, nRuns, damaged, crossed>>

-----------------------------------------------------------------------------
(* The pruning (run_gc), after a run that wired a host. *)

InStore == {v \in Versions : dir[v] # "absent"}
Newest(vs) == IF vs = {} THEN {} ELSE {Max(vs)}
\* Mutants: the configs, or the records, are not looked at.
ProtectedByRows == {recorded[h] : h \in Hosts}
ProtectedByScan == {stamp[h] : h \in Scanned}
\* _protected_versions: by wired.json or by the text of a known config.
Protected == {recorded[h] : h \in Hosts} \cup {stamp[h] : h \in Scanned}
\* _retention_set: the two newest releases besides.
Retained ==
    LET releases == InStore \ Dev
        newest == Newest(releases)
    IN  newest \cup Newest(releases \ newest) \cup Protected

Others(w) == \E o \in Wires \ {w} : wire[o].at # "idle"

ScanStore(w) ==
    /\ wire[w].at = "wiring" /\ wire[w].todo = {}
    /\ \/ /\ wire[w].wired
          /\ wire' = [wire EXCEPT ![w] = [@ EXCEPT !.at = "pruning", !.doomed =
                (InStore \ Retained) \cup {o \in Wires \ {w} : staged[o] # "none"}]]
       \/ WireEnds(w)   \* nothing was wired, or the operator declines
    /\ crossed' = (crossed \/ (wire[w].wired /\ Others(w)))
    /\ UNCHANGED <<dir, staged, aside, stamp, recorded, nRuns, wireFaults, damaged>>

PruneVersion(w, v) ==
    /\ wire[w].at = "pruning" /\ v \in wire[w].doomed
    /\ dir' = [dir EXCEPT ![v] = "absent"]
    /\ wire' = [wire EXCEPT ![w].doomed = @ \ {v}]
    /\ UNCHANGED <<staged, aside, stamp, recorded, nRuns, wireFaults, damaged, crossed>>

\* Staging directories are taken for orphans: what was copied goes, what is
\* copied later stays.
PruneStage(w, o) ==
    /\ wire[w].at = "pruning" /\ o \in wire[w].doomed
    /\ wire' = [wire EXCEPT ![w].doomed = @ \ {o}]
    /\ staged' = [staged EXCEPT ![o] = IF @ = "partial" THEN "holed" ELSE "none"]
    /\ UNCHANGED <<dir, aside, stamp, recorded, nRuns, wireFaults, damaged, crossed>>

EndPrune(w) ==
    /\ wire[w].at = "pruning" /\ wire[w].doomed = {} /\ WireEnds(w)
    /\ UNCHANGED <<dir, staged, aside, stamp, recorded, nRuns, wireFaults, damaged, crossed>>

KillWire(w) ==
    /\ wire[w].at # "idle" /\ wireFaults < MaxWireFaults
    /\ WireEnds(w) /\ staged' = [staged EXCEPT ![w] = "none"]
    /\ wireFaults' = wireFaults + 1
    /\ UNCHANGED <<dir, aside, stamp, recorded, nRuns, damaged, crossed>>

\* Somebody edits an installed payload.
Damage(v) ==
    /\ dir[v] = "good" /\ wireFaults < MaxWireFaults
    /\ dir' = [dir EXCEPT ![v] = "holed"]
    /\ damaged' = damaged \cup {v} /\ wireFaults' = wireFaults + 1
    /\ UNCHANGED <<staged, aside, stamp, recorded, wire, nRuns, crossed>>

PayloadNext ==
    \/ \E w \in Wires :
          \/ \E v \in Versions, hs \in HostSets :
                \/ \E force \in BOOLEAN : StartWire(w, v, hs, force)
                \/ UseVersion(w, v, hs)
          \/ LockInstall(w) \/ CopyStage(w) \/ RenameStage(w)
          \/ \E h \in Hosts : StampHost(w, h) \/ RefuseHost(w, h) \/ VerifyHost(w, h)
          \/ ScanStore(w) \/ EndPrune(w) \/ KillWire(w)
          \/ \E v \in Versions : PruneVersion(w, v)
          \/ \E o \in Wires : PruneStage(w, o)
    \/ \E v \in Versions : Damage(v)

PayloadSpec == PayloadInit /\ [][PayloadNext]_wireVars

-----------------------------------------------------------------------------
PayloadTypeOK ==
    /\ dir \in [Versions -> {"absent", "good", "holed"}]
    /\ staged \in [Wires -> StageOf]
    /\ aside \subseteq Versions /\ damaged \subseteq Versions
    /\ stamp \in [Hosts -> Versions \cup {0}] /\ recorded \in [Hosts -> Versions \cup {0}]
    /\ \A w \in Wires :
          /\ wire[w].at \in {"idle", "locking", "staging", "wiring", "pruning"} \cup Hosts
          /\ wire[w].v \in Versions \cup {0} /\ wire[w].todo \subseteq Hosts
          /\ wire[w].doomed \subseteq Versions \cup Wires

\* As long as no run prunes beside another one, the version that a host loads is
\* there, whichever runs failed or were killed on the way: the host is recorded
\* or its config is read. Only a forced reinstall that was cut short has it aside.
StampedIsKept ==
    ~crossed => \A h \in Hosts :
        (/\ stamp[h] # 0 /\ stamp[h] \notin aside
         /\ h \in Scanned \/ recorded[h] = stamp[h]) => dir[stamp[h]] # "absent"

\* As long as no run prunes beside another one, an installed version that nobody
\* edited has all its files, wherever an install was killed.
InstalledIsWhole ==
    ~crossed => \A v \in Versions : dir[v] = "holed" => v \in damaged \/ v \in aside

\* Both: what hosts load is there, and whole.
PayloadsAreWhole == StampedIsKept /\ InstalledIsWhole
===============================================================================
