------------------------------ MODULE ToolProofs ------------------------------
(***************************************************************************)
(* Proofs about the tools of MCTools: the adoption of Claude's plugin, the  *)
(* refresh of a custom binding, the store of payloads, the repair of twin   *)
(* candidates and the installer's updates.                                  *)
(***************************************************************************)
EXTENDS MCTools, TLAPS, FiniteSetTheorems

-----------------------------------------------------------------------------
(* The cutover: ClaudeAdoption *)

\* What the cutover keeps of installed_plugins.json is the file, until somebody
\* else writes it.
PluginsAreKept ==
    /\ adopter.at # "idle" =>
         /\ adopter.plugins.user = "wire"
         /\ "plugins" \notin late =>
              /\ adopter.plugins.project = plugins.project
              /\ adopter.at # "registering" => plugins.user = "wire"
    /\ adopter.at = "registering" => hurried \/ adopter.plugins.others = nOthers

\* Every file that nobody wrote after the cutover read it is clear of the cache.
Unreferenced ==
    /\ \A c \in Configs \ late : ~RefersToCache(c)
    /\ "plugins" \notin late => plugins.user = "wire"

AdoptionShape ==
    /\ adopter = [at |-> adopter.at, plugins |-> adopter.plugins, desktop |-> adopter.desktop]
    /\ adopter.at \in {"idle", "registering", "registered", "repointed", "retired", "removing"}
    /\ adopter.desktop \in {"unread", "wire"}
    /\ adopter.plugins = [user |-> adopter.plugins.user, project |-> adopter.plugins.project,
                          others |-> adopter.plugins.others]
    /\ plugins = [user |-> plugins.user, project |-> plugins.project, others |-> plugins.others]

\* What a step of the cutover finds of the steps before it.
AdoptionInv ==
    /\ AdoptionShape
    /\ cache = ~removed
    /\ adopter.at \in {"retired", "removing"} \/ removed => ~market
    /\ PluginsAreKept
    /\ adopter.desktop = "wire" /\ "desktop" \notin late => desktop = "wire"
    /\ adopter.at = "removing" \/ removed => Unreferenced
    /\ OthersAreKept

LEMMA AdoptionInitInv == AdoptionInit => AdoptionInv
<1> SUFFICES ASSUME AdoptionInit PROVE AdoptionInv
  OBVIOUS
<1> USE DEF AdoptionInit, Kept
<1>1. plugins = [user |-> plugins.user, project |-> plugins.project, others |-> plugins.others]
  OBVIOUS
<1>2. AdoptionShape
  BY <1>1 DEF AdoptionShape
<1>3. PluginsAreKept /\ OthersAreKept
  BY DEF PluginsAreKept, OthersAreKept
<1> QED BY <1>2, <1>3 DEF AdoptionInv

\* The steps of the cutover.
LEMMA AdopterKeepsInv ==
    ASSUME AdoptionInv,
           ReadPlugins \/ WritePlugins \/ RepointDesktop \/ RetireMarketplace
             \/ ScanConfigs \/ RemoveCache \/ KillAdoption
    PROVE  AdoptionInv'
<1> USE DEF AdoptionInv, AdoptionShape, PluginsAreKept, OthersAreKept, Files, Meanwhile, Kept
<1>1. CASE ReadPlugins
  <2> USE <1>1 DEF ReadPlugins
  <2>1. AdoptionShape'
    OBVIOUS
  <2>2. removed /\ Unreferenced => Unreferenced'
    BY DEF Unreferenced, RefersToCache
  <2> QED BY <2>1, <2>2
<1>2. CASE WritePlugins
  <2> USE <1>2 DEF WritePlugins
  <2>1. AdoptionShape'
    OBVIOUS
  <2>2. Unreferenced => Unreferenced'
    BY DEF Unreferenced, RefersToCache
  <2> QED BY <2>1, <2>2
<1>3. CASE RepointDesktop
  <2> USE <1>3 DEF RepointDesktop
  <2>1. AdoptionShape'
    OBVIOUS
  <2>2. Unreferenced => Unreferenced'
    BY DEF Unreferenced, RefersToCache
  <2> QED BY <2>1, <2>2
<1>4. CASE RetireMarketplace
  <2> USE <1>4 DEF RetireMarketplace
  <2>1. AdoptionShape'
    OBVIOUS
  <2>2. Unreferenced => Unreferenced'
    BY DEF Unreferenced, RefersToCache
  <2> QED BY <2>1, <2>2
<1>5. CASE ScanConfigs
  <2> USE <1>5 DEF ScanConfigs
  <2>1. AdoptionShape'
    OBVIOUS
  <2>2. Unreferenced => Unreferenced'
    BY DEF Unreferenced, RefersToCache
  <2>3. Referrers = {} => Unreferenced'
    BY DEF Unreferenced, RefersToCache, Referrers, Configs
  <2> QED BY <2>1, <2>2, <2>3
<1>6. CASE RemoveCache
  <2> USE <1>6 DEF RemoveCache
  <2>1. AdoptionShape'
    OBVIOUS
  <2>2. Unreferenced'
    BY DEF Unreferenced, RefersToCache
  <2> QED BY <2>1, <2>2
<1>7. CASE KillAdoption
  <2> USE <1>7 DEF KillAdoption
  <2>1. AdoptionShape'
    OBVIOUS
  <2>2. Unreferenced => Unreferenced'
    BY DEF Unreferenced, RefersToCache
  <2> QED BY <2>1, <2>2
<1> QED BY <1>1, <1>2, <1>3, <1>4, <1>5, <1>6, <1>7

\* The steps of the others.
LEMMA OthersKeepInv ==
    ASSUME AdoptionInv, PluginUpdate \/ InstallOther \/ EditSettings \/ EditDesktop
    PROVE  AdoptionInv'
<1> USE DEF AdoptionInv, AdoptionShape, PluginsAreKept, OthersAreKept, Touch, IsJudged
<1>1. CASE PluginUpdate
  BY <1>1 DEF PluginUpdate
<1>2. CASE InstallOther
  <2> USE <1>2 DEF InstallOther
  <2>1. AdoptionShape'
    OBVIOUS
  <2>2. Unreferenced /\ (adopter.at = "removing" \/ removed) => Unreferenced'
    BY DEF Unreferenced, RefersToCache
  <2> QED BY <2>1, <2>2
<1>3. CASE EditSettings
  <2> USE <1>3 DEF EditSettings
  <2>1. AdoptionShape'
    OBVIOUS
  <2>2. Unreferenced /\ (adopter.at = "removing" \/ removed) => Unreferenced'
    BY DEF Unreferenced, RefersToCache, Configs
  <2> QED BY <2>1, <2>2
<1>4. CASE EditDesktop
  <2> USE <1>4 DEF EditDesktop
  <2>1. AdoptionShape'
    OBVIOUS
  <2>2. Unreferenced /\ (adopter.at = "removing" \/ removed) => Unreferenced'
    BY DEF Unreferenced, RefersToCache, Configs
  <2> QED BY <2>1, <2>2
<1> QED BY <1>1, <1>2, <1>3, <1>4

\* The cutover removes the cache only when nothing that nobody wrote meanwhile
\* needs it, and no other plugin's registration is lost to it, whenever it dies,
\* is run again, and whoever writes the configs in between.
THEOREM AdoptionIsHarmless == AdoptionSpec => []AdoptionBreaksNothing
<1>1. AdoptionInv /\ [AdoptionNext]_adoptionVars => AdoptionInv'
  <2> SUFFICES ASSUME AdoptionInv, [AdoptionNext]_adoptionVars PROVE AdoptionInv'
    OBVIOUS
  <2>1. CASE AdoptionNext
    BY <2>1, AdopterKeepsInv, OthersKeepInv DEF AdoptionNext
  <2>2. CASE UNCHANGED adoptionVars
    BY <2>2 DEF adoptionVars, AdoptionInv, AdoptionShape, PluginsAreKept, OthersAreKept,
                Unreferenced, RefersToCache
  <2> QED BY <2>1, <2>2
<1>2. AdoptionInv => AdoptionBreaksNothing
  BY DEF AdoptionInv, AdoptionBreaksNothing, CacheGoesUnreferenced, Unreferenced
<1> QED BY AdoptionInitInv, <1>1, <1>2, PTL DEF AdoptionSpec

-----------------------------------------------------------------------------
(* The payloads: PayloadStore *)

WireSteps == {"idle", "locking", "staging", "wiring", "pruning"}
WireRows == [at : WireSteps \cup Hosts, v : Versions \cup {0}, force : BOOLEAN,
             todo : SUBSET Hosts, wired : BOOLEAN, doomed : SUBSET (Versions \cup Wires)]

StoreShape ==
    /\ dir \in [Versions -> {"absent", "good", "holed"}]
    /\ staged \in [Wires -> StageOf]
    /\ aside \subseteq Versions /\ damaged \subseteq Versions
    /\ stamp \in [Hosts -> Versions \cup {0}] /\ recorded \in [Hosts -> Versions \cup {0}]
    /\ wire \in [Wires -> WireRows]
    /\ crossed \in BOOLEAN

\* A run that has begun has a version, and only one that copies a staging directory.
RunsAreOrderly ==
    \A w \in Wires : /\ wire[w].at # "idle" => wire[w].v \in Versions
                     /\ staged[w] # "none" => wire[w].at = "staging"

\* A version that a run wires hosts to is there, or moved aside.
WiredIsThere ==
    \A w \in Wires : wire[w].at \in {"wiring"} \cup Hosts =>
        dir[wire[w].v] # "absent" \/ wire[w].v \in aside

\* One run prunes, while none is there to change what it has protected.
PrunesAlone ==
    \A w \in Wires : wire[w].at = "pruning" =>
        /\ \A o \in Wires \ {w} : wire[o].at = "idle"
        /\ \A v \in wire[w].doomed \cap Versions : v \notin Protected

NoStageIsHoled == \A w \in Wires : staged[w] # "holed"

PayloadInv ==
    /\ StoreShape
    /\ RunsAreOrderly
    /\ ~crossed => /\ WiredIsThere /\ PrunesAlone /\ NoStageIsHoled
    /\ PayloadsAreWhole

LEMMA PayloadInitInv == PayloadInit => PayloadInv
<1> SUFFICES ASSUME PayloadInit PROVE PayloadInv
  OBVIOUS
<1> USE PayloadAssumption DEF PayloadInit, IdleWire
<1>1. StoreShape
  <2>1. stamp \in [Hosts -> Versions \cup {0}]
    OBVIOUS
  <2>2. IdleWire \in WireRows
    BY DEF WireRows, WireSteps
  <2> QED BY <2>1, <2>2 DEF StoreShape, StageOf
<1>2. RunsAreOrderly /\ WiredIsThere /\ PrunesAlone /\ NoStageIsHoled
  BY DEF RunsAreOrderly, WiredIsThere, PrunesAlone, NoStageIsHoled
<1>3. PayloadsAreWhole
  BY DEF PayloadsAreWhole, StampedIsKept, InstalledIsWhole
<1> QED BY <1>1, <1>2, <1>3 DEF PayloadInv

\* One row of a run changes.
LEMMA WireRowChanges ==
    ASSUME StoreShape, NEW w \in Wires, NEW row \in WireRows,
           wire' = [wire EXCEPT ![w] = row]
    PROVE  /\ wire' \in [Wires -> WireRows] /\ wire'[w] = row
           /\ \A o \in Wires \ {w} : wire'[o] = wire[o]
BY DEF StoreShape

\* The rows of the model's updates.
LEMMA WireGoes ==
    ASSUME StoreShape, NEW w \in Wires, NEW place \in WireSteps \cup Hosts, Goes(w, place)
    PROVE  \E row \in WireRows :
               /\ wire' = [wire EXCEPT ![w] = row]
               /\ row.at = place /\ row.v = wire[w].v /\ row.doomed = wire[w].doomed
<1> DEFINE row == [wire[w] EXCEPT !.at = place]
<1>1. wire[w] \in WireRows
  BY DEF StoreShape
<1>2. row \in WireRows /\ row.at = place /\ row.v = wire[w].v /\ row.doomed = wire[w].doomed
  BY <1>1 DEF WireRows
<1> QED BY <1>2 DEF Goes

LEMMA WireEnded ==
    ASSUME StoreShape, NEW w \in Wires, WireEnds(w)
    PROVE  IdleWire \in WireRows /\ wire' = [wire EXCEPT ![w] = IdleWire] /\ IdleWire.at = "idle"
BY DEF WireEnds, IdleWire, WireRows, WireSteps

\* A run begins.
LEMMA StartKeepsPayloads ==
    ASSUME PayloadInv, NEW w \in Wires, NEW v \in Versions, NEW hs \in HostSets,
           (\E force \in BOOLEAN : StartWire(w, v, hs, force)) \/ UseVersion(w, v, hs)
    PROVE  PayloadInv'
<1> USE PayloadAssumption DEF PayloadInv
<1>1. PICK row \in WireRows :
        /\ wire' = [wire EXCEPT ![w] = row] /\ row.v = v
        /\ row.at = "locking" \/ (row.at = "wiring" /\ dir[v] # "absent")
  <2>1. ASSUME NEW force \in BOOLEAN, StartWire(w, v, hs, force) PROVE
          LET row == [IdleWire EXCEPT !.at = "locking", !.v = v, !.force = force, !.todo = hs]
          IN  /\ row \in WireRows /\ wire' = [wire EXCEPT ![w] = row] /\ row.v = v
              /\ row.at = "locking"
    BY <2>1 DEF StartWire, IdleWire, WireRows, WireSteps
  <2>2. ASSUME UseVersion(w, v, hs) PROVE
          LET row == [IdleWire EXCEPT !.at = "wiring", !.v = v, !.todo = hs]
          IN  /\ row \in WireRows /\ wire' = [wire EXCEPT ![w] = row] /\ row.v = v
              /\ row.at = "wiring" /\ dir[v] # "absent"
    BY <2>2 DEF UseVersion, IdleWire, WireRows, WireSteps
  <2> QED BY <2>1, <2>2
<1>2. /\ wire[w].at = "idle" /\ crossed' = (crossed \/ \E o \in Wires : wire[o].at = "pruning")
      /\ UNCHANGED <<dir, staged, aside, stamp, recorded, damaged>>
  BY DEF StartWire, UseVersion
<1>3. wire'[w] = row /\ \A o \in Wires \ {w} : wire'[o] = wire[o]
  BY <1>1, WireRowChanges
<1>4. StoreShape'
  BY <1>1, <1>2, WireRowChanges DEF StoreShape
<1>5. RunsAreOrderly'
  BY <1>1, <1>2, <1>3 DEF RunsAreOrderly
<1>6. ASSUME ~crossed' PROVE WiredIsThere' /\ PrunesAlone' /\ NoStageIsHoled'
  <2>1. ~crossed /\ \A o \in Wires : wire[o].at # "pruning"
    BY <1>2, <1>6 DEF StoreShape
  <2>2. WiredIsThere'
    BY <2>1, <1>1, <1>2, <1>3 DEF WiredIsThere, WireSteps
  <2>3. PrunesAlone' /\ NoStageIsHoled'
    BY <2>1, <1>1, <1>2, <1>3 DEF PrunesAlone, NoStageIsHoled
  <2> QED BY <2>2, <2>3
<1>7. PayloadsAreWhole'
  BY <1>2 DEF PayloadsAreWhole, StampedIsKept, InstalledIsWhole, StoreShape
<1> QED BY <1>4, <1>5, <1>6, <1>7

\* The installation of a payload.
LEMMA InstallKeepsPayloads ==
    ASSUME PayloadInv, NEW w \in Wires, LockInstall(w) \/ CopyStage(w) \/ RenameStage(w)
    PROVE  PayloadInv'
<1> USE PayloadAssumption DEF PayloadInv
<1>1. wire[w].v \in Versions /\ wire[w].at \in {"locking", "staging"}
  BY DEF LockInstall, CopyStage, RenameStage, RunsAreOrderly
<1> DEFINE ver == wire[w].v
\* What happened to the version, its quarantine and the staging directory.
<1> DEFINE Ends(content, kept, stage) ==
             /\ dir' = [dir EXCEPT ![ver] = content]
             /\ aside' = IF kept THEN aside ELSE aside \ {ver}
             /\ staged' = [staged EXCEPT ![w] = stage]
<1> DEFINE Moved == /\ dir[ver] \in {"absent", "holed"} /\ dir' = [dir EXCEPT ![ver] = "absent"]
                    /\ aside' = IF dir[ver] = "holed" THEN aside \cup {ver} ELSE aside
                    /\ staged' = [staged EXCEPT ![w] = "partial"]
<1>a. /\ dir = [dir EXCEPT ![ver] = dir[ver]] /\ staged = [staged EXCEPT ![w] = staged[w]]
      /\ dir[ver] \in {"absent", "good", "holed"} /\ staged[w] \in StageOf
  BY <1>1 DEF StoreShape
<1>b. \/ Moved /\ Goes(w, "staging") /\ staged[w] = "none"
      \/ Ends(dir[ver], TRUE, staged[w]) /\ dir[ver] = "good" /\ Goes(w, "wiring") /\ staged[w] = "none"
      \/ Ends(dir[ver], TRUE, staged[w]) /\ WireEnds(w) /\ staged[w] = "none"
      \/ Ends(dir[ver], TRUE, "full") /\ UNCHANGED wire /\ wire[w].at = "staging"
      \/ Ends(dir[ver], TRUE, "none") /\ WireEnds(w)
      \/ Ends("good", FALSE, "none") /\ Goes(w, "wiring")
      \/ Ends("holed", FALSE, "none") /\ Goes(w, "wiring") /\ staged[w] = "holed"
  <2>1. CASE LockInstall(w)
    <3>1. staged[w] = "none"
      BY <2>1 DEF LockInstall, RunsAreOrderly
    <3> QED BY <2>1, <3>1, <1>a DEF LockInstall
  <2>2. CASE CopyStage(w)
    BY <2>2, <1>a DEF CopyStage
  <2>3. CASE RenameStage(w)
    <3>1. staged[w] \in {"none", "full", "holed"}
      BY <2>3, <1>a DEF RenameStage, StageOf
    <3>2. CASE staged[w] = "none"
      BY <2>3, <3>2, <1>a DEF RenameStage
    <3>3. CASE staged[w] = "full"
      BY <2>3, <3>3 DEF RenameStage
    <3>4. CASE staged[w] = "holed"
      BY <2>3, <3>4 DEF RenameStage
    <3> QED BY <3>1, <3>2, <3>3, <3>4
  <2> QED BY <2>1, <2>2, <2>3
<1>2. /\ dir' \in [Versions -> {"absent", "good", "holed"}]
      /\ \A u \in Versions : u # ver => (dir'[u] = dir[u] /\ (u \in aside' <=> u \in aside))
      /\ aside' \subseteq Versions
      /\ dir[ver] # "absent" \/ ver \in aside => dir'[ver] # "absent" \/ ver \in aside'
  <2>1. dir' \in [Versions -> {"absent", "good", "holed"}]
    BY <1>1, <1>a, <1>b DEF StoreShape
  <2>2. \A u \in Versions : u # ver => dir'[u] = dir[u]
    BY <1>1, <1>a, <1>b DEF StoreShape
  <2>3. /\ \A u \in Versions : u # ver => (u \in aside' <=> u \in aside)
        /\ aside' \subseteq Versions
    BY <1>1, <1>b DEF StoreShape
  <2>4. dir[ver] # "absent" \/ ver \in aside => dir'[ver] # "absent" \/ ver \in aside'
    BY <1>1, <1>a, <1>b DEF StoreShape
  <2> QED BY <2>1, <2>2, <2>3, <2>4
<1>3. PICK row \in WireRows :
        /\ wire' = [wire EXCEPT ![w] = row] /\ row.at \in {"idle", "staging", "wiring"}
        /\ row.at # "idle" => row.v = ver
  <2>1. ASSUME Goes(w, "staging") \/ Goes(w, "wiring") PROVE
          \E row \in WireRows : /\ wire' = [wire EXCEPT ![w] = row]
                                /\ row.at \in {"staging", "wiring"} /\ row.v = ver
    BY <2>1, WireGoes DEF WireSteps
  <2>2. ASSUME UNCHANGED wire, wire[w].at = "staging" PROVE
          \E row \in WireRows : /\ wire' = [wire EXCEPT ![w] = row]
                                /\ row.at = "staging" /\ row.v = ver
    BY <2>2 DEF StoreShape
  <2>3. CASE WireEnds(w)
    BY <2>3, WireEnded
  <2> QED BY <2>1, <2>2, <2>3, <1>b
<1>4. wire'[w] = row /\ \A o \in Wires \ {w} : wire'[o] = wire[o]
  BY <1>3, WireRowChanges
<1>5. /\ staged' \in [Wires -> StageOf] /\ \A o \in Wires \ {w} : staged'[o] = staged[o]
      /\ staged'[w] # "none" => wire'[w].at = "staging"
      /\ staged'[w] = "holed" => staged[w] = "holed"
  <2>1. staged' \in [Wires -> StageOf] /\ \A o \in Wires \ {w} : staged'[o] = staged[o]
    BY <1>a, <1>b DEF StoreShape, StageOf
  <2>2. staged'[w] = "holed" => staged[w] = "holed"
    BY <1>a, <1>b DEF StoreShape
  <2>3. ASSUME staged'[w] # "none" PROVE wire'[w].at = "staging"
    <3>1. \/ Goes(w, "staging") \/ (UNCHANGED wire /\ wire[w].at = "staging")
      BY <2>3, <1>b DEF StoreShape
    <3>2. Goes(w, "staging") => wire'[w].at = "staging"
      BY DEF Goes, StoreShape, WireRows
    <3> QED BY <3>1, <3>2
  <2> QED BY <2>1, <2>2, <2>3
<1>6. UNCHANGED <<stamp, recorded, damaged, crossed>>
  BY DEF LockInstall, CopyStage, RenameStage
<1>7. StoreShape'
  BY <1>2, <1>3, <1>5, <1>6, WireRowChanges DEF StoreShape
<1>8. RunsAreOrderly'
  BY <1>1, <1>3, <1>4, <1>5 DEF RunsAreOrderly
<1>9. ASSUME ~crossed PROVE WiredIsThere' /\ PrunesAlone' /\ NoStageIsHoled'
  <2>1. row.at = "wiring" => dir'[ver] # "absent"
    <3>1. (Goes(w, "staging") \/ WireEnds(w) \/ (UNCHANGED wire /\ wire[w].at = "staging"))
             => row.at # "wiring"
      BY <1>4 DEF Goes, WireEnds, IdleWire, StoreShape, WireRows
    <3>2. ASSUME ~Goes(w, "staging"), ~WireEnds(w), ~(UNCHANGED wire /\ wire[w].at = "staging")
          PROVE  dir'[ver] # "absent"
      BY <3>2, <1>1, <1>b DEF StoreShape
    <3> QED BY <3>1, <3>2
  <2>2. ASSUME NEW o \in Wires, wire'[o].at \in {"wiring"} \cup Hosts
        PROVE  dir'[wire'[o].v] # "absent" \/ wire'[o].v \in aside'
    <3>1. CASE o = w
      BY <3>1, <2>1, <2>2, <1>3, <1>4
    <3>2. CASE o # w
      <4>1. wire[o].at \in {"wiring"} \cup Hosts /\ wire'[o].v = wire[o].v
        BY <3>2, <2>2, <1>4
      <4>2. wire[o].v \in Versions
        BY <4>1 DEF RunsAreOrderly
      <4>3. dir[wire[o].v] # "absent" \/ wire[o].v \in aside
        BY <4>1, <1>9 DEF WiredIsThere
      <4>4. CASE wire[o].v = ver
        BY <4>1, <4>3, <4>4, <1>2
      <4>5. CASE wire[o].v # ver
        BY <4>1, <4>2, <4>3, <4>5, <1>2
      <4> QED BY <4>4, <4>5
    <3> QED BY <3>1, <3>2
  <2>3. \A o \in Wires : wire[o].at # "pruning"
    BY <1>1, <1>9 DEF PrunesAlone
  <2>4. PrunesAlone'
    BY <2>3, <1>3, <1>4 DEF PrunesAlone
  <2>5. NoStageIsHoled'
    BY <1>5, <1>9 DEF NoStageIsHoled
  <2> QED BY <2>2, <2>4, <2>5 DEF WiredIsThere
<1>10. PayloadsAreWhole'
  <2> SUFFICES ASSUME ~crossed PROVE PayloadsAreWhole'
    BY <1>6 DEF PayloadsAreWhole, StampedIsKept, InstalledIsWhole
  <2>1. dir'[ver] = "holed" => ver \in damaged \/ ver \in aside'
    BY <1>1, <1>a, <1>b DEF StoreShape, NoStageIsHoled, PayloadsAreWhole, InstalledIsWhole
  <2>2. InstalledIsWhole'
    BY <2>1, <1>2, <1>6 DEF PayloadsAreWhole, InstalledIsWhole
  <2>3. ASSUME NEW h \in Hosts, stamp[h] # 0, stamp[h] \notin aside',
               h \in Scanned \/ recorded[h] = stamp[h]
        PROVE  dir'[stamp[h]] # "absent"
    <3>1. stamp[h] \in Versions
      BY <2>3 DEF StoreShape
    <3>2. dir[stamp[h]] # "absent" \/ stamp[h] \in aside
      BY <2>3 DEF PayloadsAreWhole, StampedIsKept
    <3> QED BY <2>3, <3>1, <3>2, <1>2
  <2>4. StampedIsKept'
    BY <2>3, <1>6 DEF StampedIsKept
  <2> QED BY <2>2, <2>4 DEF PayloadsAreWhole
<1> QED BY <1>7, <1>8, <1>9, <1>10, <1>6

\* The hosts of a run.
LEMMA HostsKeepPayloads ==
    ASSUME PayloadInv, NEW w \in Wires, NEW h \in Hosts,
           StampHost(w, h) \/ RefuseHost(w, h) \/ VerifyHost(w, h)
    PROVE  PayloadInv'
<1> USE PayloadAssumption DEF PayloadInv
<1> DEFINE ver == wire[w].v
<1>1. ver \in Versions /\ wire[w].at \in {"wiring"} \cup Hosts
  BY DEF StampHost, RefuseHost, VerifyHost, RunsAreOrderly
<1>2. PICK row \in WireRows :
        /\ wire' = [wire EXCEPT ![w] = row] /\ row.at \in {"wiring"} \cup Hosts /\ row.v = ver
  <2>1. wire[w] \in WireRows
    BY DEF StoreShape
  <2>2. CASE StampHost(w, h)
    BY <2>2, WireGoes DEF StampHost
  <2>3. CASE RefuseHost(w, h)
    <3> DEFINE row == [wire[w] EXCEPT !.todo = @ \ {h}]
    <3>1. row \in WireRows /\ row.at = "wiring" /\ row.v = ver
      BY <2>1, <2>3 DEF RefuseHost, WireRows
    <3>2. wire' = [wire EXCEPT ![w] = row]
      BY <2>3 DEF RefuseHost
    <3> QED BY <3>1, <3>2
  <2>4. CASE VerifyHost(w, h)
    <3>1. PICK passes \in BOOLEAN :
            wire' = [wire EXCEPT ![w].at = "wiring", ![w].todo = @ \ {h},
                                 ![w].wired = @ \/ passes]
      BY <2>4 DEF VerifyHost
    <3>a. wire[w].wired \in BOOLEAN
      BY <2>1 DEF WireRows
    <3>b. PICK b \in BOOLEAN : b = (wire[w].wired \/ passes)
      BY <3>a
    <3> DEFINE row == [wire[w] EXCEPT !.at = "wiring", !.todo = wire[w].todo \ {h}, !.wired = b]
    <3>2. row \in WireRows /\ row.at = "wiring" /\ row.v = ver
      BY <2>1 DEF WireRows, WireSteps
    <3>3. wire' = [wire EXCEPT ![w] = row]
      BY <3>1, <3>b
    <3> QED BY <3>2, <3>3
  <2> QED BY <2>2, <2>3, <2>4
<1>3. wire'[w] = row /\ \A o \in Wires \ {w} : wire'[o] = wire[o]
  BY <1>2, WireRowChanges
<1>4. UNCHANGED <<staged, aside, damaged, crossed>>
  BY DEF StampHost, RefuseHost, VerifyHost
<1>5. /\ dir' \in [Versions -> {"absent", "good", "holed"}]
      /\ \A u \in Versions : dir'[u] # dir[u] => u = ver /\ dir[u] = "absent" /\ dir'[u] = "holed"
  BY <1>1 DEF StampHost, RefuseHost, VerifyHost, StoreShape
<1>6. /\ stamp' \in [Hosts -> Versions \cup {0}] /\ recorded' \in [Hosts -> Versions \cup {0}]
  BY <1>1 DEF StampHost, RefuseHost, VerifyHost, StoreShape
<1>7. StoreShape'
  BY <1>2, <1>4, <1>5, <1>6, WireRowChanges DEF StoreShape
<1>8. RunsAreOrderly'
  BY <1>1, <1>2, <1>3, <1>4 DEF RunsAreOrderly
<1>9. \A u \in Versions : dir[u] # "absent" => dir'[u] # "absent"
  BY <1>5
<1>10. ~crossed => dir[ver] # "absent" \/ ver \in aside
  BY <1>1 DEF WiredIsThere
<1>11. ASSUME ~crossed PROVE WiredIsThere' /\ PrunesAlone' /\ NoStageIsHoled'
  <2>1. ASSUME NEW o \in Wires, wire'[o].at \in {"wiring"} \cup Hosts
        PROVE  dir'[wire'[o].v] # "absent" \/ wire'[o].v \in aside'
    <3>1. wire[o].at \in {"wiring"} \cup Hosts /\ wire'[o].v = wire[o].v
      BY <2>1, <1>1, <1>2, <1>3
    <3>2. wire[o].v \in Versions
      BY <3>1 DEF RunsAreOrderly
    <3>3. dir[wire[o].v] # "absent" \/ wire[o].v \in aside
      BY <3>1, <1>11 DEF WiredIsThere
    <3> QED BY <3>1, <3>2, <3>3, <1>4, <1>9
  <2>2. \A o \in Wires : wire[o].at # "pruning"
    BY <1>1, <1>11 DEF PrunesAlone
  <2>3. PrunesAlone'
    BY <2>2, <1>2, <1>3 DEF PrunesAlone
  <2>4. NoStageIsHoled'
    BY <1>4, <1>11 DEF NoStageIsHoled
  <2> QED BY <2>1, <2>3, <2>4 DEF WiredIsThere
<1>12. ASSUME ~crossed PROVE PayloadsAreWhole'
  <2>1. InstalledIsWhole'
    BY <1>4, <1>5, <1>10, <1>12 DEF PayloadsAreWhole, InstalledIsWhole
  <2>2. ASSUME NEW g \in Hosts, stamp'[g] # 0, stamp'[g] \notin aside,
               g \in Scanned \/ recorded'[g] = stamp'[g]
        PROVE  dir'[stamp'[g]] # "absent"
    <3>1. stamp'[g] \in Versions
      BY <2>2, <1>6
    <3>2. CASE stamp'[g] = stamp[g] /\ recorded'[g] = recorded[g]
      <4>1. dir[stamp[g]] # "absent"
        BY <2>2, <3>2, <1>12 DEF PayloadsAreWhole, StampedIsKept
      <4> QED BY <4>1, <3>1, <3>2, <1>9
    <3>3. CASE stamp'[g] # stamp[g]
      <4>1. StampHost(w, h) /\ g = h /\ stamp'[g] = ver
        BY <3>3 DEF StampHost, RefuseHost, VerifyHost, StoreShape
      <4>2. dir'[ver] # "absent"
        BY <4>1, <1>1 DEF StampHost, StoreShape
      <4> QED BY <4>1, <4>2
    <3>4. CASE recorded'[g] # recorded[g]
      <4>1. VerifyHost(w, h) /\ g = h /\ recorded'[g] = ver
        BY <3>4 DEF StampHost, RefuseHost, VerifyHost, StoreShape
      <4>2. CASE g \in Scanned
        <5>1. stamp'[g] = stamp[g]
          BY <4>1 DEF VerifyHost
        <5>2. dir[stamp[g]] # "absent"
          BY <5>1, <4>2, <2>2, <1>12 DEF PayloadsAreWhole, StampedIsKept
        <5> QED BY <5>1, <5>2, <3>1, <1>9
      <4>3. CASE g \notin Scanned
        BY <4>1, <4>3, <2>2, <1>9, <1>10, <1>12, <1>1
      <4> QED BY <4>2, <4>3
    <3> QED BY <3>2, <3>3, <3>4
  <2>3. StampedIsKept'
    BY <2>2, <1>4 DEF StampedIsKept
  <2> QED BY <2>1, <2>3 DEF PayloadsAreWhole
<1>13. crossed => PayloadsAreWhole'
  BY <1>4 DEF PayloadsAreWhole, StampedIsKept, InstalledIsWhole
<1> QED BY <1>7, <1>8, <1>11, <1>12, <1>13, <1>4

\* What a run prunes, it has found that no host uses.
LEMMA ScanKeepsPayloads ==
    ASSUME PayloadInv, NEW w \in Wires, ScanStore(w)
    PROVE  PayloadInv'
<1> USE PayloadAssumption DEF PayloadInv
<1>1. wire[w].at = "wiring" /\ wire[w].v \in Versions
  BY DEF ScanStore, RunsAreOrderly
<1> DEFINE doom == (InStore \ Retained) \cup {o \in Wires \ {w} : staged[o] # "none"}
<1>2. PICK row \in WireRows :
        /\ wire' = [wire EXCEPT ![w] = row] /\ row.at \in {"idle", "pruning"}
        /\ row.at = "pruning" => row.v = wire[w].v /\ row.doomed = doom /\ wire[w].wired
  <2>1. ASSUME wire[w].wired,
               wire' = [wire EXCEPT ![w] = [@ EXCEPT !.at = "pruning", !.doomed = doom]]
        PROVE  \E row \in WireRows :
                 /\ wire' = [wire EXCEPT ![w] = row] /\ row.at = "pruning"
                 /\ row.v = wire[w].v /\ row.doomed = doom
    <3> DEFINE row == [wire[w] EXCEPT !.at = "pruning", !.doomed = doom]
    <3>1. wire[w] \in WireRows
      BY DEF StoreShape
    <3>2. doom \subseteq Versions \cup Wires
      BY DEF InStore
    <3>3. row \in WireRows /\ row.at = "pruning" /\ row.v = wire[w].v /\ row.doomed = doom
      BY <3>1, <3>2 DEF WireRows, WireSteps
    <3>4. wire' = [wire EXCEPT ![w] = row]
      BY <2>1
    <3> QED BY <3>3, <3>4
  <2> QED BY <2>1, WireEnded DEF ScanStore
<1>3. wire'[w] = row /\ \A o \in Wires \ {w} : wire'[o] = wire[o]
  BY <1>2, WireRowChanges
<1>4. /\ UNCHANGED <<dir, staged, aside, stamp, recorded, damaged>>
      /\ crossed' = (crossed \/ (wire[w].wired /\ Others(w)))
  BY DEF ScanStore
<1>5. wire[w].wired \in BOOLEAN
  BY DEF StoreShape, WireRows
<1>6. StoreShape'
  BY <1>2, <1>4, WireRowChanges DEF StoreShape
<1>7. RunsAreOrderly'
  BY <1>1, <1>2, <1>3, <1>4 DEF RunsAreOrderly
<1>8. ASSUME ~crossed' PROVE WiredIsThere' /\ PrunesAlone' /\ NoStageIsHoled'
  <2>1. ~crossed /\ (row.at = "pruning" => \A o \in Wires \ {w} : wire[o].at = "idle")
    BY <1>2, <1>4, <1>8 DEF StoreShape, Others
  <2>2. WiredIsThere' /\ NoStageIsHoled'
    BY <2>1, <1>2, <1>3, <1>4 DEF WiredIsThere, NoStageIsHoled
  <2>3. \A o \in Wires : wire[o].at # "pruning"
    BY <2>1, <1>1 DEF PrunesAlone
  <2>4. row.at = "pruning" => \A v \in row.doomed \cap Versions : v \notin Protected
    <3> SUFFICES ASSUME row.at = "pruning", NEW v \in doom \cap Versions PROVE v \notin Protected
      BY <1>2
    <3>1. \A o \in Wires \ {w} : staged[o] = "none"
      BY <2>1 DEF RunsAreOrderly
    <3> QED BY <3>1 DEF Retained
  <2>5. Protected' = Protected
    BY <1>4 DEF Protected
  <2>6. PrunesAlone'
    BY <2>1, <2>3, <2>4, <2>5, <1>2, <1>3 DEF PrunesAlone
  <2> QED BY <2>2, <2>6
<1>9. PayloadsAreWhole'
  BY <1>4 DEF PayloadsAreWhole, StampedIsKept, InstalledIsWhole, StoreShape
<1> QED BY <1>6, <1>7, <1>8, <1>9

\* The pruning, the end of a run, and what comes from outside.
LEMMA PruneKeepsPayloads ==
    ASSUME PayloadInv, NEW w \in Wires,
           \/ \E v \in Versions : PruneVersion(w, v)
           \/ \E o \in Wires : PruneStage(w, o)
           \/ EndPrune(w) \/ KillWire(w)
    PROVE  PayloadInv'
<1> USE PayloadAssumption DEF PayloadInv
<1>1. wire[w].at # "idle" /\ wire[w].v \in Versions
  BY DEF PruneVersion, PruneStage, EndPrune, KillWire, RunsAreOrderly
<1>2. PICK row \in WireRows :
        /\ wire' = [wire EXCEPT ![w] = row]
        /\ \/ row.at = "idle"
           \/ /\ row.at = "pruning" /\ wire[w].at = "pruning"
              /\ row.v = wire[w].v /\ row.doomed \subseteq wire[w].doomed
  <2>1. ASSUME NEW x, wire[w].at = "pruning", wire' = [wire EXCEPT ![w].doomed = @ \ {x}]
        PROVE  \E row \in WireRows :
                 /\ wire' = [wire EXCEPT ![w] = row] /\ row.at = "pruning"
                 /\ row.v = wire[w].v /\ row.doomed \subseteq wire[w].doomed
    <3> DEFINE row == [wire[w] EXCEPT !.doomed = @ \ {x}]
    <3>1. wire[w] \in WireRows
      BY DEF StoreShape
    <3>2. row \in WireRows /\ row.at = "pruning" /\ row.v = wire[w].v
          /\ row.doomed \subseteq wire[w].doomed
      BY <2>1, <3>1 DEF WireRows
    <3>3. wire' = [wire EXCEPT ![w] = row]
      BY <2>1
    <3> QED BY <3>2, <3>3
  <2> QED BY <2>1, WireEnded DEF PruneVersion, PruneStage, EndPrune, KillWire
<1>3. wire'[w] = row /\ \A o \in Wires \ {w} : wire'[o] = wire[o]
  BY <1>2, WireRowChanges
<1>4. UNCHANGED <<aside, stamp, recorded, damaged, crossed>>
  BY DEF PruneVersion, PruneStage, EndPrune, KillWire
<1>5. /\ dir' \in [Versions -> {"absent", "good", "holed"}]
      /\ \A u \in Versions : dir'[u] # dir[u] =>
            dir'[u] = "absent" /\ wire[w].at = "pruning" /\ u \in wire[w].doomed
  BY DEF PruneVersion, PruneStage, EndPrune, KillWire, StoreShape
<1>6. /\ staged' \in [Wires -> StageOf]
      /\ \A o \in Wires : staged'[o] # staged[o] =>
            \/ staged'[o] = "none" \/ (wire[w].at = "pruning" /\ staged[o] # "none")
      /\ wire'[w].at # "staging" => staged'[w] = "none"
  <2>1. CASE \E o \in Wires : PruneStage(w, o)
    <3>1. staged[w] = "none"
      BY <2>1 DEF PruneStage, RunsAreOrderly
    <3> QED BY <2>1, <3>1 DEF PruneStage, StoreShape, StageOf
  <2>2. CASE KillWire(w)
    BY <2>2 DEF KillWire, StoreShape, StageOf
  <2>3. CASE EndPrune(w) \/ \E v \in Versions : PruneVersion(w, v)
    BY <2>3 DEF EndPrune, PruneVersion, RunsAreOrderly, StoreShape
  <2> QED BY <2>1, <2>2, <2>3
<1>7. StoreShape'
  BY <1>2, <1>4, <1>5, <1>6, WireRowChanges DEF StoreShape
<1>8. RunsAreOrderly'
  <2>1. ASSUME NEW o \in Wires, o # w, staged'[o] # "none" PROVE wire[o].at = "staging"
    BY <2>1, <1>6 DEF RunsAreOrderly
  <2> QED BY <2>1, <1>1, <1>2, <1>3, <1>6 DEF RunsAreOrderly
<1>9. ASSUME ~crossed PROVE WiredIsThere' /\ PrunesAlone' /\ NoStageIsHoled'
  <2>1. wire[w].at = "pruning" => \A o \in Wires \ {w} : wire[o].at = "idle"
    BY <1>9 DEF PrunesAlone
  <2>2. NoStageIsHoled'
    <3> SUFFICES ASSUME NEW o \in Wires PROVE staged'[o] # "holed"
      BY DEF NoStageIsHoled
    <3>1. wire[w].at = "pruning" => staged[o] = "none"
      BY <2>1 DEF RunsAreOrderly
    <3> QED BY <3>1, <1>6, <1>9 DEF NoStageIsHoled
  <2>3. ASSUME NEW o \in Wires, wire'[o].at \in {"wiring"} \cup Hosts
        PROVE  dir'[wire'[o].v] # "absent" \/ wire'[o].v \in aside'
    <3>1. o # w
      BY <2>3, <1>2, <1>3
    <3>2. wire'[o] = wire[o] /\ wire[w].at # "pruning" /\ wire[o].v \in Versions
      BY <3>1, <2>3, <2>1, <1>3 DEF RunsAreOrderly
    <3>3. dir[wire[o].v] # "absent" \/ wire[o].v \in aside
      BY <3>2, <2>3, <1>9 DEF WiredIsThere
    <3> QED BY <3>2, <3>3, <1>4, <1>5
  <2>4. Protected' = Protected
    BY <1>4 DEF Protected
  <2>5. PrunesAlone'
    BY <2>1, <2>4, <1>2, <1>3, <1>9 DEF PrunesAlone
  <2> QED BY <2>2, <2>3, <2>5 DEF WiredIsThere
<1>10. ASSUME ~crossed PROVE PayloadsAreWhole'
  <2>1. InstalledIsWhole'
    BY <1>4, <1>5, <1>10 DEF PayloadsAreWhole, InstalledIsWhole
  <2>2. ASSUME NEW g \in Hosts, stamp[g] # 0, stamp[g] \notin aside,
               g \in Scanned \/ recorded[g] = stamp[g]
        PROVE  dir'[stamp[g]] # "absent"
    <3>1. stamp[g] \in Versions /\ dir[stamp[g]] # "absent"
      BY <2>2, <1>10 DEF StoreShape, PayloadsAreWhole, StampedIsKept
    <3>2. stamp[g] \in Protected
      BY <2>2 DEF Protected
    <3>3. wire[w].at = "pruning" => stamp[g] \notin wire[w].doomed
      BY <3>1, <3>2, <1>10 DEF PrunesAlone
    <3> QED BY <3>1, <3>3, <1>5
  <2>3. StampedIsKept'
    BY <2>2, <1>4 DEF StampedIsKept
  <2> QED BY <2>1, <2>3 DEF PayloadsAreWhole
<1>11. crossed => PayloadsAreWhole'
  BY <1>4 DEF PayloadsAreWhole, StampedIsKept, InstalledIsWhole
<1> QED BY <1>4, <1>7, <1>8, <1>9, <1>10, <1>11

LEMMA DamageKeepsPayloads ==
    ASSUME PayloadInv, NEW v \in Versions, Damage(v)
    PROVE  PayloadInv'
<1> USE DEF PayloadInv, Damage
<1>1. /\ dir' \in [Versions -> {"absent", "good", "holed"}] /\ dir[v] = "good"
      /\ \A u \in Versions : dir'[u] = IF u = v THEN "holed" ELSE dir[u]
  BY DEF StoreShape
<1>2. StoreShape' /\ RunsAreOrderly'
  BY <1>1 DEF StoreShape, RunsAreOrderly
<1>3. ASSUME ~crossed PROVE WiredIsThere' /\ PrunesAlone' /\ NoStageIsHoled'
  <2>1. WiredIsThere'
    BY <1>1, <1>3, PayloadAssumption DEF WiredIsThere, RunsAreOrderly
  <2>2. PrunesAlone' /\ NoStageIsHoled'
    BY <1>3 DEF PrunesAlone, NoStageIsHoled, Protected
  <2> QED BY <2>1, <2>2
<1>4. InstalledIsWhole'
  BY <1>1 DEF PayloadsAreWhole, InstalledIsWhole
<1>5. StampedIsKept'
  BY <1>1 DEF PayloadsAreWhole, StampedIsKept, StoreShape
<1> QED BY <1>2, <1>3, <1>4, <1>5 DEF PayloadsAreWhole

LEMMA PayloadAlways == PayloadSpec => []PayloadInv
<1>1. PayloadInv /\ [PayloadNext]_wireVars => PayloadInv'
  <2> SUFFICES ASSUME PayloadInv, [PayloadNext]_wireVars PROVE PayloadInv'
    OBVIOUS
  <2>1. CASE PayloadNext
    BY <2>1, StartKeepsPayloads, InstallKeepsPayloads, HostsKeepPayloads, ScanKeepsPayloads,
       PruneKeepsPayloads, DamageKeepsPayloads DEF PayloadNext
  <2>2. CASE UNCHANGED wireVars
    BY <2>2 DEF wireVars, PayloadInv, StoreShape, RunsAreOrderly, WiredIsThere, PrunesAlone,
       NoStageIsHoled, Protected, PayloadsAreWhole, StampedIsKept, InstalledIsWhole
  <2> QED BY <2>1, <2>2
<1> QED BY PayloadInitInv, <1>1, PTL DEF PayloadSpec

\* As long as no run prunes beside another one, what a host loads is there and what
\* nobody edited is whole, for any number of versions, hosts and overlapping runs
\* that fail or are killed.
THEOREM HostsFindTheirPayload == PayloadSpec => []PayloadsAreWhole
<1>1. PayloadInv => PayloadsAreWhole
  BY DEF PayloadInv
<1> QED BY PayloadAlways, <1>1, PTL

-----------------------------------------------------------------------------
(* The binding: CustomRefresh *)

Runner == [at : {"idle", "planned", "checked", "written"},
           read : Content, row : Payloads \cup {NoBinding}, to : Payloads \cup {NoBinding},
           said : {"nothing", "absent", "foreign", "current", "failed", "refreshed"}]

\* The runs whose write is not recorded nor undone, those that wrote over the
\* payload x, and those that wrote the payload x.
Writing == {r \in Refreshers : refresher[r].at = "written"}
From(x) == {r \in Writing : refresher[r].read.args = x}
To(x) == {r \in Writing : refresher[r].to = x}
One(holds) == IF holds THEN 1 ELSE 0

\* A run that has a plan read the registered binding.
PlansAreOfRow ==
    \A r \in Refreshers : refresher[r].at # "idle" =>
        /\ refresher[r].read.args = refresher[r].row /\ refresher[r].row \in Payloads
        /\ refresher[r].to \in Payloads /\ refresher[r].read.edit <= nEdits

\* A run that is about to write has the last edit in what it read.
CheckedHasTheEdit ==
    nEdits \notin overtaken =>
        \A r \in Refreshers : refresher[r].at = "checked" => refresher[r].read.edit = nEdits

\* The writes that are pending lead from the payload of the row to the one in the
\* file: as often as they leave a payload they come to it, but for those two.
PathFromRowToFile ==
    \A x \in Payloads : Cardinality(From(x)) + One(config.args = x)
                         = Cardinality(To(x)) + One(rowOf = x)

\* Where no write was lost: a pending one is edited and will say so when it ends,
\* or the binding is the operator's, or the writes account for what the file has.
WritesAccountForFile ==
    \/ \E r \in Writing : refresher[r].read.edit # config.edit
    \/ config.args = NoBinding /\ Writing = {}
    \/ PathFromRowToFile

RefreshInv ==
    /\ RefreshTypeOK
    /\ config.edit <= nEdits /\ overtaken \subseteq 0 .. nEdits
    /\ IsFiniteSet(Writing)
    /\ PlansAreOfRow
    /\ CheckedHasTheEdit
    /\ (~stranded /\ overtaken = {}) => WritesAccountForFile
    /\ EditsSurvive

LEMMA RefreshInitInv == RefreshInit => RefreshInv
<1> SUFFICES ASSUME RefreshInit PROVE RefreshInv
  OBVIOUS
<1> USE RefreshAssumption DEF RefreshInit
<1>1. RefreshTypeOK
  <2>1. IdleRefresh \in Runner
    BY DEF IdleRefresh, Runner, NoContent, Content
  <2>2. refresher \in [Refreshers -> Runner]
    BY <2>1
  <2>3. config \in Content
    BY DEF Content
  <2> QED BY <2>2, <2>3 DEF RefreshTypeOK, Runner
<1>2. Writing = {} /\ \A r \in Refreshers : refresher[r].at = "idle"
  BY DEF Writing, IdleRefresh
<1>3. IsFiniteSet(Writing)
  BY <1>2, FS_EmptySet
<1>4. PathFromRowToFile
  BY <1>2, FS_EmptySet DEF PathFromRowToFile, From, To, One
<1> QED BY <1>1, <1>2, <1>3, <1>4 DEF RefreshInv, PlansAreOfRow, CheckedHasTheEdit,
            WritesAccountForFile, EditsSurvive

\* One row of a run changes.
LEMMA RunnerChanges ==
    ASSUME RefreshTypeOK, NEW r \in Refreshers, NEW row \in Runner,
           refresher' = [refresher EXCEPT ![r] = row]
    PROVE  /\ refresher' \in [Refreshers -> Runner] /\ refresher'[r] = row
           /\ \A o \in Refreshers : o # r => refresher'[o] = refresher[o]
BY DEF RefreshTypeOK, Runner

\* What the steps that touch neither file nor row leave: the pending writes stay,
\* or it is one of them that is given up.
LEMMA WritesStay ==
    ASSUME RefreshTypeOK, NEW r \in Refreshers, NEW row \in Runner,
           refresher' = [refresher EXCEPT ![r] = row],
           refresher[r].at # "written", row.at # "written"
    PROVE  Writing' = Writing /\ (\A x : From(x)' = From(x) /\ To(x)' = To(x))
<1>1. /\ refresher'[r] = row /\ \A o \in Refreshers : o # r => refresher'[o] = refresher[o]
  BY RunnerChanges
<1>2. Writing' = Writing
  BY <1>1 DEF Writing
<1>3. \A o \in Writing : refresher'[o] = refresher[o]
  BY <1>1 DEF Writing
<1>4. ASSUME NEW x PROVE From(x)' = From(x) /\ To(x)' = To(x)
  BY <1>2, <1>3 DEF From, To
<1> QED BY <1>2, <1>4

\* The plan and the check.
LEMMA PlanKeepsBinding ==
    ASSUME RefreshInv, NEW r \in Refreshers,
           (\E v \in Payloads : PlanRefresh(r, v)) \/ CheckConfig(r)
    PROVE  RefreshInv'
<1> USE RefreshAssumption DEF RefreshInv
<1>1. UNCHANGED <<config, rowOf, nEdits, refreshFaults, overtaken, stranded>>
  BY DEF PlanRefresh, CheckConfig
<1>2. PICK row \in Runner :
        /\ refresher' = [refresher EXCEPT ![r] = row]
        /\ row.at \in {"idle", "planned", "checked"} /\ refresher[r].at \in {"idle", "planned"}
        /\ row.at # "idle" =>
             /\ row.read.args = row.row /\ row.row \in Payloads /\ row.to \in Payloads
             /\ row.read.edit <= nEdits
        /\ row.at = "checked" => row.read = config
  <2>1. ASSUME NEW v \in Payloads, PlanRefresh(r, v)
        PROVE  \E row \in Runner :
                 /\ refresher' = [refresher EXCEPT ![r] = row]
                 /\ row.at \in {"idle", "planned"} /\ refresher[r].at = "idle"
                 /\ row.at = "planned" =>
                      /\ row.read.args = row.row /\ row.row \in Payloads /\ row.to \in Payloads
                      /\ row.read.edit <= nEdits
    <3> DEFINE word == CASE config.args = NoBinding -> "absent"
                         [] config.args \notin {NoBinding, rowOf} -> "foreign"
                         [] config.args = rowOf /\ v = rowOf -> "current"
                         [] OTHER -> "nothing"
    <3> DEFINE row == [at |-> IF config.args = rowOf /\ v # rowOf THEN "planned" ELSE "idle",
                       read |-> config, row |-> rowOf, to |-> v, said |-> word]
    <3>1. word \in {"absent", "foreign", "current", "nothing"}
      OBVIOUS
    <3>2. row \in Runner
      BY <3>1 DEF Runner, RefreshTypeOK
    <3>3. refresher' = [refresher EXCEPT ![r] = row] /\ refresher[r].at = "idle"
      BY <2>1 DEF PlanRefresh
    <3>4. rowOf \in Payloads
      BY DEF RefreshTypeOK
    <3> HIDE DEF word
    <3> QED BY <3>2, <3>3, <3>4
  <2>2. ASSUME CheckConfig(r)
        PROVE  \E row \in Runner :
                 /\ refresher' = [refresher EXCEPT ![r] = row]
                 /\ row.at \in {"idle", "checked"} /\ refresher[r].at = "planned"
                 /\ row.at = "checked" =>
                      /\ row.read.args = row.row /\ row.row \in Payloads /\ row.to \in Payloads
                      /\ row.read.edit <= nEdits /\ row.read = config
    <3>1. refresher[r] \in Runner /\ refresher[r].at = "planned"
      BY <2>2 DEF CheckConfig, RefreshTypeOK, Runner
    <3>2. CASE rowOf = refresher[r].row /\ config = refresher[r].read
      <4> DEFINE row == [refresher[r] EXCEPT !.at = "checked"]
      <4>1. refresher' = [refresher EXCEPT ![r] = row]
        BY <2>2, <3>2 DEF CheckConfig
      <4>2. row \in Runner /\ row.at = "checked" /\ row.read = refresher[r].read
            /\ row.row = refresher[r].row /\ row.to = refresher[r].to
        BY <3>1 DEF Runner
      <4> QED BY <3>1, <3>2, <4>1, <4>2 DEF PlansAreOfRow
    <3>3. CASE ~(rowOf = refresher[r].row /\ config = refresher[r].read)
      <4> DEFINE row == [refresher[r] EXCEPT !.at = "idle", !.said = "failed"]
      <4>1. refresher' = [refresher EXCEPT ![r] = row]
        BY <2>2, <3>3 DEF CheckConfig, EndsWith
      <4>2. row \in Runner /\ row.at = "idle"
        BY <3>1 DEF Runner
      <4> QED BY <3>1, <4>1, <4>2
    <3> QED BY <3>2, <3>3
  <2> QED BY <2>1, <2>2
<1>3. /\ refresher' \in [Refreshers -> Runner] /\ refresher'[r] = row
      /\ \A o \in Refreshers : o # r => refresher'[o] = refresher[o]
  BY <1>2, RunnerChanges
<1>4. RefreshTypeOK'
  BY <1>1, <1>3 DEF RefreshTypeOK, Runner
<1>5. Writing' = Writing /\ (\A x : From(x)' = From(x) /\ To(x)' = To(x))
  BY <1>2, WritesStay
<1>6. PlansAreOfRow'
  BY <1>1, <1>2, <1>3 DEF PlansAreOfRow
<1>7. CheckedHasTheEdit'
  BY <1>1, <1>2, <1>3 DEF CheckedHasTheEdit, EditsSurvive
<1>8. WritesAccountForFile => WritesAccountForFile'
  <2>1. \A o \in Writing : refresher'[o] = refresher[o]
    BY <1>2, <1>3 DEF Writing
  <2>2. PathFromRowToFile => PathFromRowToFile'
    BY <1>1, <1>5 DEF PathFromRowToFile
  <2> QED BY <1>1, <1>5, <2>1, <2>2 DEF WritesAccountForFile
<1>9. EditsSurvive'
  BY <1>1 DEF EditsSurvive
<1> QED BY <1>1, <1>4, <1>5, <1>6, <1>7, <1>8, <1>9

\* The write: one more pending, from the payload that was read to the new one.
LEMMA ReplaceKeepsBinding ==
    ASSUME RefreshInv, NEW r \in Refreshers, ReplaceConfig(r)
    PROVE  RefreshInv'
<1> USE RefreshAssumption DEF RefreshInv
<1> DEFINE old == refresher[r].read.args
           new == refresher[r].to
           row == [refresher[r] EXCEPT !.at = "written"]
<1>1. /\ refresher[r] \in Runner /\ refresher[r].at = "checked"
      /\ old = refresher[r].row /\ old \in Payloads /\ new \in Payloads
      /\ refresher[r].read \in Content /\ refresher[r].read.edit <= nEdits
  <2>1. refresher[r] \in Runner /\ refresher[r].at = "checked"
    BY DEF ReplaceConfig, RefreshTypeOK, Runner
  <2> QED BY <2>1 DEF Runner, PlansAreOfRow
<1>2. /\ row \in Runner /\ row.at = "written" /\ row.read = refresher[r].read
      /\ row.row = refresher[r].row /\ row.to = new
      /\ refresher' = [refresher EXCEPT ![r] = row]
  BY <1>1 DEF ReplaceConfig, Runner
<1>3. /\ refresher' \in [Refreshers -> Runner] /\ refresher'[r] = row
      /\ \A o \in Refreshers : o # r => refresher'[o] = refresher[o]
  BY <1>2, RunnerChanges
<1>4. /\ UNCHANGED <<rowOf, nEdits, refreshFaults, overtaken>>
      /\ config'.args = new /\ config'.edit = refresher[r].read.edit /\ config' \in Content
      /\ stranded' = (stranded \/ config # refresher[r].read)
  BY <1>1 DEF ReplaceConfig, Written, Content
<1>5. RefreshTypeOK'
  BY <1>3, <1>4 DEF RefreshTypeOK, Runner
<1>6. r \notin Writing /\ Writing' = Writing \cup {r} /\ IsFiniteSet(Writing')
  <2>1. r \notin Writing /\ Writing' = Writing \cup {r}
    BY <1>1, <1>2, <1>3 DEF Writing
  <2> QED BY <2>1, FS_AddElement
<1>7. PlansAreOfRow'
  BY <1>1, <1>2, <1>3, <1>4 DEF PlansAreOfRow
<1>8. CheckedHasTheEdit' /\ EditsSurvive'
  BY <1>1, <1>2, <1>3, <1>4 DEF CheckedHasTheEdit, EditsSurvive
<1>9. ASSUME ~stranded', overtaken' = {} PROVE WritesAccountForFile'
  <2>1. ~stranded /\ overtaken = {} /\ config = refresher[r].read
    BY <1>4, <1>9
  <2>2. CASE \E o \in Writing : refresher[o].read.edit # config.edit
    <3>1. PICK o \in Writing : refresher[o].read.edit # config.edit
      BY <2>2
    <3>2. o \in Writing' /\ refresher'[o].read.edit # config'.edit
      BY <3>1, <2>1, <1>3, <1>4, <1>6 DEF Writing
    <3> QED BY <3>2 DEF WritesAccountForFile
  <2>3. CASE config.args = NoBinding /\ Writing = {}
    BY <2>1, <2>3, <1>1
  <2>4. CASE PathFromRowToFile
    <3> SUFFICES ASSUME NEW x \in Payloads
                 PROVE  Cardinality(From(x)') + One(config'.args = x)
                          = Cardinality(To(x)') + One(rowOf' = x)
      BY DEF WritesAccountForFile, PathFromRowToFile
    <3>1. Cardinality(From(x)) + One(old = x) = Cardinality(To(x)) + One(rowOf = x)
      BY <2>1, <2>4 DEF PathFromRowToFile
    <3>2. \A o \in Writing : refresher'[o] = refresher[o]
      BY <1>3, <1>6 DEF Writing
    <3>3. /\ From(x)' = IF old = x THEN From(x) \cup {r} ELSE From(x)
          /\ To(x)' = IF new = x THEN To(x) \cup {r} ELSE To(x)
      BY <3>2, <1>2, <1>3, <1>6 DEF From, To
    <3>4. /\ IsFiniteSet(From(x)) /\ IsFiniteSet(To(x)) /\ r \notin From(x) /\ r \notin To(x)
      BY <1>6, FS_Subset DEF From, To
    <3>5. /\ Cardinality(From(x)') = Cardinality(From(x)) + One(old = x)
          /\ Cardinality(To(x)') = Cardinality(To(x)) + One(new = x)
          /\ Cardinality(From(x)) \in Nat /\ Cardinality(To(x)) \in Nat
      <4>1. Cardinality(From(x)) \in Nat /\ Cardinality(To(x)) \in Nat
        BY <3>4, FS_CardinalityType
      <4>2. /\ Cardinality(From(x) \cup {r}) = Cardinality(From(x)) + 1
            /\ Cardinality(To(x) \cup {r}) = Cardinality(To(x)) + 1
        BY <3>4, FS_AddElement
      <4> QED BY <4>1, <4>2, <3>3 DEF One
    <3> QED BY <3>1, <3>5, <1>4 DEF One
  <2> QED BY <2>1, <2>2, <2>3, <2>4 DEF WritesAccountForFile
<1> QED BY <1>1, <1>4, <1>5, <1>6, <1>7, <1>8, <1>9

\* The end of a write: it is recorded, or undone, or left where it was overtaken.
LEMMA PublishKeepsBinding ==
    ASSUME RefreshInv, NEW r \in Refreshers, Publish(r)
    PROVE  RefreshInv'
<1> USE RefreshAssumption DEF RefreshInv
<1> DEFINE old == refresher[r].read.args
           new == refresher[r].to
<1>1. /\ refresher[r] \in Runner /\ refresher[r].at = "written"
      /\ old = refresher[r].row /\ old \in Payloads /\ new \in Payloads
      /\ refresher[r].read \in Content /\ refresher[r].read.edit <= nEdits
      /\ Written(r) \in Content /\ Written(r).args = new /\ Written(r).edit = refresher[r].read.edit
  <2>1. refresher[r] \in Runner /\ refresher[r].at = "written"
    BY DEF Publish, RefreshTypeOK, Runner
  <2> QED BY <2>1 DEF Runner, PlansAreOfRow, Written, Content
<1>2. PICK row \in Runner : row.at = "idle" /\ refresher' = [refresher EXCEPT ![r] = row]
  <2>1. PICK answer \in {"refreshed", "failed"} : refresher' = EndsWith(r, answer)
    BY DEF Publish
  <2> DEFINE row == [refresher[r] EXCEPT !.at = "idle", !.said = answer]
  <2>2. row \in Runner /\ row.at = "idle" /\ refresher' = [refresher EXCEPT ![r] = row]
    BY <1>1, <2>1 DEF EndsWith, Runner
  <2> QED BY <2>2
<1>3. /\ refresher' \in [Refreshers -> Runner] /\ refresher'[r] = row
      /\ \A o \in Refreshers : o # r => refresher'[o] = refresher[o]
  BY <1>2, RunnerChanges
<1>4. /\ UNCHANGED <<nEdits, overtaken>> /\ stranded' = (stranded \/ config # Written(r))
      /\ \/ /\ config = Written(r) /\ rowOf = refresher[r].row
            /\ rowOf' = new /\ UNCHANGED config
         \/ config = Written(r) /\ config' = refresher[r].read /\ UNCHANGED rowOf
         \/ config # Written(r) /\ UNCHANGED <<config, rowOf>>
  BY DEF Publish
<1>5. config' \in Content /\ config'.edit = config.edit /\ rowOf' \in Payloads
  BY <1>1, <1>4 DEF RefreshTypeOK
<1>6. RefreshTypeOK'
  BY <1>3, <1>4, <1>5 DEF RefreshTypeOK, Runner
<1>7. r \in Writing /\ Writing' = Writing \ {r} /\ IsFiniteSet(Writing')
  <2>1. r \in Writing /\ Writing' = Writing \ {r}
    BY <1>1, <1>2, <1>3 DEF Writing
  <2> QED BY <2>1, FS_RemoveElement
<1>8. PlansAreOfRow'
  BY <1>2, <1>3, <1>4 DEF PlansAreOfRow
<1>9. CheckedHasTheEdit' /\ EditsSurvive'
  BY <1>2, <1>3, <1>4, <1>5 DEF CheckedHasTheEdit, EditsSurvive
<1>10. ASSUME ~stranded', overtaken' = {} PROVE WritesAccountForFile'
  <2>1. ~stranded /\ overtaken = {} /\ config = Written(r)
    BY <1>4, <1>10
  <2>2. CASE \E o \in Writing : refresher[o].read.edit # config.edit
    <3>1. PICK o \in Writing : refresher[o].read.edit # config.edit
      BY <2>2
    <3>2. o # r
      BY <3>1, <2>1, <1>1
    <3>3. o \in Writing' /\ refresher'[o].read.edit # config'.edit
      BY <3>1, <3>2, <1>3, <1>5, <1>7 DEF Writing
    <3> QED BY <3>3 DEF WritesAccountForFile
  <2>3. CASE config.args = NoBinding /\ Writing = {}
    BY <2>3, <1>7
  <2>4. CASE PathFromRowToFile
    <3> SUFFICES ASSUME NEW x \in Payloads
                 PROVE  Cardinality(From(x)') + One(config'.args = x)
                          = Cardinality(To(x)') + One(rowOf' = x)
      BY DEF WritesAccountForFile, PathFromRowToFile
    <3>1. Cardinality(From(x)) + One(new = x) = Cardinality(To(x)) + One(rowOf = x)
      BY <2>1, <2>4, <1>1 DEF PathFromRowToFile
    <3>2. \A o \in Writing : o # r => refresher'[o] = refresher[o]
      BY <1>3 DEF Writing
    <3>3. /\ From(x)' = IF old = x THEN From(x) \ {r} ELSE From(x)
          /\ To(x)' = IF new = x THEN To(x) \ {r} ELSE To(x)
          /\ r \in From(x) <=> old = x
          /\ r \in To(x) <=> new = x
      BY <3>2, <1>7 DEF From, To
    <3>4. IsFiniteSet(From(x)) /\ IsFiniteSet(To(x))
      BY <1>7, FS_Subset DEF From, To
    <3>5. /\ Cardinality(From(x)') = Cardinality(From(x)) - One(old = x)
          /\ Cardinality(To(x)') = Cardinality(To(x)) - One(new = x)
          /\ Cardinality(From(x)) \in Nat /\ Cardinality(To(x)) \in Nat
      <4>1. Cardinality(From(x)) \in Nat /\ Cardinality(To(x)) \in Nat
        BY <3>4, FS_CardinalityType
      <4>2. /\ r \in From(x) => Cardinality(From(x) \ {r}) = Cardinality(From(x)) - 1
            /\ r \in To(x) => Cardinality(To(x) \ {r}) = Cardinality(To(x)) - 1
        BY <3>4, FS_RemoveElement
      <4> QED BY <4>1, <4>2, <3>3 DEF One
    <3>6. \/ config'.args = new /\ rowOf = old /\ rowOf' = new
          \/ config'.args = old /\ rowOf' = rowOf
      BY <1>1, <1>4, <2>1
    <3> QED BY <3>1, <3>5, <3>6 DEF One
  <2> QED BY <2>1, <2>2, <2>3, <2>4 DEF WritesAccountForFile
<1> QED BY <1>4, <1>5, <1>6, <1>7, <1>8, <1>9, <1>10

\* A run that dies.
LEMMA KillKeepsBinding ==
    ASSUME RefreshInv, NEW r \in Refreshers, KillRefresh(r)
    PROVE  RefreshInv'
<1> USE RefreshAssumption DEF RefreshInv
<1> DEFINE row == [refresher[r] EXCEPT !.at = "idle", !.said = "nothing"]
<1>1. row \in Runner /\ row.at = "idle" /\ refresher' = [refresher EXCEPT ![r] = row]
  BY DEF KillRefresh, EndsWith, RefreshTypeOK, Runner
<1>2. /\ refresher' \in [Refreshers -> Runner] /\ refresher'[r] = row
      /\ \A o \in Refreshers : o # r => refresher'[o] = refresher[o]
  BY <1>1, RunnerChanges
<1>3. /\ UNCHANGED <<config, rowOf, nEdits, overtaken>>
      /\ stranded' = (stranded \/ refresher[r].at = "written")
  BY DEF KillRefresh
<1>4. RefreshTypeOK'
  BY <1>2, <1>3 DEF RefreshTypeOK, Runner
<1>5. IsFiniteSet(Writing')
  <2>1. Writing' \subseteq Writing
    BY <1>1, <1>2 DEF Writing
  <2> QED BY <2>1, FS_Subset
<1>6. PlansAreOfRow' /\ CheckedHasTheEdit' /\ EditsSurvive'
  BY <1>1, <1>2, <1>3 DEF PlansAreOfRow, CheckedHasTheEdit, EditsSurvive
<1>7. ASSUME ~stranded', overtaken' = {} PROVE WritesAccountForFile'
  <2>1. refresher[r].at # "written" /\ WritesAccountForFile
    BY <1>3, <1>7
  <2>2. Writing' = Writing /\ (\A x : From(x)' = From(x) /\ To(x)' = To(x))
    BY <1>1, <2>1, WritesStay
  <2>3. \A o \in Writing : refresher'[o] = refresher[o]
    BY <1>2, <2>1 DEF Writing
  <2>4. PathFromRowToFile => PathFromRowToFile'
    BY <1>3, <2>2 DEF PathFromRowToFile
  <2> QED BY <1>3, <2>1, <2>2, <2>3, <2>4 DEF WritesAccountForFile
<1> QED BY <1>3, <1>4, <1>5, <1>6, <1>7

\* The operator's edit: whatever is pending will find it.
LEMMA EditKeepsBinding ==
    ASSUME RefreshInv, NEW args \in Payloads \cup {NoBinding}, EditConfig(args)
    PROVE  RefreshInv'
<1> USE RefreshAssumption DEF RefreshInv
<1>1. /\ UNCHANGED <<rowOf, refresher, refreshFaults, stranded>>
      /\ nEdits' = nEdits + 1 /\ nEdits < MaxEdits /\ nEdits \in 0 .. MaxEdits
      /\ config' = [args |-> args, edit |-> nEdits + 1] /\ args \in {config.args, NoBinding}
      /\ overtaken' = IF \E r \in Refreshers : refresher[r].at = "checked"
                      THEN overtaken \cup {nEdits + 1} ELSE overtaken
  BY DEF EditConfig, RefreshTypeOK
<1>2. /\ config' \in Content /\ nEdits' \in 0 .. MaxEdits /\ overtaken' \subseteq 0 .. nEdits'
      /\ config'.edit = nEdits'
  <2>1. nEdits + 1 \in 0 .. MaxEdits /\ overtaken \subseteq 0 .. (nEdits + 1)
    BY <1>1
  <2>2. config' \in Content /\ config'.edit = nEdits'
    BY <1>1, <2>1 DEF Content
  <2>3. overtaken' \subseteq 0 .. nEdits'
    BY <1>1, <2>1
  <2> QED BY <1>1, <2>1, <2>2, <2>3
<1>3. RefreshTypeOK'
  BY <1>1, <1>2 DEF RefreshTypeOK
<1>4. Writing' = Writing /\ (\A x : From(x)' = From(x) /\ To(x)' = To(x))
  BY <1>1 DEF Writing, From, To
<1>5. \A r \in Refreshers : refresher[r].read.edit \in 0 .. MaxEdits
  BY DEF RefreshTypeOK, Content
<1>6. PlansAreOfRow'
  BY <1>1, <1>5 DEF PlansAreOfRow
<1>7. CheckedHasTheEdit' /\ EditsSurvive'
  BY <1>1, <1>2 DEF CheckedHasTheEdit, EditsSurvive
<1>8. ASSUME ~stranded', overtaken' = {} PROVE WritesAccountForFile'
  <2>1. ~stranded /\ overtaken = {}
    BY <1>1, <1>8
  <2>2. CASE Writing # {}
    <3>1. PICK o \in Writing : TRUE
      BY <2>2
    <3>2. refresher'[o].read.edit <= nEdits /\ o \in Refreshers
      BY <3>1, <1>1 DEF Writing, PlansAreOfRow
    <3>3. refresher'[o].read.edit # config'.edit
      BY <3>2, <1>1, <1>2, <1>5
    <3> QED BY <3>1, <3>3, <1>4 DEF WritesAccountForFile
  <2>3. CASE Writing = {} /\ args = NoBinding
    BY <2>3, <1>1, <1>4 DEF WritesAccountForFile
  <2>4. CASE Writing = {} /\ args = config.args
    <3>1. config'.args = config.args
      BY <2>4, <1>1
    <3>2. PathFromRowToFile => PathFromRowToFile'
      BY <3>1, <1>1, <1>4 DEF PathFromRowToFile
    <3> QED BY <2>1, <2>4, <3>1, <3>2, <1>4 DEF WritesAccountForFile
  <2> QED BY <1>1, <2>2, <2>3, <2>4
<1> QED BY <1>2, <1>3, <1>4, <1>6, <1>7, <1>8, <1>1

LEMMA RefreshAlways == RefreshSpec => []RefreshInv
<1>1. RefreshInv /\ [RefreshNext]_refreshVars => RefreshInv'
  <2> SUFFICES ASSUME RefreshInv, [RefreshNext]_refreshVars PROVE RefreshInv'
    OBVIOUS
  <2>1. CASE RefreshNext
    BY <2>1, PlanKeepsBinding, ReplaceKeepsBinding, PublishKeepsBinding, KillKeepsBinding,
       EditKeepsBinding DEF RefreshNext
  <2>2. CASE UNCHANGED refreshVars
    BY <2>2 DEF refreshVars, RefreshInv, RefreshTypeOK, Writing, PlansAreOfRow,
       CheckedHasTheEdit, WritesAccountForFile, PathFromRowToFile, From, To, EditsSurvive
  <2> QED BY <2>1, <2>2
<1> QED BY RefreshInitInv, <1>1, PTL DEF RefreshSpec

\* Neither an edit of the operator nor the binding is lost to refreshes: for any
\* number of them, however they interleave with edits, fail and die, the file ends
\* up with the payload of the row.
THEOREM BindingOutlivesRefreshes == RefreshSpec => []RefreshKeepsBinding
<1>1. RefreshInv => RefreshKeepsBinding
  <2> SUFFICES ASSUME RefreshInv, \A r \in Refreshers : refresher[r].at = "idle",
                      ~stranded, overtaken = {}
               PROVE  config.args \in {rowOf, NoBinding}
    BY DEF RefreshKeepsBinding, BindingFollowsRow, RefreshInv
  <2>1. Writing = {} /\ WritesAccountForFile /\ rowOf \in Payloads
    BY DEF RefreshInv, Writing, RefreshTypeOK
  <2>2. ASSUME PathFromRowToFile PROVE config.args = rowOf
    <3>1. From(rowOf) = {} /\ To(rowOf) = {}
      BY <2>1 DEF From, To
    <3>2. Cardinality({}) + One(config.args = rowOf) = Cardinality({}) + One(rowOf = rowOf)
      BY <3>1, <2>1, <2>2 DEF PathFromRowToFile
    <3> QED BY <3>2, FS_EmptySet DEF One
  <2> QED BY <2>1, <2>2 DEF WritesAccountForFile
<1> QED BY RefreshAlways, <1>1, PTL

-----------------------------------------------------------------------------
(* The twins: TwinRepair *)

LEMMA LeastNat ==
    ASSUME NEW S \in SUBSET Nat, S # {}
    PROVE  \E x \in S : \A y \in S : x <= y
<1> DEFINE R == StrictSubsetOrdering(Nat)
           T == {0..x : x \in S}
<1>1. IsWellFoundedOn(R, FiniteSubsetsOf(Nat))
  BY FS_StrictSubsetOrderingWellFounded
<1>2. T \subseteq FiniteSubsetsOf(Nat) /\ T # {}
  <2>1. ASSUME NEW x \in S PROVE 0..x \in FiniteSubsetsOf(Nat)
    <3>1. IsFiniteSet(0..x)
      BY FS_Interval
    <3> QED BY <3>1 DEF FiniteSubsetsOf
  <2> QED BY <2>1
<1>3. PICK t \in T : \A u \in T : <<u, t>> \notin R
  <2> HIDE DEF R, T
  <2> QED BY <1>1, <1>2, WFMin
<1>4. PICK x \in S : t = 0..x
  OBVIOUS
<1>5. ASSUME NEW y \in S PROVE x <= y
  <2>1. <<0..y, 0..x>> \notin R
    BY <1>3, <1>4
  <2>2. 0..y \in SUBSET Nat /\ 0..x \in SUBSET Nat
    OBVIOUS
  <2>3. 0..y \subseteq 0..x => 0..y = 0..x
    BY <2>1, <2>2 DEF StrictSubsetOrdering
  <2>4. CASE ~(x <= y)
    <3>1. 0..y \subseteq 0..x /\ x \in 0..x /\ x \notin 0..y
      BY <2>4
    <3> QED BY <2>3, <3>1
  <2> QED BY <2>4
<1> QED BY <1>5

LEMMA MinOf ==
    ASSUME NEW S \in SUBSET Nat, S # {}
    PROVE  Min(S) \in S /\ \A y \in S : Min(S) <= y
BY LeastNat DEF Min

\* The row that a repair keeps is of the group, and stands for the ones it deletes.
LEMMA WinnerStands ==
    ASSUME TwinTypeOK, NEW G \in SUBSET Stored, G # {}, Winner(G) # 0
    PROVE  /\ Winner(G) \in G
           /\ InGroup(G, "accepted") # {} => packet[Winner(G)].status = "accepted"
           /\ \A c \in G : /\ packet[c].status = "proposed"
                           /\ InGroup(G, "accepted") = {}
                           => /\ packet[Winner(G)].status = "proposed"
                              /\ c \in marked \/ Winner(G) \notin marked
<1> DEFINE acc == InGroup(G, "accepted")
           pro == InGroup(G, "proposed")
           bare == pro \ marked
<1>1. G \subseteq Nat /\ acc \subseteq G /\ pro \subseteq G
  BY TwinsAssumption DEF Stored, InGroup
<1>2. CASE acc # {}
  <2>1. Winner(G) = Min(acc)
    BY <1>2 DEF Winner
  <2>2. Min(acc) \in acc
    BY <1>1, <1>2, MinOf
  <2> QED BY <1>2, <2>1, <2>2 DEF InGroup
<1>3. CASE acc = {} /\ pro # {}
  <2>1. pro = G
    BY <1>3 DEF Winner
  <2>2. Winner(G) = Min(IF bare # {} THEN bare ELSE pro)
    BY <1>3, <2>1 DEF Winner
  <2>3. CASE bare # {}
    <3>1. Min(bare) \in bare
      BY <1>1, <2>3, MinOf
    <3> QED BY <1>3, <2>2, <2>3, <3>1 DEF InGroup
  <2>4. CASE bare = {}
    <3>1. Min(pro) \in pro
      BY <1>1, <1>3, MinOf
    <3> QED BY <1>3, <2>1, <2>2, <2>4, <3>1 DEF InGroup
  <2> QED BY <2>3, <2>4
<1>4. CASE acc = {} /\ pro = {}
  <2>1. Winner(G) = Min(G)
    BY <1>4 DEF Winner
  <2>2. Min(G) \in G
    BY <1>1, MinOf
  <2> QED BY <1>4, <2>1, <2>2 DEF InGroup
<1> QED BY <1>2, <1>3, <1>4

\* One group, collapsed.
LEMMA CollapseStands ==
    ASSUME TwinTypeOK, NEW b \in Bodies, NEW c \in GroupOf(b),
           Collapsed(b)[c].status = "none"
    PROVE  /\ packet[c].status # "accepted"
           /\ Winner(GroupOf(b)) \in GroupOf(b) \ {c}
           /\ LET d == Winner(GroupOf(b)) IN
                /\ Collapsed(b)[d].status = packet[d].status
                /\ packet[c].status = "proposed" =>
                     \/ packet[d].status = "accepted"
                     \/ packet[d].status = "proposed" /\ (c \in marked \/ d \notin marked)
                /\ FromAlias(c) => Collapsed(b)[d].alias \/ Collapsed(b)[d].stamped
<1> DEFINE G == GroupOf(b)
           keep == Winner(G)
           gone == Losers(G)
<1>1. /\ G \in SUBSET Stored /\ G \subseteq Twins
      /\ packet[c].status # "none" /\ c \in G
  BY DEF GroupOf, Stored
<1>2. /\ ~(Cardinality(G) < 2) /\ keep # 0 /\ gone # {} /\ c \in gone
  <2>1. c \in Twins
    BY <1>1
  <2>2. ASSUME c \notin gone \/ Cardinality(G) < 2 \/ keep = 0 \/ gone = {}
        PROVE  Collapsed(b)[c].status = packet[c].status
    <3>1. packet[c] \in TwinRow /\ packet[c] # NoTwin
      BY <1>1, <2>1 DEF TwinTypeOK, NoTwin
    <3>2. packet[c] \in [status : PacketStatus, body : Bodies, alias : BOOLEAN, stamped : BOOLEAN]
      BY <3>1 DEF TwinRow
    <3>3. CASE c = keep /\ ~(Cardinality(G) < 2 \/ keep = 0 \/ gone = {})
      BY <2>1, <2>2, <3>2, <3>3, <1>1 DEF Collapsed
    <3>4. CASE c # keep \/ Cardinality(G) < 2 \/ keep = 0 \/ gone = {}
      BY <2>1, <2>2, <3>4, <1>1 DEF Collapsed
    <3> QED BY <3>3, <3>4
  <2> QED BY <1>1, <2>2
<1>3. packet[c].status # "accepted" /\ c # keep
  BY <1>2 DEF Losers
<1>4. /\ keep \in G
      /\ InGroup(G, "accepted") # {} => packet[keep].status = "accepted"
      /\ packet[c].status = "proposed" /\ InGroup(G, "accepted") = {} =>
           packet[keep].status = "proposed" /\ (c \in marked \/ keep \notin marked)
  BY <1>1, <1>2, WinnerStands
<1>5. packet[keep] \in [status : PacketStatus, body : Bodies, alias : BOOLEAN, stamped : BOOLEAN]
  <2>1. packet[keep] \in TwinRow /\ packet[keep] # NoTwin
    BY <1>1, <1>4 DEF TwinTypeOK, NoTwin, Stored
  <2> QED BY <2>1 DEF TwinRow
<1>6. Collapsed(b)[keep] = [packet[keep] EXCEPT !.alias = FALSE,
          !.stamped = @ \/ \E d \in gone \cup {keep} : FromAlias(d)]
  <2>1. keep \in Twins /\ keep \notin gone
    BY <1>1, <1>4 DEF Losers
  <2> QED BY <1>2, <1>4, <2>1 DEF Collapsed
<1>7. Collapsed(b)[keep].status = packet[keep].status
  BY <1>5, <1>6
<1>8. FromAlias(c) => Collapsed(b)[keep].stamped
  BY <1>2, <1>5, <1>6
<1> QED BY <1>3, <1>4, <1>7, <1>8

LEMMA CollapsedRows ==
    ASSUME TwinTypeOK, NEW b \in Bodies, NEW c \in Twins
    PROVE  Collapsed(b)[c] \in TwinRow
<1> DEFINE G == GroupOf(b)
           keep == Winner(G)
           gone == Losers(G)
<1>1. packet[c] \in TwinRow
  BY DEF TwinTypeOK
<1>2. CASE Collapsed(b)[c] \in {packet[c], NoTwin}
  BY <1>1, <1>2 DEF TwinRow
<1>3. CASE Collapsed(b)[c] \notin {packet[c], NoTwin}
  <2>1. PICK t \in BOOLEAN : t = (packet[c].stamped \/ \E d \in gone \cup {keep} : FromAlias(d))
    <3>1. packet[c].stamped \in BOOLEAN
      <4>1. CASE packet[c] = NoTwin
        BY <4>1 DEF NoTwin
      <4>2. CASE packet[c] # NoTwin
        <5>1. packet[c] \in [status : PacketStatus, body : Bodies, alias : BOOLEAN, stamped : BOOLEAN]
          BY <1>1, <4>2 DEF TwinRow
        <5> QED BY <5>1, Zenon
      <4> QED BY <4>1, <4>2
    <3> QED BY <3>1
  <2>2. c \in G /\ Collapsed(b)[c] = [packet[c] EXCEPT !.alias = FALSE, !.stamped = t]
    BY <1>3, <2>1 DEF Collapsed
  <2>3. packet[c] \in [status : PacketStatus, body : Bodies, alias : BOOLEAN, stamped : BOOLEAN]
    BY <1>1, <2>2 DEF GroupOf, Stored, TwinRow, NoTwin
  <2> QED BY <2>2, <2>3 DEF TwinRow
<1> QED BY <1>2, <1>3

LEMMA TwinTypes == TwinSpec => []TwinTypeOK
<1> DEFINE Tool == [at : {"idle", "planned", "collapsed", "clear"}, plan : SUBSET Planned]
<1>1. TwinInit => TwinTypeOK
  BY DEF TwinInit, TwinTypeOK, IdleRepair
<1>2. ASSUME TwinTypeOK, [TwinNext]_twinVars PROVE TwinTypeOK'
  <2>a. /\ packet \in [Twins -> TwinRow] /\ marked \subseteq Twins
        /\ uniq \in {"none", "stale", "current"} /\ repairer \in [Repairers -> Tool]
    BY <1>2 DEF TwinTypeOK
  <2>1. ASSUME NEW c \in Twins, NEW s \in PacketStatus, ResolveTwin(c, s) PROVE TwinTypeOK'
    <3>1. packet[c] \in TwinRow /\ packet[c].status = "proposed"
      BY <2>a, <2>1 DEF ResolveTwin
    <3>2. [packet[c] EXCEPT !.status = s] \in TwinRow
      BY <3>1 DEF TwinRow, NoTwin
    <3>3. packet' \in [Twins -> TwinRow]
      BY <2>a, <2>1, <3>2 DEF ResolveTwin
    <3> QED BY <2>a, <2>1, <3>3 DEF ResolveTwin, TwinTypeOK
  <2>2. ASSUME NEW c \in Twins, MarkTwin(c) PROVE TwinTypeOK'
    BY <2>a, <2>2 DEF MarkTwin, TwinTypeOK
  <2>3. CASE RebuildSchema
    BY <2>a, <2>3 DEF RebuildSchema, TwinTypeOK
  <2>4. ASSUME NEW r \in Repairers, NEW place \in {"idle", "planned", "collapsed", "clear"},
               RepairAt(r, place)
        PROVE  repairer' \in [Repairers -> Tool]
    BY <2>a, <2>4 DEF RepairAt
  <2>5. ASSUME NEW r \in Repairers, PlanCollapse(r) PROVE TwinTypeOK'
    <3> DEFINE plans == {[body |-> b, gone |-> Losers(GroupOf(b))] : b \in Collapsible}
               place == IF Collapsible = {} THEN "collapsed" ELSE "planned"
    <3>1. plans \in SUBSET Planned
      <4>1. ASSUME NEW b \in Collapsible
            PROVE  b \in Bodies /\ Losers(GroupOf(b)) \in SUBSET Twins
        BY DEF Collapsible, Losers, GroupOf, Stored
      <4>2. ASSUME NEW b \in Bodies, NEW gone \in SUBSET Twins
            PROVE  [body |-> b, gone |-> gone] \in Planned
        BY DEF Planned
      <4> QED BY <4>1, <4>2
    <3>2. repairer' = [repairer EXCEPT ![r] = [at |-> place, plan |-> plans]]
      BY <2>5 DEF PlanCollapse
    <3>3. place \in {"planned", "collapsed"}
      OBVIOUS
    <3> HIDE DEF plans, place
    <3>4. repairer' \in [Repairers -> Tool]
      BY <2>a, <3>1, <3>2, <3>3
    <3> QED BY <2>a, <2>5, <3>4 DEF PlanCollapse, TwinTypeOK
  <2>6. ASSUME NEW r \in Repairers, ApplyCollapse(r) PROVE TwinTypeOK'
    <3>1. ASSUME NEW c \in Twins PROVE packet'[c] \in TwinRow
      <4>1. CASE c \in Stored /\ \E g \in repairer[r].plan : g.body = packet[c].body
        <5>1. packet[c].body \in Bodies
          BY <4>1, <2>a DEF Stored, TwinRow, NoTwin
        <5>2. packet'[c] = Collapsed(packet[c].body)[c]
          BY <4>1, <2>6 DEF ApplyCollapse
        <5> QED BY <5>1, <5>2, <1>2, CollapsedRows
      <4>2. CASE ~(c \in Stored /\ \E g \in repairer[r].plan : g.body = packet[c].body)
        BY <4>2, <2>a, <2>6 DEF ApplyCollapse
      <4> QED BY <4>1, <4>2
    <3>2. packet' \in [Twins -> TwinRow]
      BY <3>1, <2>6 DEF ApplyCollapse
    <3>3. repairer' \in [Repairers -> Tool]
      BY <2>a, <2>6 DEF ApplyCollapse
    <3> QED BY <2>a, <2>6, <3>2, <3>3 DEF ApplyCollapse, TwinTypeOK
  <2>7. ASSUME NEW r \in Repairers, PreflightIndex(r) \/ CreateIndex(r) \/ KillRepair(r)
        PROVE  TwinTypeOK'
    <3>1. repairer' \in [Repairers -> Tool]
      BY <2>a, <2>4, <2>7 DEF PreflightIndex, CreateIndex, KillRepair, IdleRepair
    <3> QED BY <2>a, <2>7, <3>1 DEF PreflightIndex, CreateIndex, KillRepair, TwinTypeOK
  <2>8. CASE UNCHANGED twinVars
    BY <2>a, <2>8 DEF twinVars, TwinTypeOK
  <2> QED BY <1>2, <2>1, <2>2, <2>3, <2>5, <2>6, <2>7, <2>8 DEF TwinNext
<1> QED BY <1>1, <1>2, PTL DEF TwinSpec

\* No collapse of twins loses a text, a decision that a learning refers to, a row
\* that a pass would still look at or the name it came under, whatever the daemon
\* resolves and fences between the plan and the apply.
THEOREM RepairLosesNothing == TwinSpec => CollapseLosesNothing
<1> DEFINE IsKept(c) == packet'[c].status = "none" =>
             /\ packet[c].status # "accepted"
             /\ \E d \in Stored \ {c} : packet'[d].status # "none" /\ StandsFor(d, c)
<1>1. ASSUME TwinTypeOK, [TwinNext]_twinVars PROVE [\A c \in Stored : IsKept(c)]_twinVars
  <2> SUFFICES ASSUME TwinNext, NEW c \in Stored, packet'[c].status = "none" PROVE IsKept(c)
    BY <1>1
  <2>1. c \in Twins /\ packet[c].status # "none" /\ packet'[c] # packet[c]
    BY DEF Stored
  <2>2. CASE \E r \in Repairers : ApplyCollapse(r)
    <3>1. PICK r \in Repairers : ApplyCollapse(r)
      BY <2>2
    <3>2. /\ packet'[c] = Collapsed(packet[c].body)[c]
          /\ \E g \in repairer[r].plan : g.body = packet[c].body
      BY <2>1, <3>1 DEF ApplyCollapse
    <3>3. PICK b \in Bodies : b = packet[c].body
      BY <1>1, <2>1 DEF TwinTypeOK, TwinRow, NoTwin
    <3>4. c \in GroupOf(b) /\ Collapsed(b)[c].status = "none"
      BY <3>2, <3>3 DEF GroupOf
    <3>5. PICK d : d = Winner(GroupOf(b))
      OBVIOUS
    <3>6. /\ packet[c].status # "accepted" /\ d \in GroupOf(b) \ {c}
          /\ Collapsed(b)[d].status = packet[d].status
          /\ packet[c].status = "proposed" =>
               \/ packet[d].status = "accepted"
               \/ packet[d].status = "proposed" /\ (c \in marked \/ d \notin marked)
          /\ FromAlias(c) => Collapsed(b)[d].alias \/ Collapsed(b)[d].stamped
      BY <1>1, <3>4, <3>5, CollapseStands
    <3>7. d \in Stored \ {c} /\ d \in Twins /\ packet[d].body = packet[c].body
      BY <3>3, <3>6 DEF GroupOf, Stored
    <3>8. packet'[d] = Collapsed(b)[d]
      BY <3>1, <3>2, <3>3, <3>7 DEF ApplyCollapse
    <3>9. packet'[d].status # "none" /\ marked' = marked
      BY <3>1, <3>6, <3>7, <3>8 DEF ApplyCollapse, Stored
    <3> QED BY <3>6, <3>7, <3>8, <3>9 DEF StandsFor
  <2>3. CASE \E d \in Twins, s \in PacketStatus : ResolveTwin(d, s)
    BY <1>1, <2>1, <2>3 DEF ResolveTwin, PacketStatus, TwinTypeOK
  <2>4. CASE UNCHANGED packet
    BY <2>1, <2>4
  <2> QED BY <2>2, <2>3, <2>4 DEF TwinNext, MarkTwin, RebuildSchema, PlanCollapse,
             PreflightIndex, CreateIndex, KillRepair
<1> QED BY TwinTypes, <1>1, PTL DEF TwinSpec, CollapseLosesNothing

-----------------------------------------------------------------------------
(* The updates: Installer *)

RunRows == [at : {"idle", "read", "copy", "stamp", "host", "hooks"}, of : Surfaces,
            bulk : BOOLEAN, asked : WorkspaceIds, seen : WorkspaceIds,
            said : {"nothing", "failed", "skipped", "updated", "degraded"},
            copied : BOOLEAN, disturbed : BOOLEAN]

SurfacesShape ==
    /\ tree \in [Roots -> {"none", "old", "half", "new"}]
    /\ mcp \in [Roots -> [is : {"absent", "ok", "broken"}, ws : WorkspaceIds]]
    /\ host \in [Surfaces -> [is : {"none", "on", "off", "broken"}, ws : WorkspaceIds]]
    /\ hooks \in [Surfaces -> {"none", "old", "new", "custom", "broken"}]
    /\ granted \in [Surfaces -> WorkspaceIds]
    /\ update \in [Runs -> RunRows]

\* The binding in a TOML has the workspace that was granted.
TomlKeeps ==
    \A p \in Surfaces :
        Kind[p] = "toml" /\ host[p].is \in {"on", "off"} => host[p].ws = granted[p]

\* The updates that have read a surface's .mcp.json and not stamped it.
Handling(p) == {r \in Runs : SurfaceOf(r) = p /\ update[r].at \in {"copy", "stamp"}}

\* The .mcp.json of a root has the workspace that was granted, or the update that
\* has taken it away will write it.
RootKeeps(p) ==
    /\ \A q, r \in Handling(p) : q = r
    /\ \A r \in Handling(p) : update[r].seen = granted[p]
    /\ mcp[Root[p]].is = "ok" => mcp[Root[p]].ws = granted[p]
    /\ mcp[Root[p]].is = "absent" =>
         granted[p] = Repo \/ \E r \in Handling(p) : update[r].at = "stamp"
PlainKeeps == \A p \in Surfaces : Kind[p] = "plain" /\ Root[p] \notin mixed => RootKeeps(p)

\* An update that nothing has disturbed is the only one there, and has made its
\* surface what its step says.
HasBegun(r) == update[r].at # "idle" \/ update[r].said # "nothing"
QuietIsAlone ==
    \A r \in Runs : ~update[r].disturbed /\ HasBegun(r) =>
        \A q \in Runs \ {r} : update[q].at = "idle"
Progress(r) ==
    LET p == SurfaceOf(r) IN
    /\ update[r].said = "nothing"
    /\ update[r].at \in {"stamp", "host", "hooks"} => tree[Root[p]] = "new"
    /\ update[r].at \in {"host", "hooks"} => mcp[Root[p]].is = "ok"
    /\ update[r].at = "hooks" /\ Kind[p] # "plain" => host[p].is = "on"
    /\ update[r].at \in {"read", "copy"} => ~update[r].copied
    /\ update[r].bulk => host[p].is = "on" /\ hooks[p] # "broken"
QuietGoesOn ==
    \A r \in Runs : ~update[r].disturbed /\ update[r].at # "idle" => Progress(r)
AnswerHolds(r) ==
    /\ update[r].said = "updated" =>
        /\ tree[Root[SurfaceOf(r)]] = "new" /\ mcp[Root[SurfaceOf(r)]].is = "ok"
        /\ Kind[SurfaceOf(r)] # "plain" => host[SurfaceOf(r)].is = "on"
        /\ hooks[SurfaceOf(r)] = "new"
             \/ (update[r].bulk /\ hooks[SurfaceOf(r)] \in {"none", "custom"})
    /\ update[r].said \in {"failed", "skipped"} /\ update[r].bulk => ~update[r].copied
QuietAnswersHold == \A r \in Runs : ~update[r].disturbed => AnswerHolds(r)

InstallerInv ==
    /\ SurfacesShape
    /\ TomlKeeps /\ PlainKeeps
    /\ BulkActivatesNothing
    /\ QuietIsAlone /\ QuietGoesOn /\ QuietAnswersHold

LEMMA InstallerInitInv == InstallerInit => InstallerInv
<1> SUFFICES ASSUME InstallerInit PROVE InstallerInv
  OBVIOUS
<1> USE InstallerAssumption
<1>1. PICK w \in Workspaces, fresh \in BOOLEAN :
        /\ tree = [d \in Roots |-> IF fresh THEN "none" ELSE "old"]
        /\ mcp = [d \in Roots |-> [is |-> IF fresh THEN "absent" ELSE "ok", ws |-> w]]
        /\ host = [p \in Surfaces |-> [is |-> IF fresh THEN "none" ELSE "on", ws |-> w]]
        /\ hooks = [p \in Surfaces |-> IF fresh THEN "none" ELSE "old"]
        /\ granted = [p \in Surfaces |-> IF fresh THEN Repo ELSE w]
  BY DEF InstallerInit
<1>2. update = [r \in Runs |-> IdleRun] /\ woken = {} /\ mixed = {}
  BY DEF InstallerInit
<1>3. IdleRun \in RunRows /\ IdleRun.at = "idle" /\ IdleRun.said = "nothing"
  <2>1. (CHOOSE p \in Surfaces : TRUE) \in Surfaces
    OBVIOUS
  <2> QED BY <2>1 DEF IdleRun, RunRows, WorkspaceIds
<1>4. SurfacesShape
  BY <1>1, <1>2, <1>3 DEF SurfacesShape, WorkspaceIds
<1>5. TomlKeeps
  BY <1>1 DEF TomlKeeps
<1>6. PlainKeeps
  BY <1>1, <1>2, <1>3 DEF PlainKeeps, RootKeeps, Handling, Roots
<1>7. QuietIsAlone /\ QuietGoesOn /\ QuietAnswersHold
  BY <1>2, <1>3 DEF QuietIsAlone, QuietGoesOn, QuietAnswersHold, AnswerHolds, HasBegun
<1>8. BulkActivatesNothing
  BY <1>2 DEF BulkActivatesNothing
<1> QED BY <1>4, <1>5, <1>6, <1>7, <1>8 DEF InstallerInv

\* The step of one update: the others are idle or disturbed already.
LEMMA QuietStep ==
    ASSUME InstallerInv, NEW r \in Runs, NEW x \in RunRows, update[r].at # "idle",
           update' = [update EXCEPT ![r] = x], x.disturbed = update[r].disturbed,
           ~x.disturbed => (x.at # "idle" => Progress(r)') /\ AnswerHolds(r)'
    PROVE  QuietIsAlone' /\ QuietGoesOn' /\ QuietAnswersHold'
<1>1. update'[r] = x /\ \A q \in Runs : q # r => update'[q] = update[q]
  BY DEF InstallerInv, SurfacesShape
<1>2. \A q \in Runs : q # r => update[q].disturbed \/ ~HasBegun(q)
  BY DEF InstallerInv, QuietIsAlone
<1>3. ASSUME NEW q \in Runs, ~update'[q].disturbed, HasBegun(q)', NEW o \in Runs \ {q}
      PROVE  update'[o].at = "idle"
  <2>1. q = r
    BY <1>1, <1>2, <1>3 DEF HasBegun
  <2> QED BY <2>1, <1>1, <1>3 DEF InstallerInv, QuietIsAlone, HasBegun
<1>4. ASSUME NEW q \in Runs, ~update'[q].disturbed, update'[q].at # "idle" PROVE Progress(q)'
  <2>1. q = r
    BY <1>1, <1>2, <1>4 DEF HasBegun
  <2> QED BY <2>1, <1>1, <1>4
<1>5. ASSUME NEW q \in Runs, ~update'[q].disturbed PROVE AnswerHolds(q)'
  <2>1. CASE q = r
    BY <2>1, <1>1, <1>5
  <2>2. CASE q # r
    <3>1. update'[q].said = "nothing"
      BY <2>2, <1>1, <1>2, <1>5 DEF HasBegun
    <3> QED BY <3>1 DEF AnswerHolds
  <2> QED BY <2>1, <2>2
<1> QED BY <1>3, <1>4, <1>5 DEF QuietIsAlone, QuietGoesOn, QuietAnswersHold

\* A plain surface that the step is not about.
LEMMA OtherRootKeeps ==
    ASSUME InstallerInv, NEW r \in Runs, NEW x \in RunRows, NEW p \in Surfaces,
           update' = [update EXCEPT ![r] = x], x.of = SurfaceOf(r), p # SurfaceOf(r),
           mcp'[Root[p]] = mcp[Root[p]], granted'[p] = granted[p], RootKeeps(p)
    PROVE  RootKeeps(p)'
<1>1. update'[r] = x /\ \A q \in Runs : q # r => update'[q] = update[q]
  BY DEF InstallerInv, SurfacesShape
<1>2. Handling(p)' = Handling(p) /\ r \notin Handling(p)
  BY <1>1 DEF Handling, SurfaceOf
<1>3. \A q \in Handling(p) : update'[q] = update[q]
  BY <1>1, <1>2 DEF Handling
<1> QED BY <1>2, <1>3 DEF RootKeeps

\* The row of a run, as its steps change it.
LEMMA RunGoes ==
    ASSUME SurfacesShape, NEW r \in Runs,
           NEW step \in {"idle", "read", "copy", "stamp", "host", "hooks"}, GoesTo(r, step)
    PROVE  \E x \in RunRows : /\ update' = [update EXCEPT ![r] = x]
                              /\ x = [update[r] EXCEPT !.at = step]
<1>1. update[r] \in RunRows
  BY DEF SurfacesShape
<1>2. [update[r] EXCEPT !.at = step] \in RunRows
  BY <1>1 DEF RunRows
<1> QED BY <1>2 DEF GoesTo

LEMMA RunEnded ==
    ASSUME SurfacesShape, NEW r \in Runs,
           NEW status \in {"nothing", "failed", "skipped", "updated", "degraded"}, RunEnds(r, status)
    PROVE  \E x \in RunRows : /\ update' = [update EXCEPT ![r] = x]
                              /\ x = [update[r] EXCEPT !.at = "idle", !.said = status]
<1>1. update[r] \in RunRows
  BY DEF SurfacesShape
<1>2. [update[r] EXCEPT !.at = "idle", !.said = status] \in RunRows
  BY <1>1 DEF RunRows
<1> QED BY <1>2 DEF RunEnds

\* Everybody's updates are disturbed.
LEMMA AllDisturbed ==
    ASSUME SurfacesShape
    PROVE  /\ Disturbed \in [Runs -> RunRows]
           /\ \A q \in Runs : /\ Disturbed[q].disturbed
                              /\ Disturbed[q].at = update[q].at /\ Disturbed[q].of = update[q].of
                              /\ Disturbed[q].seen = update[q].seen
<1>1. ASSUME NEW q \in Runs
      PROVE  LET x == [update[q] EXCEPT !.disturbed = TRUE]
             IN  x \in RunRows /\ x.disturbed /\ x.at = update[q].at /\ x.of = update[q].of
                 /\ x.seen = update[q].seen
  <2>1. update[q] \in RunRows
    BY DEF SurfacesShape
  <2> QED BY <2>1 DEF RunRows
<1> QED BY <1>1 DEF Disturbed

LEMMA StartKeepsSurfaces ==
    ASSUME InstallerInv, NEW r \in Runs, NEW p \in Surfaces, NEW bulk \in BOOLEAN,
           NEW asked \in WorkspaceIds, StartRun(r, p, bulk, asked)
    PROVE  InstallerInv'
<1> USE InstallerAssumption DEF InstallerInv
<1>1. PICK verdict : verdict = Decided(p, bulk)
  OBVIOUS
<1>2. /\ verdict \in {"failed", "skipped", "eligible"}
      /\ verdict = "eligible" /\ bulk => host[p].is = "on" /\ hooks[p] # "broken"
  <2>1. host[p].is \in {"none", "on", "off", "broken"}
    BY DEF SurfacesShape
  <2> QED BY <1>1, <2>1 DEF Decided
<1>3. PICK busy \in BOOLEAN : busy = (ActiveRuns # {})
  OBVIOUS
<1>4. PICK x \in RunRows :
        /\ update' = [Disturbed EXCEPT ![r] = x]
        /\ x.of = p /\ x.bulk = bulk /\ ~x.copied /\ x.disturbed = busy
        /\ x.at = IF verdict = "eligible" THEN "read" ELSE "idle"
        /\ x.said \in {"nothing", "failed", "skipped"} /\ (x.at # "idle" => x.said = "nothing")
  <2> DEFINE x == [at |-> IF verdict = "eligible" THEN "read" ELSE "idle", of |-> p,
                   bulk |-> bulk, asked |-> asked, seen |-> Repo, copied |-> FALSE,
                   disturbed |-> busy,
                   said |-> IF verdict = "eligible" THEN "nothing" ELSE verdict]
  <2>1. x \in RunRows
    BY <1>2 DEF RunRows, WorkspaceIds
  <2>2. update' = [Disturbed EXCEPT ![r] = x]
    BY <1>1, <1>3 DEF StartRun
  <2> QED BY <1>2, <2>1, <2>2
<1>5. /\ update' \in [Runs -> RunRows] /\ update'[r] = x
      /\ \A q \in Runs : q # r => update'[q] = Disturbed[q]
  BY <1>4, AllDisturbed
<1>6. /\ \A q \in Runs : q # r => /\ update'[q].disturbed /\ update'[q].at = update[q].at
                                  /\ update'[q].of = update[q].of
                                  /\ update'[q].seen = update[q].seen
  BY <1>5, AllDisturbed
<1>7. /\ UNCHANGED <<tree, mcp, host, hooks, granted, woken, mixed>> /\ update[r].at = "idle"
  BY DEF StartRun
<1>8. SurfacesShape'
  BY <1>5, <1>7 DEF SurfacesShape
<1>9. TomlKeeps' /\ BulkActivatesNothing'
  BY <1>7 DEF TomlKeeps, BulkActivatesNothing
<1>10. PlainKeeps'
  <2> SUFFICES ASSUME NEW d \in Surfaces, Kind[d] = "plain", Root[d] \notin mixed
               PROVE  RootKeeps(d)'
    BY <1>7 DEF PlainKeeps
  <2>1. RootKeeps(d)
    BY DEF PlainKeeps
  <2>2. Handling(d)' = Handling(d) /\ r \notin Handling(d)
    BY <1>4, <1>5, <1>6, <1>7 DEF Handling, SurfaceOf
  <2>3. \A q \in Handling(d) : update'[q].seen = update[q].seen /\ update'[q].at = update[q].at
    BY <1>6, <2>2 DEF Handling
  <2> QED BY <1>7, <2>1, <2>2, <2>3 DEF RootKeeps
<1>11. ~x.disturbed => \A q \in Runs : update[q].at = "idle"
  BY <1>3, <1>4 DEF ActiveRuns
<1>12. QuietIsAlone'
  BY <1>5, <1>6, <1>11 DEF QuietIsAlone
<1>13. x.at # "idle" => Progress(r)'
  BY <1>2, <1>4, <1>5, <1>7 DEF Progress, SurfaceOf
<1>14. QuietGoesOn'
  BY <1>5, <1>6, <1>13 DEF QuietGoesOn
<1>15. AnswerHolds(r)'
  BY <1>4, <1>5 DEF AnswerHolds
<1>16. QuietAnswersHold'
  BY <1>5, <1>6, <1>15 DEF QuietAnswersHold
<1> QED BY <1>8, <1>9, <1>10, <1>12, <1>14, <1>16

LEMMA ReadKeepsSurfaces ==
    ASSUME InstallerInv, NEW r \in Runs, ReadSurface(r)
    PROVE  InstallerInv'
<1> USE InstallerAssumption DEF InstallerInv
<1>1. PICK p \in Surfaces : p = SurfaceOf(r)
  BY DEF SurfacesShape, RunRows, SurfaceOf
<1>2. /\ update[r] \in RunRows /\ update[r].at = "read"
      /\ UNCHANGED <<tree, mcp, host, hooks, granted, woken>>
      /\ mcp[Root[p]].ws \in WorkspaceIds /\ Root[p] \in Roots
  BY DEF ReadSurface, SurfacesShape, Roots
<1>3. PICK x \in RunRows :
        /\ update' = [update EXCEPT ![r] = x]
        /\ x.of = p /\ x.bulk = update[r].bulk /\ x.copied = update[r].copied
        /\ x.disturbed = update[r].disturbed
        /\ \/ x.at = "idle" /\ x.said = "failed"
           \/ /\ x.at = "copy" /\ x.said = update[r].said /\ mcp[Root[p]].is # "broken"
              /\ x.seen = IF mcp[Root[p]].is = "ok" THEN mcp[Root[p]].ws ELSE Repo
  <2>1. ASSUME RunEnds(r, "failed") PROVE
          \E x \in RunRows : /\ update' = [update EXCEPT ![r] = x]
                             /\ x = [update[r] EXCEPT !.at = "idle", !.said = "failed"]
    BY <2>1, RunEnded
  <2>2. ASSUME mcp[Root[p]].is # "broken",
               update' = [update EXCEPT ![r].at = "copy",
                ![r].seen = IF mcp[Root[p]].is = "ok" THEN mcp[Root[p]].ws ELSE Repo]
        PROVE \E x \in RunRows :
                /\ update' = [update EXCEPT ![r] = x]
                /\ x = [update[r] EXCEPT !.at = "copy",
                          !.seen = IF mcp[Root[p]].is = "ok" THEN mcp[Root[p]].ws ELSE Repo]
    <3> DEFINE x == [update[r] EXCEPT !.at = "copy",
                          !.seen = IF mcp[Root[p]].is = "ok" THEN mcp[Root[p]].ws ELSE Repo]
    <3>1. x \in RunRows
      BY <1>2 DEF RunRows, WorkspaceIds
    <3>2. update' = [update EXCEPT ![r] = x]
      BY <2>2
    <3> QED BY <3>1, <3>2
  <2>3. CASE RunEnds(r, "failed")
    <3>1. PICK x \in RunRows : /\ update' = [update EXCEPT ![r] = x]
                               /\ x = [update[r] EXCEPT !.at = "idle", !.said = "failed"]
      BY <2>3, <2>1
    <3> QED BY <1>1, <1>2, <3>1 DEF RunRows, SurfaceOf
  <2>4. CASE ~RunEnds(r, "failed")
    <3>1. PICK x \in RunRows :
                /\ update' = [update EXCEPT ![r] = x] /\ mcp[Root[p]].is # "broken"
                /\ x = [update[r] EXCEPT !.at = "copy",
                          !.seen = IF mcp[Root[p]].is = "ok" THEN mcp[Root[p]].ws ELSE Repo]
      BY <1>1, <2>2, <2>4 DEF ReadSurface
    <3> QED BY ZenonT(30), <1>1, <1>2, <3>1 DEF RunRows, SurfaceOf
  <2> QED BY <2>3, <2>4
<1>4. update'[r] = x /\ (\A q \in Runs : q # r => update'[q] = update[q])
      /\ update' \in [Runs -> RunRows]
  BY <1>3 DEF SurfacesShape
<1>5. SurfacesShape' /\ TomlKeeps' /\ BulkActivatesNothing'
  BY <1>2, <1>4 DEF SurfacesShape, TomlKeeps, BulkActivatesNothing
<1>6. /\ mixed \subseteq mixed'
      /\ Root[p] \notin mixed' /\ Kind[p] = "plain" => Handling(p) = {}
  <2>1. ASSUME NEW q \in Handling(p), Root[p] \notin mixed' PROVE FALSE
    <3>1. q \in ActiveRuns \ {r} /\ update[q].at \in {"copy", "stamp"} /\ SurfaceOf(q) = p
      BY <1>2, <2>1 DEF Handling, ActiveRuns
    <3> QED BY <1>1, <2>1, <3>1 DEF ReadSurface
  <2>2. mixed \subseteq mixed'
    BY DEF ReadSurface
  <2> QED BY <2>1, <2>2
<1>7. PlainKeeps'
  <2> SUFFICES ASSUME NEW d \in Surfaces, Kind[d] = "plain", Root[d] \notin mixed'
               PROVE  RootKeeps(d)'
    BY DEF PlainKeeps
  <2>1. RootKeeps(d)
    BY <1>6 DEF PlainKeeps
  <2>2. CASE d # p
    <3>1. Root[d] \in Roots
      BY DEF Roots
    <3>2. update' = [update EXCEPT ![r] = x] /\ x.of = SurfaceOf(r) /\ d # SurfaceOf(r)
      BY <1>1, <1>3, <2>2
    <3>3. mcp'[Root[d]] = mcp[Root[d]] /\ granted'[d] = granted[d]
      BY <3>1, <1>2
    <3> HIDE DEF InstallerInv
    <3> QED BY <3>2, <3>3, <2>1, OtherRootKeeps
  <2>3. CASE d = p
    <3>1. Handling(p) = {}
      BY <1>6, <2>3
    <3>2. Handling(p)' = IF x.at = "copy" THEN {r} ELSE {}
      BY <3>1, <1>3, <1>4 DEF Handling, SurfaceOf
    <3>3. mcp[Root[p]].is = "ok" => mcp[Root[p]].ws = granted[p]
      BY <2>1, <2>3 DEF RootKeeps
    <3>4. mcp[Root[p]].is = "absent" => granted[p] = Repo
      BY <2>1, <2>3, <3>1 DEF RootKeeps
    <3>5. mcp[Root[p]].is \in {"absent", "ok", "broken"}
      BY <1>2 DEF SurfacesShape
    <3>6. x.at = "copy" => x.seen = granted[p]
      BY <1>3, <3>3, <3>4, <3>5
    <3> QED BY <2>3, <3>2, <3>3, <3>4, <3>6, <1>2, <1>4 DEF RootKeeps
  <2> QED BY <2>2, <2>3
<1>8. ~x.disturbed => (x.at # "idle" => Progress(r)') /\ AnswerHolds(r)'
  <2> SUFFICES ASSUME ~x.disturbed
               PROVE  (x.at # "idle" => Progress(r)') /\ AnswerHolds(r)'
    OBVIOUS
  <2>1. Progress(r) /\ AnswerHolds(r)
    BY <1>2, <1>3 DEF QuietGoesOn, QuietAnswersHold
  <2>2. x.at # "idle" => Progress(r)'
    BY <2>1, <1>1, <1>2, <1>3, <1>4 DEF Progress, SurfaceOf
  <2>3. AnswerHolds(r)'
    BY <2>1, <1>1, <1>2, <1>3, <1>4 DEF AnswerHolds, Progress, SurfaceOf
  <2> QED BY <2>2, <2>3
<1>9. QuietIsAlone' /\ QuietGoesOn' /\ QuietAnswersHold'
  BY <1>2, <1>3, <1>8, QuietStep
<1> QED BY <1>5, <1>7, <1>9

LEMMA CopyKeepsSurfaces ==
    ASSUME InstallerInv, NEW r \in Runs, CopyTree(r)
    PROVE  InstallerInv'
<1> USE InstallerAssumption DEF InstallerInv
<1>1. PICK p \in Surfaces : p = SurfaceOf(r)
  BY DEF SurfacesShape, RunRows, SurfaceOf
<1>2. /\ update[r] \in RunRows /\ update[r].at = "copy" /\ Root[p] \in Roots
      /\ UNCHANGED <<host, hooks, granted, woken, mixed>>
      /\ tree' = [tree EXCEPT ![Root[p]] = "new"]
      /\ mcp' = [mcp EXCEPT ![Root[p]].is = "absent"]
  BY <1>1 DEF CopyTree, SurfacesShape, Roots
<1>3. PICK x \in RunRows :
        /\ update' = [update EXCEPT ![r] = x]
        /\ x.of = p /\ x.bulk = update[r].bulk /\ x.disturbed = update[r].disturbed
        /\ x.at = "stamp" /\ x.said = update[r].said /\ x.seen = update[r].seen
  <2> DEFINE x == [update[r] EXCEPT !.at = "stamp", !.copied = TRUE]
  <2>1. x \in RunRows
    BY <1>2 DEF RunRows
  <2>2. update' = [update EXCEPT ![r] = x]
    BY DEF CopyTree
  <2> QED BY <1>1, <1>2, <2>1, <2>2 DEF RunRows, SurfaceOf
<1>4. update'[r] = x /\ (\A q \in Runs : q # r => update'[q] = update[q])
      /\ update' \in [Runs -> RunRows]
  BY <1>3 DEF SurfacesShape
<1>5. /\ mcp' \in [Roots -> [is : {"absent", "ok", "broken"}, ws : WorkspaceIds]]
      /\ mcp'[Root[p]].is = "absent" /\ \A d \in Roots : d # Root[p] => mcp'[d] = mcp[d]
  BY <1>2 DEF SurfacesShape
<1>6. SurfacesShape' /\ TomlKeeps' /\ BulkActivatesNothing'
  BY <1>2, <1>4, <1>5 DEF SurfacesShape, TomlKeeps, BulkActivatesNothing
<1>7. PlainKeeps'
  <2> SUFFICES ASSUME NEW d \in Surfaces, Kind[d] = "plain", Root[d] \notin mixed
               PROVE  RootKeeps(d)'
    BY <1>2 DEF PlainKeeps
  <2>1. RootKeeps(d)
    BY DEF PlainKeeps
  <2>2. CASE d # p
    <3>1. Root[d] # Root[p] /\ Root[d] \in Roots
      BY <2>2 DEF Roots
    <3>2. update' = [update EXCEPT ![r] = x] /\ x.of = SurfaceOf(r) /\ d # SurfaceOf(r)
      BY <1>1, <1>3, <2>2
    <3>3. mcp'[Root[d]] = mcp[Root[d]] /\ granted'[d] = granted[d]
      BY <3>1, <1>2, <1>5
    <3> HIDE DEF InstallerInv
    <3> QED BY <3>2, <3>3, <2>1, OtherRootKeeps
  <2>3. CASE d = p
    <3>1. Handling(p) = {r} /\ update[r].seen = granted[p]
      BY <2>1, <2>3, <1>1, <1>2 DEF RootKeeps, Handling, SurfaceOf
    <3>2. Handling(p)' = {r}
      BY <3>1, <1>3, <1>4 DEF Handling, SurfaceOf
    <3> QED BY <2>3, <3>1, <3>2, <1>2, <1>3, <1>4, <1>5 DEF RootKeeps
  <2> QED BY <2>2, <2>3
<1>8. ~x.disturbed => (x.at # "idle" => Progress(r)') /\ AnswerHolds(r)'
  <2> SUFFICES ASSUME ~x.disturbed
               PROVE  (x.at # "idle" => Progress(r)') /\ AnswerHolds(r)'
    OBVIOUS
  <2>1. Progress(r) /\ AnswerHolds(r)
    BY <1>2, <1>3 DEF QuietGoesOn, QuietAnswersHold
  <2>2. tree'[Root[p]] = "new"
    BY <1>2 DEF SurfacesShape
  <2>3. Progress(r)'
    BY <2>1, <2>2, <1>1, <1>2, <1>3, <1>4 DEF Progress, SurfaceOf
  <2> QED BY <2>3 DEF AnswerHolds, Progress
<1>9. QuietIsAlone' /\ QuietGoesOn' /\ QuietAnswersHold'
  BY <1>2, <1>3, <1>8, QuietStep
<1> QED BY <1>6, <1>7, <1>9

LEMMA StampKeepsSurfaces ==
    ASSUME InstallerInv, NEW r \in Runs, StampRoot(r)
    PROVE  InstallerInv'
<1> USE InstallerAssumption DEF InstallerInv
<1>1. PICK p \in Surfaces : p = SurfaceOf(r)
  BY DEF SurfacesShape, RunRows, SurfaceOf
<1>2. PICK ws : ws = IF update[r].asked # Repo THEN update[r].asked ELSE update[r].seen
  OBVIOUS
<1>3. /\ update[r] \in RunRows /\ update[r].at = "stamp" /\ Root[p] \in Roots
      /\ UNCHANGED <<tree, host, hooks, woken, mixed>> /\ ws \in WorkspaceIds
      /\ mcp' = [mcp EXCEPT ![Root[p]] = [is |-> "ok", ws |-> ws]]
      /\ granted' = IF Kind[p] = "plain" /\ update[r].asked # Repo
                    THEN [granted EXCEPT ![p] = update[r].asked] ELSE granted
  <2>1. update[r] \in RunRows /\ Root[p] \in Roots
    BY DEF SurfacesShape, Roots
  <2> QED BY <1>1, <1>2, <2>1 DEF StampRoot, RunRows
<1>4. PICK x \in RunRows :
        /\ update' = [update EXCEPT ![r] = x]
        /\ x.of = p /\ x.bulk = update[r].bulk /\ x.disturbed = update[r].disturbed
        /\ x.at = "host" /\ x.said = update[r].said
  <2>1. PICK x \in RunRows : /\ update' = [update EXCEPT ![r] = x]
                             /\ x = [update[r] EXCEPT !.at = "host"]
    BY RunGoes DEF StampRoot
  <2> QED BY <1>1, <1>3, <2>1 DEF RunRows, SurfaceOf
<1>5. update'[r] = x /\ (\A q \in Runs : q # r => update'[q] = update[q])
      /\ update' \in [Runs -> RunRows]
  BY <1>4 DEF SurfacesShape
<1>6. /\ mcp' \in [Roots -> [is : {"absent", "ok", "broken"}, ws : WorkspaceIds]]
      /\ mcp'[Root[p]].is = "ok" /\ mcp'[Root[p]].ws = ws
      /\ \A d \in Roots : d # Root[p] => mcp'[d] = mcp[d]
      /\ granted' \in [Surfaces -> WorkspaceIds]
      /\ \A d \in Surfaces : d # p \/ Kind[d] # "plain" => granted'[d] = granted[d]
      /\ Kind[p] = "plain" =>
           granted'[p] = IF update[r].asked # Repo THEN update[r].asked ELSE granted[p]
  <2>1. update[r].asked \in WorkspaceIds
    BY <1>3 DEF RunRows
  <2>2. /\ mcp' \in [Roots -> [is : {"absent", "ok", "broken"}, ws : WorkspaceIds]]
        /\ mcp'[Root[p]].is = "ok" /\ mcp'[Root[p]].ws = ws
        /\ \A d \in Roots : d # Root[p] => mcp'[d] = mcp[d]
    BY <1>3 DEF SurfacesShape
  <2>3. /\ granted' \in [Surfaces -> WorkspaceIds]
        /\ \A d \in Surfaces : d # p \/ Kind[d] # "plain" => granted'[d] = granted[d]
        /\ Kind[p] = "plain" =>
             granted'[p] = IF update[r].asked # Repo THEN update[r].asked ELSE granted[p]
    BY <1>3, <2>1 DEF SurfacesShape
  <2> QED BY <2>2, <2>3
<1>7. SurfacesShape' /\ TomlKeeps' /\ BulkActivatesNothing'
  BY <1>3, <1>5, <1>6 DEF SurfacesShape, TomlKeeps, BulkActivatesNothing
<1>8. PlainKeeps'
  <2> SUFFICES ASSUME NEW d \in Surfaces, Kind[d] = "plain", Root[d] \notin mixed
               PROVE  RootKeeps(d)'
    BY <1>3 DEF PlainKeeps
  <2>1. RootKeeps(d)
    BY DEF PlainKeeps
  <2>2. CASE d # p
    <3>1. Root[d] # Root[p] /\ Root[d] \in Roots
      BY <2>2 DEF Roots
    <3>2. update' = [update EXCEPT ![r] = x] /\ x.of = SurfaceOf(r) /\ d # SurfaceOf(r)
      BY <1>1, <1>4, <2>2
    <3>3. mcp'[Root[d]] = mcp[Root[d]] /\ granted'[d] = granted[d]
      BY <3>1, <1>3, <1>6, <2>2
    <3> HIDE DEF InstallerInv
    <3> QED BY <3>2, <3>3, <2>1, OtherRootKeeps
  <2>3. CASE d = p
    <3>1. Handling(p) = {r} /\ update[r].seen = granted[p]
      BY <2>1, <2>3, <1>1, <1>3 DEF RootKeeps, Handling, SurfaceOf
    <3>2. Handling(p)' = {}
      BY <3>1, <1>4, <1>5 DEF Handling, SurfaceOf
    <3>3. granted'[p] = ws
      BY <2>3, <3>1, <1>2, <1>6
    <3> QED BY <2>3, <3>2, <3>3, <1>6 DEF RootKeeps
  <2> QED BY <2>2, <2>3
<1>9. ~x.disturbed => (x.at # "idle" => Progress(r)') /\ AnswerHolds(r)'
  <2> SUFFICES ASSUME ~x.disturbed
               PROVE  (x.at # "idle" => Progress(r)') /\ AnswerHolds(r)'
    OBVIOUS
  <2>1. Progress(r)
    BY <1>3, <1>4 DEF QuietGoesOn
  <2>2. Progress(r)'
    BY <2>1, <1>1, <1>3, <1>4, <1>5, <1>6 DEF Progress, SurfaceOf
  <2> QED BY <2>2 DEF AnswerHolds, Progress
<1>10. QuietIsAlone' /\ QuietGoesOn' /\ QuietAnswersHold'
  BY <1>3, <1>4, <1>9, QuietStep
<1> QED BY <1>7, <1>8, <1>10

\* A step that is about no .mcp.json.
LEMMA RootKeepsOn ==
    ASSUME InstallerInv, NEW r \in Runs, NEW x \in RunRows, NEW d \in Surfaces,
           update' = [update EXCEPT ![r] = x],
           update[r].at \notin {"copy", "stamp"}, x.at \notin {"copy", "stamp"},
           mcp'[Root[d]] = mcp[Root[d]], granted'[d] = granted[d], RootKeeps(d)
    PROVE  RootKeeps(d)'
<1>1. update'[r] = x /\ \A q \in Runs : q # r => update'[q] = update[q]
  BY DEF InstallerInv, SurfacesShape
<1>2. Handling(d)' = Handling(d) /\ r \notin Handling(d)
  BY <1>1 DEF Handling, SurfaceOf
<1>3. \A q \in Handling(d) : update'[q] = update[q]
  BY <1>1, <1>2 DEF Handling
<1> QED BY <1>2, <1>3 DEF RootKeeps

LEMMA HostKeepsSurfaces ==
    ASSUME InstallerInv, NEW r \in Runs, WriteHost(r)
    PROVE  InstallerInv'
<1> USE InstallerAssumption DEF InstallerInv
<1>1. PICK p \in Surfaces : p = SurfaceOf(r)
  BY DEF SurfacesShape, RunRows, SurfaceOf
<1>2. PICK bound : bound = Binding(r)
  OBVIOUS
<1>3. /\ update[r] \in RunRows /\ update[r].at = "host" /\ Root[p] \in Roots
      /\ UNCHANGED <<tree, mcp, hooks, mixed>>
      /\ update[r].asked \in WorkspaceIds
      /\ bound = [is |-> "on", ws |->
            IF Kind[p] = "toml" /\ update[r].asked = Repo /\ host[p].is # "none"
            THEN host[p].ws ELSE update[r].asked]
      /\ bound \in [is : {"none", "on", "off", "broken"}, ws : WorkspaceIds]
  <2>1. update[r] \in RunRows /\ Root[p] \in Roots /\ host[p].ws \in WorkspaceIds
    BY DEF SurfacesShape, Roots
  <2>2. update[r].asked \in WorkspaceIds
    BY <2>1 DEF RunRows
  <2> QED BY <1>1, <1>2, <2>1, <2>2 DEF WriteHost, Binding
<1> DEFINE Skips == /\ Kind[p] = "plain" \/ ~IsWritable(r)
                    /\ GoesTo(r, "hooks") /\ UNCHANGED <<host, granted, woken>>
           Fails == /\ Kind[p] # "plain" /\ host[p].is = "broken"
                    /\ RunEnds(r, "failed") /\ UNCHANGED <<host, granted, woken>>
           Binds == /\ Kind[p] # "plain" /\ IsWritable(r) /\ host[p].is # "broken"
                    /\ host' = [host EXCEPT ![p] = bound]
                    /\ granted' = [granted EXCEPT ![p] =
                          IF update[r].asked # Repo THEN update[r].asked
                          ELSE IF host[p].is = "none" THEN Repo ELSE granted[p]]
                    /\ woken' = IF update[r].bulk /\ host[p].is = "none"
                                THEN woken \cup {p} ELSE woken
                    /\ GoesTo(r, "hooks")
<1>4. Skips \/ Fails \/ Binds
  BY <1>1, <1>2 DEF WriteHost
<1>5. PICK x \in RunRows :
        /\ update' = [update EXCEPT ![r] = x]
        /\ x.of = p /\ x.bulk = update[r].bulk /\ x.disturbed = update[r].disturbed
        /\ \/ x.at = "hooks" /\ x.said = update[r].said /\ (Skips \/ Binds)
           \/ x.at = "idle" /\ x.said = "failed" /\ Fails
  <2>1. ASSUME Skips \/ Binds PROVE
          \E x \in RunRows : /\ update' = [update EXCEPT ![r] = x]
                             /\ x = [update[r] EXCEPT !.at = "hooks"]
    BY <2>1, RunGoes
  <2>2. ASSUME Fails PROVE
          \E x \in RunRows : /\ update' = [update EXCEPT ![r] = x]
                             /\ x = [update[r] EXCEPT !.at = "idle", !.said = "failed"]
    BY <2>2, RunEnded
  <2>3. CASE Skips \/ Binds
    <3>1. PICK x \in RunRows : /\ update' = [update EXCEPT ![r] = x]
                               /\ x = [update[r] EXCEPT !.at = "hooks"]
      BY <2>1, <2>3
    <3>2. x.of = p /\ x.bulk = update[r].bulk /\ x.disturbed = update[r].disturbed
          /\ x.at = "hooks" /\ x.said = update[r].said
      BY <1>1, <1>3, <3>1 DEF RunRows, SurfaceOf
    <3> HIDE DEF Skips, Fails, Binds
    <3> QED BY <2>3, <3>1, <3>2
  <2>4. CASE Fails
    <3>1. PICK x \in RunRows : /\ update' = [update EXCEPT ![r] = x]
                               /\ x = [update[r] EXCEPT !.at = "idle", !.said = "failed"]
      BY <2>2, <2>4
    <3>2. x.of = p /\ x.bulk = update[r].bulk /\ x.disturbed = update[r].disturbed
          /\ x.at = "idle" /\ x.said = "failed"
      BY <1>1, <1>3, <3>1 DEF RunRows, SurfaceOf
    <3> HIDE DEF Skips, Fails, Binds
    <3> QED BY <2>4, <3>1, <3>2
  <2> HIDE DEF Skips, Fails, Binds
  <2> QED BY <1>4, <2>3, <2>4
<1>6. update'[r] = x /\ (\A q \in Runs : q # r => update'[q] = update[q])
      /\ update' \in [Runs -> RunRows]
  BY <1>5 DEF SurfacesShape
<1>7. /\ \A d \in Surfaces : d # p => host'[d] = host[d] /\ granted'[d] = granted[d]
      /\ Kind[p] = "plain" => granted'[p] = granted[p]
      /\ host' \in [Surfaces -> [is : {"none", "on", "off", "broken"}, ws : WorkspaceIds]]
      /\ granted' \in [Surfaces -> WorkspaceIds]
  <2>1. CASE Binds
    BY <2>1, <1>3 DEF SurfacesShape, WorkspaceIds
  <2>2. CASE Skips \/ Fails
    BY <2>2 DEF SurfacesShape
  <2> QED BY <2>1, <2>2, <1>4
<1>8. SurfacesShape'
  BY <1>3, <1>6, <1>7 DEF SurfacesShape
<1>9. TomlKeeps'
  <2> SUFFICES ASSUME NEW d \in Surfaces, Kind[d] = "toml", host'[d].is \in {"on", "off"}
               PROVE  host'[d].ws = granted'[d]
    BY DEF TomlKeeps
  <2>1. host[d].is \in {"on", "off"} => host[d].ws = granted[d]
    BY DEF TomlKeeps
  <2>2. CASE d = p /\ Binds
    <3>1. host'[p] = bound /\ granted'[p] =
             IF update[r].asked # Repo THEN update[r].asked
             ELSE IF host[p].is = "none" THEN Repo ELSE granted[p]
      BY <2>2 DEF SurfacesShape
    <3>2. host[p].is \in {"none", "on", "off"}
      BY <2>2 DEF SurfacesShape
    <3> QED BY <2>1, <2>2, <3>1, <3>2, <1>3
  <2>3. CASE d # p \/ Skips \/ Fails
    BY <2>1, <2>3, <1>7
  <2> QED BY <2>2, <2>3, <1>4
<1>10. BulkActivatesNothing'
  <2>1. CASE Binds
    BY <2>1, <1>1 DEF BulkActivatesNothing, IsWritable
  <2>2. CASE Skips \/ Fails
    BY <2>2 DEF BulkActivatesNothing
  <2> QED BY <2>1, <2>2, <1>4
<1>11. PlainKeeps'
  <2> SUFFICES ASSUME NEW d \in Surfaces, Kind[d] = "plain", Root[d] \notin mixed
               PROVE  RootKeeps(d)'
    BY <1>3 DEF PlainKeeps
  <2>1. RootKeeps(d) /\ granted'[d] = granted[d]
    BY <1>7 DEF PlainKeeps
  <2> QED BY <2>1, <1>3, <1>5, RootKeepsOn
<1>12. ~x.disturbed => (x.at # "idle" => Progress(r)') /\ AnswerHolds(r)'
  <2> SUFFICES ASSUME ~x.disturbed
               PROVE  (x.at # "idle" => Progress(r)') /\ AnswerHolds(r)'
    OBVIOUS
  <2>1. Progress(r)
    BY <1>3, <1>5 DEF QuietGoesOn
  <2>2. CASE Fails
    <3>1. ~update[r].bulk
      BY <2>1, <2>2, <1>1 DEF Progress
    <3>2. update'[r].said # "updated" /\ ~update'[r].bulk /\ x.at = "idle"
      BY <3>1, <2>1, <2>2, <1>5, <1>6 DEF Progress, RunEnds, RunRows, SurfacesShape
    <3> QED BY <3>2 DEF AnswerHolds
  <2>3. CASE ~Fails
    <3>1. x.at = "hooks" /\ x.said = "nothing" /\ (Skips \/ Binds)
      BY <2>1, <2>3, <1>5 DEF Progress
    <3>2. Kind[p] # "plain" => host'[p].is = "on"
      <4>1. CASE Binds
        BY <4>1, <1>3 DEF SurfacesShape
      <4>2. CASE Skips
        BY <4>2, <2>1, <1>1 DEF IsWritable, Progress
      <4> QED BY <3>1, <4>1, <4>2
    <3>3. update[r].bulk => host'[p].is = "on"
      <4>1. CASE Binds
        BY <4>1, <1>3 DEF SurfacesShape
      <4>2. CASE Skips
        BY <4>2, <2>1, <1>1 DEF Progress
      <4> QED BY <3>1, <4>1, <4>2
    <3>4. Progress(r)'
      BY <3>1, <3>2, <3>3, <2>1, <1>1, <1>3, <1>5, <1>6 DEF Progress, SurfaceOf
    <3> QED BY <3>4 DEF AnswerHolds, Progress
  <2> QED BY <2>2, <2>3
<1>13. QuietIsAlone' /\ QuietGoesOn' /\ QuietAnswersHold'
  BY <1>3, <1>5, <1>12, QuietStep
<1> QED BY <1>8, <1>9, <1>10, <1>11, <1>13

LEMMA HooksKeepSurfaces ==
    ASSUME InstallerInv, NEW r \in Runs, RefreshHooks(r)
    PROVE  InstallerInv'
<1> USE InstallerAssumption DEF InstallerInv
<1>1. PICK p \in Surfaces : p = SurfaceOf(r)
  BY DEF SurfacesShape, RunRows, SurfaceOf
<1>2. /\ update[r] \in RunRows /\ update[r].at = "hooks"
      /\ UNCHANGED <<tree, mcp, host, granted, woken, mixed>>
      /\ hooks[p] \in {"none", "old", "new", "custom", "broken"}
  BY DEF RefreshHooks, SurfacesShape
<1>3. PICK status \in {"failed", "updated", "degraded"},
           left \in {"none", "old", "new", "custom", "broken"} :
        /\ RunEnds(r, status)
        /\ hooks' = [hooks EXCEPT ![p] = left]
        /\ status = "failed" => ~update[r].bulk \/ hooks[p] = "broken"
        /\ status = "updated" => left = "new" \/ (update[r].bulk /\ left \in {"none", "custom"})
  <2>1. CASE /\ hooks[p] = "broken" /\ RunEnds(r, "failed") /\ UNCHANGED hooks
    <3>1. hooks' = [hooks EXCEPT ![p] = hooks[p]]
      BY <2>1, <1>2 DEF SurfacesShape
    <3> QED BY <3>1, <2>1, <1>2
  <2>2. CASE /\ update[r].bulk /\ hooks[p] # "broken" /\ RunEnds(r, "updated")
             /\ hooks' = [hooks EXCEPT ![p] = IF hooks[p] = "old" THEN "new" ELSE hooks[p]]
    <3>1. PICK left : left = IF hooks[p] = "old" THEN "new" ELSE hooks[p]
      OBVIOUS
    <3> QED BY <3>1, <2>2, <1>2
  <2>3. CASE RunEnds(r, "updated") /\ hooks' = [hooks EXCEPT ![p] = "new"]
    BY <2>3
  <2>4. CASE RunEnds(r, "degraded") /\ UNCHANGED hooks
    <3>1. hooks' = [hooks EXCEPT ![p] = hooks[p]]
      BY <2>4, <1>2 DEF SurfacesShape
    <3> QED BY <3>1, <2>4, <1>2
  <2> QED BY <2>1, <2>2, <2>3, <2>4, <1>1 DEF RefreshHooks
<1>4. PICK x \in RunRows :
        /\ update' = [update EXCEPT ![r] = x]
        /\ x.of = p /\ x.bulk = update[r].bulk /\ x.disturbed = update[r].disturbed
        /\ x.at = "idle" /\ x.said = status
  <2> HIDE DEF InstallerInv
  <2>0. /\ SurfacesShape /\ RunEnds(r, status)
        /\ status \in {"nothing", "failed", "skipped", "updated", "degraded"}
    BY <1>3 DEF InstallerInv
  <2>1. PICK x \in RunRows : /\ update' = [update EXCEPT ![r] = x]
                             /\ x = [update[r] EXCEPT !.at = "idle", !.said = status]
    BY <2>0, RunEnded
  <2> QED BY <1>1, <1>2, <2>1 DEF RunRows, SurfaceOf
<1>5. update'[r] = x /\ (\A q \in Runs : q # r => update'[q] = update[q])
      /\ update' \in [Runs -> RunRows]
  BY <1>4 DEF SurfacesShape
<1>6. SurfacesShape' /\ TomlKeeps' /\ BulkActivatesNothing'
  BY <1>2, <1>3, <1>5 DEF SurfacesShape, TomlKeeps, BulkActivatesNothing
<1>7. PlainKeeps'
  <2> SUFFICES ASSUME NEW d \in Surfaces, Kind[d] = "plain", Root[d] \notin mixed
               PROVE  RootKeeps(d)'
    BY <1>2 DEF PlainKeeps
  <2>1. RootKeeps(d)
    BY DEF PlainKeeps
  <2> QED BY <2>1, <1>2, <1>4, RootKeepsOn
<1>8. ~x.disturbed => (x.at # "idle" => Progress(r)') /\ AnswerHolds(r)'
  <2> SUFFICES ASSUME ~x.disturbed PROVE AnswerHolds(r)'
    BY <1>4
  <2>1. Progress(r)
    BY <1>2, <1>4 DEF QuietGoesOn
  <2>2. hooks'[p] = left
    BY <1>3 DEF SurfacesShape
  <2>3. status = "failed" => ~update[r].bulk
    BY <2>1, <1>1, <1>3 DEF Progress
  <2> QED BY <2>1, <2>2, <2>3, <1>1, <1>2, <1>3, <1>4, <1>5 DEF AnswerHolds, Progress, SurfaceOf
<1>9. QuietIsAlone' /\ QuietGoesOn' /\ QuietAnswersHold'
  BY <1>2, <1>4, <1>8, QuietStep
<1> QED BY <1>6, <1>7, <1>9

LEMMA KillKeepsSurfaces ==
    ASSUME InstallerInv, NEW r \in Runs, KillRun(r)
    PROVE  InstallerInv'
<1> USE InstallerAssumption DEF InstallerInv
<1>1. PICK p \in Surfaces : p = SurfaceOf(r)
  BY DEF SurfacesShape, RunRows, SurfaceOf
<1>2. /\ update[r] \in RunRows /\ update[r].at # "idle" /\ Root[p] \in Roots
      /\ UNCHANGED <<hooks, granted, woken>>
      /\ mixed' = IF update[r].at \in {"copy", "stamp"} THEN mixed \cup {Root[p]} ELSE mixed
  BY <1>1 DEF KillRun, SurfacesShape, Roots
<1>3. PICK x \in RunRows :
        /\ update' = [update EXCEPT ![r] = x]
        /\ x.of = p /\ x.disturbed = update[r].disturbed /\ x.at = "idle" /\ x.said = "nothing"
  <2>1. PICK x \in RunRows : /\ update' = [update EXCEPT ![r] = x]
                             /\ x = [update[r] EXCEPT !.at = "idle", !.said = "nothing"]
    BY RunEnded DEF KillRun
  <2> QED BY <1>1, <1>2, <2>1 DEF RunRows, SurfaceOf
<1>4. update'[r] = x /\ (\A q \in Runs : q # r => update'[q] = update[q])
      /\ update' \in [Runs -> RunRows]
  BY <1>3 DEF SurfacesShape
<1>5. /\ tree' \in [Roots -> {"none", "old", "half", "new"}]
      /\ mcp' \in [Roots -> [is : {"absent", "ok", "broken"}, ws : WorkspaceIds]]
      /\ host' \in [Surfaces -> [is : {"none", "on", "off", "broken"}, ws : WorkspaceIds]]
      /\ \A d \in Roots : d # Root[p] \/ update[r].at # "copy" => mcp'[d] = mcp[d]
      /\ \A d \in Surfaces : host'[d] = host[d] \/ host'[d].is = "broken"
  <2>1. CASE UNCHANGED <<tree, mcp, host>>
    BY <2>1 DEF SurfacesShape
  <2>2. CASE /\ update[r].at = "copy" /\ tree' = [tree EXCEPT ![Root[p]] = "half"]
             /\ mcp' = [mcp EXCEPT ![Root[p]].is = "absent"] /\ UNCHANGED host
    BY <2>2, <1>2 DEF SurfacesShape
  <2>3. CASE /\ host' = [host EXCEPT ![p].is = "broken"] /\ UNCHANGED <<tree, mcp>>
    BY <2>3, <1>2 DEF SurfacesShape
  <2> QED BY <2>1, <2>2, <2>3, <1>1 DEF KillRun
<1>6. SurfacesShape' /\ TomlKeeps' /\ BulkActivatesNothing'
  <2>1. SurfacesShape' /\ BulkActivatesNothing'
    BY <1>2, <1>4, <1>5 DEF SurfacesShape, BulkActivatesNothing
  <2>2. TomlKeeps'
    BY <1>2, <1>5 DEF TomlKeeps
  <2> QED BY <2>1, <2>2
<1>7. PlainKeeps'
  <2> SUFFICES ASSUME NEW d \in Surfaces, Kind[d] = "plain", Root[d] \notin mixed'
               PROVE  RootKeeps(d)'
    BY DEF PlainKeeps
  <2>1. RootKeeps(d)
    BY <1>2 DEF PlainKeeps
  <2>2. CASE d # p
    <3>1. Root[d] # Root[p] /\ Root[d] \in Roots
      BY <2>2 DEF Roots
    <3>2. update' = [update EXCEPT ![r] = x] /\ x.of = SurfaceOf(r) /\ d # SurfaceOf(r)
      BY <1>1, <1>3, <2>2
    <3>3. mcp'[Root[d]] = mcp[Root[d]] /\ granted'[d] = granted[d]
      BY <3>1, <1>2, <1>5
    <3> HIDE DEF InstallerInv
    <3> QED BY <3>2, <3>3, <2>1, OtherRootKeeps
  <2>3. CASE d = p
    <3>1. update[r].at \notin {"copy", "stamp"}
      BY <2>3, <1>2
    <3>2. mcp'[Root[d]] = mcp[Root[d]] /\ granted'[d] = granted[d]
      BY <3>1, <2>3, <1>2, <1>5
    <3>3. x.at \notin {"copy", "stamp"}
      BY <1>3
    <3> QED BY <3>1, <3>2, <3>3, <1>3, <2>1, RootKeepsOn
  <2> QED BY <2>2, <2>3
<1>8. AnswerHolds(r)' /\ x.at = "idle"
  BY <1>3, <1>4 DEF AnswerHolds
<1>9. QuietIsAlone' /\ QuietGoesOn' /\ QuietAnswersHold'
  BY <1>2, <1>3, <1>8, QuietStep
<1> QED BY <1>6, <1>7, <1>9

LEMMA OperatorKeepsSurfaces ==
    ASSUME InstallerInv, NEW p \in Surfaces, OperatorEdits(p)
    PROVE  InstallerInv'
<1> USE InstallerAssumption DEF InstallerInv
<1>1. /\ update' = Disturbed /\ UNCHANGED <<tree, granted, woken, mixed>>
      /\ Root[p] \in Roots
  BY DEF OperatorEdits, Roots
<1>2. /\ update' \in [Runs -> RunRows]
      /\ \A q \in Runs : /\ update'[q].disturbed
                         /\ update'[q].at = update[q].at /\ update'[q].of = update[q].of
                         /\ update'[q].seen = update[q].seen
  BY <1>1, AllDisturbed
<1>3. /\ host' \in [Surfaces -> [is : {"none", "on", "off", "broken"}, ws : WorkspaceIds]]
      /\ \A d \in Surfaces : \/ host'[d] = host[d]
                             \/ host'[d].is \in {"none", "broken"}
                             \/ /\ host'[d].is = "off" /\ host[d].is = "on"
                                /\ host'[d].ws = host[d].ws
  <2>1. CASE UNCHANGED host
    BY <2>1 DEF SurfacesShape
  <2>2. CASE \E state \in {"none", "broken"} \cup (IF host[p].is = "on" THEN {"off"} ELSE {}) :
               host' = [host EXCEPT ![p].is = state]
    <3>1. PICK state \in {"none", "broken"} \cup (IF host[p].is = "on" THEN {"off"} ELSE {}) :
            host' = [host EXCEPT ![p].is = state]
      BY <2>2
    <3>2. state \in {"none", "broken"} \/ (state = "off" /\ host[p].is = "on")
      BY <3>1
    <3> QED BY <3>1, <3>2 DEF SurfacesShape
  <2> QED BY <2>1, <2>2 DEF OperatorEdits
<1>4. /\ mcp' \in [Roots -> [is : {"absent", "ok", "broken"}, ws : WorkspaceIds]]
      /\ \A d \in Roots : mcp'[d] = mcp[d] \/ (mcp'[d].is = "broken" /\ mcp[d].is = "ok")
  BY <1>1 DEF OperatorEdits, SurfacesShape
<1>5. hooks' \in [Surfaces -> {"none", "old", "new", "custom", "broken"}]
  BY DEF OperatorEdits, SurfacesShape
<1>6. SurfacesShape' /\ BulkActivatesNothing'
  BY <1>1, <1>2, <1>3, <1>4, <1>5 DEF SurfacesShape, BulkActivatesNothing
<1>7. TomlKeeps'
  BY <1>1, <1>3 DEF TomlKeeps
<1>8. PlainKeeps'
  <2> SUFFICES ASSUME NEW d \in Surfaces, Kind[d] = "plain", Root[d] \notin mixed
               PROVE  RootKeeps(d)'
    BY <1>1 DEF PlainKeeps
  <2>1. RootKeeps(d) /\ Root[d] \in Roots
    BY DEF PlainKeeps, Roots
  <2>2. Handling(d)' = Handling(d)
    BY <1>2 DEF Handling, SurfaceOf
  <2>3. \A q \in Handling(d) : update'[q].seen = update[q].seen /\ update'[q].at = update[q].at
    BY <1>2 DEF Handling
  <2> QED BY <1>1, <1>4, <2>1, <2>2, <2>3 DEF RootKeeps
<1>9. QuietIsAlone' /\ QuietGoesOn' /\ QuietAnswersHold'
  BY <1>2 DEF QuietIsAlone, QuietGoesOn, QuietAnswersHold
<1> QED BY <1>6, <1>7, <1>8, <1>9

LEMMA InstallerAlways == InstallerSpec => []InstallerInv
<1>1. InstallerInit => InstallerInv
  BY InstallerInitInv
<1>2. InstallerInv /\ [InstallerNext]_installerVars => InstallerInv'
  <2> SUFFICES ASSUME InstallerInv, [InstallerNext]_installerVars PROVE InstallerInv'
    OBVIOUS
  <2>1. ASSUME NEW r \in Runs, NEW p \in Surfaces, NEW bulk \in BOOLEAN,
               NEW asked \in WorkspaceIds, StartRun(r, p, bulk, asked)
        PROVE  InstallerInv'
    BY <2>1, StartKeepsSurfaces
  <2>2. ASSUME NEW r \in Runs, ReadSurface(r) PROVE InstallerInv'
    BY <2>2, ReadKeepsSurfaces
  <2>3. ASSUME NEW r \in Runs, CopyTree(r) PROVE InstallerInv'
    BY <2>3, CopyKeepsSurfaces
  <2>4. ASSUME NEW r \in Runs, StampRoot(r) PROVE InstallerInv'
    BY <2>4, StampKeepsSurfaces
  <2>5. ASSUME NEW r \in Runs, WriteHost(r) PROVE InstallerInv'
    BY <2>5, HostKeepsSurfaces
  <2>6. ASSUME NEW r \in Runs, RefreshHooks(r) PROVE InstallerInv'
    BY <2>6, HooksKeepSurfaces
  <2>7. ASSUME NEW r \in Runs, KillRun(r) PROVE InstallerInv'
    BY <2>7, KillKeepsSurfaces
  <2>8. ASSUME NEW p \in Surfaces, OperatorEdits(p) PROVE InstallerInv'
    BY <2>8, OperatorKeepsSurfaces
  <2>9. CASE UNCHANGED installerVars
    BY <2>9 DEF installerVars, InstallerInv, SurfacesShape, TomlKeeps, PlainKeeps, RootKeeps,
       Handling, SurfaceOf, BulkActivatesNothing, QuietIsAlone, HasBegun, QuietGoesOn,
       Progress, QuietAnswersHold, AnswerHolds
  <2> QED BY <2>1, <2>2, <2>3, <2>4, <2>5, <2>6, <2>7, <2>8, <2>9 DEF InstallerNext
<1> QED BY <1>1, <1>2, PTL DEF InstallerSpec

\* Updates that meet, die and are edited under leave every surface its workspace,
\* wake no view that its operator has unbound, and answer truly.
THEOREM UpdatesLeaveTheirOwn == InstallerSpec => []UpdatesAreSafe
<1>1. InstallerInv => UpdatesAreSafe
  <2> SUFFICES ASSUME InstallerInv PROVE WorkspaceIsKept /\ AnswersHold
    BY DEF InstallerInv, UpdatesAreSafe
  <2>1. WorkspaceIsKept
    BY DEF InstallerInv, TomlKeeps, PlainKeeps, RootKeeps, WorkspaceIsKept
  <2>2. AnswersHold
    BY DEF InstallerInv, QuietAnswersHold, AnswerHolds, AnswersHold
  <2> QED BY <2>1, <2>2
<1> QED BY InstallerAlways, <1>1, PTL
-----------------------------------------------------------------------------
(* The tools together *)

AdoptedPlugins == [user : Places, project : Places, others : 0 .. MaxTouches]
AdopterRows ==
    [at : {"idle", "registering", "registered", "repointed", "retired", "removing"},
     plugins : AdoptedPlugins, desktop : {"unread", "wire"}]
AdoptionTyped ==
    /\ plugins \in AdoptedPlugins /\ desktop \in DesktopPlaces
    /\ settings \in BOOLEAN /\ market \in BOOLEAN /\ cache \in BOOLEAN
    /\ hurried \in BOOLEAN /\ removed \in BOOLEAN /\ late \subseteq Configs
    /\ adopter \in AdopterRows
    /\ nTouches \in 0 .. MaxTouches /\ nOthers \in 0 .. nTouches

\* What is registered, kept and read is typed: there are no more other plugins than
\* somebody has installed.
LEMMA AdoptionTypes == AdoptionSpec => []AdoptionTypeOK
<1> USE AdoptionAssumption
<1>1. Kept \in AdopterRows
  <2>1. [user |-> "none", project |-> "none", others |-> 0] \in AdoptedPlugins
    BY DEF AdoptedPlugins, Places
  <2> QED BY <2>1 DEF Kept, AdopterRows
<1>2. AdoptionInit => AdoptionTyped
  <2> SUFFICES ASSUME AdoptionInit PROVE AdoptionTyped
    OBVIOUS
  <2>1. plugins \in AdoptedPlugins
    BY DEF AdoptionInit, AdoptedPlugins, Places
  <2>2. settings \in BOOLEAN /\ market \in BOOLEAN /\ cache \in BOOLEAN
        /\ hurried \in BOOLEAN /\ removed \in BOOLEAN
    BY DEF AdoptionInit
  <2>3. desktop \in DesktopPlaces /\ nTouches \in 0 .. MaxTouches /\ nOthers \in 0 .. nTouches
    BY DEF AdoptionInit, DesktopPlaces, Places
  <2> QED BY <1>1, <2>1, <2>2, <2>3 DEF AdoptionInit, AdoptionTyped
<1>3. AdoptionTyped /\ [AdoptionNext]_adoptionVars => AdoptionTyped'
  <2> SUFFICES ASSUME AdoptionTyped, [AdoptionNext]_adoptionVars PROVE AdoptionTyped'
    OBVIOUS
  <2>1. CASE ReadPlugins \/ WritePlugins \/ RepointDesktop \/ RetireMarketplace
             \/ ScanConfigs \/ RemoveCache \/ KillAdoption
    <3>1. plugins' \in AdoptedPlugins
      BY <2>1 DEF AdoptionTyped, AdopterRows, ReadPlugins, WritePlugins, RepointDesktop,
                  RetireMarketplace, ScanConfigs, RemoveCache, KillAdoption, Files
    <3>2. adopter' \in AdopterRows
      <4>1. CASE ReadPlugins
        <5>1. [plugins EXCEPT !.user = "wire"] \in AdoptedPlugins
          BY DEF AdoptionTyped, AdoptedPlugins, Places
        <5> QED BY <4>1, <5>1 DEF ReadPlugins, AdopterRows
      <4>2. CASE WritePlugins \/ RepointDesktop \/ RetireMarketplace
                 \/ ScanConfigs \/ RemoveCache \/ KillAdoption
        BY <4>2, <1>1 DEF AdoptionTyped, AdopterRows, WritePlugins, RepointDesktop,
                          RetireMarketplace, ScanConfigs, RemoveCache, KillAdoption
      <4> QED BY <2>1, <4>1, <4>2
    <3>3. desktop' \in DesktopPlaces /\ late' \subseteq Configs
      BY <2>1 DEF AdoptionTyped, DesktopPlaces, Places, ReadPlugins, WritePlugins, RepointDesktop,
                  RetireMarketplace, ScanConfigs, RemoveCache, KillAdoption, Files
    <3>4. /\ settings' = settings /\ nTouches' = nTouches /\ nOthers' = nOthers /\ hurried' = hurried
          /\ market' = market \/ market' = FALSE
          /\ cache' = cache \/ cache' = FALSE
          /\ removed' = removed \/ removed' = TRUE
      BY <2>1, Zenon DEF ReadPlugins, WritePlugins, RepointDesktop, RetireMarketplace, ScanConfigs,
                  RemoveCache, KillAdoption, Files, Meanwhile
    <3> QED BY <3>1, <3>2, <3>3, <3>4 DEF AdoptionTyped
  <2>2. CASE PluginUpdate \/ InstallOther \/ EditSettings \/ EditDesktop
    <3>1. adopter' = adopter /\ late' \subseteq Configs
      BY <2>2 DEF AdoptionTyped, PluginUpdate, InstallOther, EditSettings, EditDesktop, Touch, Configs
    <3>2. nTouches' \in 0 .. MaxTouches /\ nOthers' \in 0 .. nTouches'
      BY <2>2 DEF AdoptionTyped, PluginUpdate, InstallOther, EditSettings, EditDesktop, Touch
    <3>3. plugins' \in AdoptedPlugins
      <4>1. [plugins EXCEPT !.user = "cache"] \in AdoptedPlugins
        BY DEF AdoptionTyped, AdoptedPlugins, Places
      <4>2. ASSUME InstallOther PROVE [plugins EXCEPT !.others = nOthers + 1] \in AdoptedPlugins
        <5>1. nOthers + 1 \in 0 .. MaxTouches
          BY <4>2, <3>2 DEF InstallOther
        <5> QED BY <5>1 DEF AdoptionTyped, AdoptedPlugins
      <4> QED BY <2>2, <4>1, <4>2 DEF AdoptionTyped, PluginUpdate, InstallOther, EditSettings, EditDesktop
    <3>4. desktop' \in DesktopPlaces /\ settings' \in BOOLEAN
      BY <2>2 DEF AdoptionTyped, PluginUpdate, InstallOther, EditSettings, EditDesktop, DesktopPlaces, Places
    <3>5. market' = market /\ hurried' \in BOOLEAN
      BY <2>2 DEF AdoptionTyped, PluginUpdate, InstallOther, EditSettings, EditDesktop
    <3>6. (cache' = cache \/ cache' = TRUE) /\ (removed' = removed \/ removed' = FALSE)
      BY <2>2 DEF PluginUpdate, InstallOther, EditSettings, EditDesktop
    <3> QED BY <3>1, <3>2, <3>3, <3>4, <3>5, <3>6 DEF AdoptionTyped
  <2>3. CASE UNCHANGED adoptionVars
    BY <2>3 DEF adoptionVars, AdoptionTyped
  <2> QED BY <2>1, <2>2, <2>3 DEF AdoptionNext
<1>4. AdoptionTyped => AdoptionTypeOK
  BY DEF AdoptionTyped, AdopterRows, AdoptionTypeOK, AdoptedPlugins
<1> QED BY <1>2, <1>3, <1>4, PTL DEF AdoptionSpec

\* So are the store of payloads and the runs that write it, ...
LEMMA PayloadTypes == PayloadSpec => []PayloadTypeOK
<1>1. PayloadInv => PayloadTypeOK
  BY DEF PayloadInv, StoreShape, WireRows, WireSteps, PayloadTypeOK
<1> QED BY PayloadAlways, <1>1, PTL

\* ... the refreshes of a custom binding, ...
LEMMA RefreshTypes == RefreshSpec => []RefreshTypeOK
<1>1. RefreshInv => RefreshTypeOK
  BY DEF RefreshInv
<1> QED BY RefreshAlways, <1>1, PTL

\* ... and the installer's updates.
LEMMA InstallerTypes == InstallerSpec => []InstallerTypeOK
<1> DEFINE Marked == woken \subseteq Surfaces /\ mixed \subseteq Roots
<1>1. InstallerInit => Marked
  BY DEF InstallerInit
<1>2. ASSUME InstallerInv, Marked, [InstallerNext]_installerVars PROVE Marked'
  <2>1. \A r \in Runs : SurfaceOf(r) \in Surfaces /\ Root[SurfaceOf(r)] \in Roots
    BY <1>2 DEF InstallerInv, SurfacesShape, RunRows, SurfaceOf, Roots
  <2>2. ASSUME NEW r \in Runs, ReadSurface(r) \/ KillRun(r) PROVE Marked'
    BY <1>2, <2>1, <2>2 DEF ReadSurface, KillRun
  <2>3. ASSUME NEW r \in Runs, WriteHost(r) PROVE Marked'
    BY <1>2, <2>1, <2>3 DEF WriteHost
  <2>4. ASSUME NEW r \in Runs, NEW p \in Surfaces, NEW bulk \in BOOLEAN, NEW asked \in WorkspaceIds,
               StartRun(r, p, bulk, asked)
        PROVE  Marked'
    BY <1>2, <2>4 DEF StartRun
  <2>5. ASSUME NEW r \in Runs, CopyTree(r) \/ StampRoot(r) \/ RefreshHooks(r) PROVE Marked'
    BY <1>2, <2>5 DEF CopyTree, StampRoot, RefreshHooks
  <2>6. ASSUME NEW p \in Surfaces, OperatorEdits(p) PROVE Marked'
    BY <1>2, <2>6 DEF OperatorEdits
  <2>7. CASE UNCHANGED installerVars
    BY <1>2, <2>7 DEF installerVars
  <2> QED BY <1>2, <2>2, <2>3, <2>4, <2>5, <2>6, <2>7 DEF InstallerNext
<1>3. InstallerInv /\ Marked => InstallerTypeOK
  BY DEF InstallerInv, SurfacesShape, RunRows, InstallerTypeOK
<1> HIDE DEF Marked
<1> QED BY InstallerAlways, <1>1, <1>2, <1>3, PTL DEF InstallerSpec

\* A part that stands still takes no step of its own, so what is proved of each tool
\* holds when they are checked side by side.
LEMMA ToolsAreTheirParts ==
    ToolsSpec => TwinSpec /\ PayloadSpec /\ RefreshSpec /\ AdoptionSpec /\ InstallerSpec
<1>1. ToolsInit => TwinInit /\ PayloadInit /\ RefreshInit /\ AdoptionInit /\ InstallerInit
  BY Zenon DEF ToolsInit
<1>2. [ToolsNext]_toolsVars =>
        /\ [TwinNext]_twinVars /\ [PayloadNext]_wireVars /\ [RefreshNext]_refreshVars
        /\ [AdoptionNext]_adoptionVars /\ [InstallerNext]_installerVars
  <2> SUFFICES ASSUME [ToolsNext]_toolsVars
               PROVE  /\ [TwinNext]_twinVars /\ [PayloadNext]_wireVars /\ [RefreshNext]_refreshVars
                      /\ [AdoptionNext]_adoptionVars /\ [InstallerNext]_installerVars
    OBVIOUS
  <2>1. CASE UNCHANGED toolsVars
    BY <2>1 DEF toolsVars
  <2>2. CASE ToolsNext
    BY <2>2, Zenon DEF ToolsNext
  <2> QED BY <2>1, <2>2
<1> QED BY <1>1, <1>2, PTL
        DEF ToolsSpec, TwinSpec, PayloadSpec, RefreshSpec, AdoptionSpec, InstallerSpec

\* The state of every tool, and of every run of it, is well typed.
THEOREM ToolTypes == ToolsSpec => []PartsTypeOK
<1>1. TwinTypeOK /\ PayloadTypeOK /\ RefreshTypeOK /\ AdoptionTypeOK /\ InstallerTypeOK
        => PartsTypeOK
  BY DEF PartsTypeOK
<1> QED BY ToolsAreTheirParts, TwinTypes, PayloadTypes, RefreshTypes, AdoptionTypes,
           InstallerTypes, <1>1, PTL
=============================================================================
