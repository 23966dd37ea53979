---------------------------- MODULE ClaudeAdoption ----------------------------
(***************************************************************************)
(* The cutover of Claude Code from its marketplace's cache to the tree that *)
(* wire installs (claude_plugin.py): it registers the tree, moves Claude    *)
(* Desktop onto it, retires the marketplace, and removes the cache if no    *)
(* config names it. The configs are Claude's own and their user's, who      *)
(* write them meanwhile; the cutover may die at any step and is run again.  *)
(***************************************************************************)
EXTENDS Naturals

CONSTANTS MaxTouches,  \* writes of the configs by others
          MaxAdoptions

ASSUME AdoptionAssumption == {MaxTouches, MaxAdoptions} \subseteq Nat

VARIABLES
    plugins,   \* installed_plugins.json: minni's entries by scope, others' entries
    desktop,   \* what Claude Desktop's minni server is started from
    settings,  \* a settings file names the cache
    market,    \* the minni marketplace is known
    cache,     \* the marketplace's cache is there
    adopter,   \* the cutover: where it is, and the documents it keeps of its steps
    nTouches, nAdoptions,
    \* History:
    nOthers,   \* other plugins' registrations made
    hurried,   \* one was made between the read and the write of the cutover
    removed,   \* the cutover removed the cache
    late       \* files written by others since the cutover read them for its verdict

adoptionVars == <<plugins, desktop, settings, market, cache, adopter,
                  nTouches, nAdoptions, nOthers, hurried, removed, late>>

Configs == {"plugins", "desktop", "settings"}
Places == {"none", "cache", "wire"}
DesktopPlaces == Places \cup {"launcher"}   \* launcher: its command is in the cache
Kept == [at |-> "idle", plugins |-> [user |-> "none", project |-> "none", others |-> 0],
         desktop |-> "unread"]

\* An install from the marketplace, in the ways one is found.
AdoptionInit ==
    /\ plugins \in [user : {"cache", "none"}, project : {"cache", "none"}, others : {0}]
    /\ desktop \in {"none", "cache", "launcher"} /\ settings \in BOOLEAN
    /\ market = TRUE /\ cache = TRUE /\ adopter = Kept
    /\ nTouches = 0 /\ nAdoptions = 0 /\ nOthers = 0
    /\ hurried = FALSE /\ removed = FALSE /\ late = {}

Files == <<plugins, desktop, settings, market, cache>>
Meanwhile == <<nTouches, nOthers, hurried>>

-----------------------------------------------------------------------------
(* The cutover *)

\* register_claude_plugin: read, and replaced if that changes the user's entry.
ReadPlugins ==
    /\ adopter.at = "idle" /\ nAdoptions < MaxAdoptions
    /\ nAdoptions' = nAdoptions + 1
    /\ adopter' = [at |-> IF plugins.user = "wire" THEN "registered" ELSE "registering",
                   plugins |-> [plugins EXCEPT !.user = "wire"], desktop |-> "unread"]
    /\ late' = IF cache THEN {} ELSE late
    /\ UNCHANGED <<Files, Meanwhile, removed>>
WritePlugins ==
    /\ adopter.at = "registering"
    /\ plugins' = adopter.plugins
    /\ adopter' = [adopter EXCEPT !.at = "registered"]
    /\ UNCHANGED <<desktop, settings, market, cache, nAdoptions, Meanwhile, removed, late>>

\* repoint_claude_desktop: a launcher in the cache is refused; a server in it is
\* moved, and what is written is kept for the scan.
RepointDesktop ==
    /\ adopter.at = "registered"
    /\ desktop' = IF desktop = "cache" THEN "wire" ELSE desktop
    /\ adopter' = CASE desktop = "launcher" -> Kept
                    [] desktop = "cache" -> [adopter EXCEPT !.at = "repointed", !.desktop = "wire"]
                    [] OTHER -> [adopter EXCEPT !.at = "repointed"]
    /\ UNCHANGED <<plugins, settings, market, cache, nAdoptions, Meanwhile, removed, late>>

\* Mutant: every document that was kept is saved once more.
RetireAndSave ==
    /\ adopter.at = "repointed"
    /\ market' = FALSE /\ plugins' = adopter.plugins
    /\ adopter' = [adopter EXCEPT !.at = "retired"]
    /\ UNCHANGED <<desktop, settings, cache, nAdoptions, Meanwhile, removed, late>>

\* retire_claude_marketplace: no update copies into the cache any more.
RetireMarketplace ==
    /\ adopter.at = "repointed"
    /\ market' = FALSE
    /\ adopter' = [adopter EXCEPT !.at = "retired"]
    /\ UNCHANGED <<plugins, desktop, settings, cache, nAdoptions, Meanwhile, removed, late>>

\* Mutants of the scan: it looks only at minni's own entry, or not at settings.
ReferrersOfUser == {c \in Configs : \/ c = "plugins" /\ adopter.plugins.user = "cache"
                                    \/ c = "settings" /\ settings}
ReferrersInOurs == {c \in Configs :
    \/ c = "plugins" /\ "cache" \in {adopter.plugins.user, adopter.plugins.project}
    \/ c = "desktop" /\ desktop \in {"cache", "launcher"}}

\* legacy_cache_referrers: the documents of the steps before in place of their
\* files, the other files as they are.
Referrers == {c \in Configs :
    \/ c = "plugins" /\ "cache" \in {adopter.plugins.user, adopter.plugins.project}
    \/ c = "desktop" /\ (IF adopter.desktop = "unread" THEN desktop ELSE adopter.desktop)
                            \in {"cache", "launcher"}
    \/ c = "settings" /\ settings}

\* remove_legacy_cache, up to the tree's removal; a refusal ends the cutover.
ScanConfigs ==
    /\ adopter.at = "retired"
    /\ adopter' = IF cache /\ Referrers = {} THEN [adopter EXCEPT !.at = "removing"] ELSE Kept
    /\ UNCHANGED <<Files, nAdoptions, Meanwhile, removed, late>>
RemoveCache ==
    /\ adopter.at = "removing"
    /\ cache' = FALSE /\ removed' = TRUE
    /\ adopter' = Kept
    /\ UNCHANGED <<plugins, desktop, settings, market, nAdoptions, Meanwhile, late>>

KillAdoption ==
    /\ adopter.at # "idle" /\ adopter' = Kept
    /\ UNCHANGED <<Files, nAdoptions, Meanwhile, removed, late>>

-----------------------------------------------------------------------------
(* Claude Code, Claude Desktop and their user *)

\* The cutover has the file c for its verdict already, or the verdict.
IsJudged(c) ==
    \/ removed \/ adopter.at = "removing"
    \/ c = "plugins" /\ adopter.at # "idle"
    \/ c = "desktop" /\ adopter.desktop # "unread"

Touch(c) == /\ nTouches < MaxTouches /\ nTouches' = nTouches + 1
            /\ late' = IF IsJudged(c) THEN late \cup {c} ELSE late
            /\ UNCHANGED <<nAdoptions, adopter>>

\* /plugin update, while the marketplace is known: the cache again.
PluginUpdate ==
    /\ market /\ Touch("plugins")
    /\ plugins' = [plugins EXCEPT !.user = "cache"]
    /\ cache' = TRUE /\ removed' = FALSE
    /\ UNCHANGED <<desktop, settings, market, nOthers, hurried>>

InstallOther ==
    /\ Touch("plugins")
    /\ plugins' = [plugins EXCEPT !.others = nOthers + 1] /\ nOthers' = nOthers + 1
    /\ hurried' = (hurried \/ adopter.at = "registering")
    /\ UNCHANGED <<desktop, settings, market, cache, removed>>

EditSettings ==
    /\ Touch("settings") /\ settings' = ~settings
    /\ UNCHANGED <<plugins, desktop, market, cache, nOthers, hurried, removed>>
EditDesktop ==
    /\ Touch("desktop") /\ desktop' \in {"cache", "launcher", "none"} \ {desktop}
    /\ UNCHANGED <<plugins, settings, market, cache, nOthers, hurried, removed>>

AdoptionNext ==
    \/ ReadPlugins \/ WritePlugins \/ RepointDesktop \/ RetireMarketplace
    \/ ScanConfigs \/ RemoveCache \/ KillAdoption
    \/ PluginUpdate \/ InstallOther \/ EditSettings \/ EditDesktop

AdoptionSpec == AdoptionInit /\ [][AdoptionNext]_adoptionVars

-----------------------------------------------------------------------------
AdoptionTypeOK ==
    /\ plugins \in [user : Places, project : Places, others : 0 .. MaxTouches]
    /\ desktop \in DesktopPlaces /\ {settings, market, cache, hurried, removed} \subseteq BOOLEAN
    /\ adopter.at \in {"idle", "registering", "registered", "repointed", "retired", "removing"}
    /\ adopter.desktop \in {"unread", "wire"} /\ late \subseteq Configs

RefersToCache(c) == CASE c = "plugins" -> "cache" \in {plugins.user, plugins.project}
                      [] c = "desktop" -> desktop \in {"cache", "launcher"}
                      [] OTHER -> settings

\* The cutover removes the cache only when the tree is registered, the marketplace
\* cannot bring it back, and no config names it that nobody wrote since the
\* cutover read it: not one of another scope, of Desktop or of the settings, and
\* not after a run that died half way.
CacheGoesUnreferenced ==
    removed => /\ ~market
               /\ \A c \in Configs \ late : ~RefersToCache(c)
               /\ "plugins" \notin late => plugins.user = "wire"

\* The other plugins' registrations survive the cutover, unless one is made in
\* the moment between its read and its write of the file.
OthersAreKept == hurried \/ plugins.others = nOthers

\* Both: the cutover breaks nothing that is not its own.
AdoptionBreaksNothing == CacheGoesUnreferenced /\ OthersAreKept
===============================================================================
