------------------------------- MODULE Reassert -------------------------------
(***************************************************************************)
(* Corrections stashed before a compaction and shown again after it        *)
(* (sovereign.ts, vault.ts, hook-handlers.ts, hook-delivery.ts). PreCompact *)
(* writes the correction events to a file of the vault's inbox. A          *)
(* SessionStart hook puts the events of the newest files into its output   *)
(* and settles those files once the output has been flushed: archives      *)
(* them, or rewrites one that was over the cap with its tail. Where the    *)
(* platform cannot inject at SessionStart the files are parked for its     *)
(* Stop hook. A host that kills a hook on its deadline throws the hook's   *)
(* output away, flushed or not.                                            *)
(*                                                                         *)
(* Events are numbered as they are stashed, and files by their stamp. Every *)
(* event is well formed; .archive is not read again, so archived is gone.  *)
(***************************************************************************)
EXTENDS Naturals, FiniteSetsExt

CONSTANTS Hooks,      \* hook processes of the vault's sessions
          Window,     \* files read at once, newest first (3 in the code)
          Cap,        \* CORRECTIONS_REASSERT_MAX
          MaxEvent, MaxStash, MaxReassertFaults

ASSUME ReassertAssumption == Window \in Nat \ {0} /\ Cap \in Nat \ {0}
                             /\ {MaxEvent, MaxStash, MaxReassertFaults} \subseteq Nat

Events == 1..MaxEvent
Files == 1..MaxStash
\* todo[f]: what settling leaves of file f; nothing: it is archived.
NoHook == [pc |-> "away", from |-> "inbox", batch |-> {}, todo |-> << >>]

VARIABLES
    injects,   \* the event at which the platform's wire can inject
    inbox,     \* inbox[f]: the events of a file, for the files that are there
    parked,    \* the same for .undeliverable
    nFiles, nEvents, \* how many were made
    hook,
    rfaults,
    \* History:
    heard,     \* the events in outputs that a host has taken
    discarded  \* the events of hooks killed between the flush and their exit

reassertVars ==
    <<injects, inbox, parked, nFiles, nEvents, hook, rfaults, heard, discarded>>

-----------------------------------------------------------------------------
ReassertFault == rfaults < MaxReassertFaults /\ rfaults' = rfaults + 1
Less(dir, gone) == [f \in DOMAIN dir \ gone |-> dir[f]]
With(dir, f, content) == [g \in DOMAIN dir \cup {f} |-> IF g = f THEN content ELSE dir[g]]

\* readReassertPending and readParkedUndeliverablePending: the newest files.
Newest(dir) == {f \in DOMAIN dir : Cardinality({g \in DOMAIN dir : g > f}) < Window}

\* collectCorrectionsReassert: events up to the cap, newest file first. A file
\* that gave nothing because the cap was full is left alone.
Ahead(dir, f, e) == Cardinality({x \in dir[f] : x < e})
                    + Cardinality(UNION {dir[g] : g \in {h \in Newest(dir) : h > f}})
Taken(dir, f) == {e \in dir[f] : Ahead(dir, f, e) < Cap}
Collected(dir) == UNION {Taken(dir, f) : f \in Newest(dir)}
ToSettle(dir) == [f \in {g \in Newest(dir) : Taken(dir, g) # {}} |-> dir[f] \ Taken(dir, f)]
EmptyStashes(dir) == {f \in Newest(dir) : dir[f] = {}}

ReassertInit ==
    /\ injects \in {"SessionStart", "Stop"}
    /\ inbox = << >> /\ parked = << >> /\ nFiles = 0 /\ nEvents = 0
    /\ hook = [h \in Hooks |-> NoHook] /\ rfaults = 0 /\ heard = {} /\ discarded = {}

\* stashPrecompactReassert, and the payload of the other platforms, which is
\* written when it is empty too.
Stash == \E n \in 0..(MaxEvent - nEvents) :
    /\ nFiles < MaxStash
    /\ nFiles' = nFiles + 1 /\ nEvents' = nEvents + n
    /\ inbox' = With(inbox, nFiles + 1, (nEvents + 1)..(nEvents + n))
    /\ UNCHANGED <<injects, parked, hook, rfaults, heard, discarded>>

-----------------------------------------------------------------------------
(* A hook. *)

\* Mutant: what the output carries is settled before it is written.
BootSettlesFirst(h) ==
    /\ hook[h].pc = "away" /\ DOMAIN inbox # {}
    /\ inbox' = Less(inbox, EmptyStashes(inbox) \cup DOMAIN ToSettle(inbox))
    /\ hook' = [hook EXCEPT ![h] = [NoHook EXCEPT !.batch = Collected(inbox),
           !.pc = IF injects = "SessionStart" THEN "emit" ELSE "away"]]
    /\ UNCHANGED <<injects, parked, nFiles, nEvents, rfaults, heard, discarded>>

\* handleSessionStart: empty stashes go at once, the rest waits for delivery, or
\* is parked on a wire that cannot deliver here.
Boot(h) ==
    /\ hook[h].pc = "away" /\ DOMAIN inbox # {}
    /\ inbox' = Less(inbox, EmptyStashes(inbox))
    /\ hook' = [hook EXCEPT ![h] =
           IF Collected(inbox) = {} THEN NoHook
           ELSE [pc |-> IF injects = "SessionStart" THEN "emit" ELSE "park", from |-> "inbox",
                 batch |-> Collected(inbox), todo |-> ToSettle(inbox)]]
    /\ UNCHANGED <<injects, parked, nFiles, nEvents, rfaults, heard, discarded>>

\* Mutant: the files are copied, or stay where they are.
ParkCopies(h) ==
    /\ hook[h].pc = "park" /\ hook' = [hook EXCEPT ![h] = NoHook]
    /\ LET moved == DOMAIN hook[h].todo \cap DOMAIN inbox IN
       parked' = [f \in DOMAIN parked \cup moved |->
                    IF f \in moved THEN inbox[f] ELSE parked[f]]
    /\ UNCHANGED <<injects, inbox, nFiles, nEvents, rfaults, heard, discarded>>

ParkNothing(h) ==
    /\ hook[h].pc = "park" /\ hook' = [hook EXCEPT ![h] = NoHook]
    /\ UNCHANGED <<injects, inbox, parked, nFiles, nEvents, rfaults, heard, discarded>>

\* parkUndeliverableInboxEntries. A file that another hook has moved is skipped,
\* and so is one that cannot be moved. The output is dropped by the wire.
Park(h) ==
    /\ hook[h].pc = "park" /\ hook' = [hook EXCEPT ![h] = NoHook]
    /\ \E moved \in SUBSET (DOMAIN hook[h].todo \cap DOMAIN inbox) :
         /\ inbox' = Less(inbox, moved)
         /\ parked' = [f \in DOMAIN parked \cup moved |->
                         IF f \in moved THEN inbox[f] ELSE parked[f]]
         /\ IF moved = DOMAIN hook[h].todo \cap DOMAIN inbox THEN UNCHANGED rfaults
            ELSE ReassertFault
    /\ UNCHANGED <<injects, nFiles, nEvents, heard, discarded>>

\* handleStop.
StopHook(h) ==
    /\ hook[h].pc = "away" /\ injects = "Stop" /\ Collected(parked) # {}
    /\ hook' = [hook EXCEPT ![h] = [pc |-> "emit", from |-> "parked",
           batch |-> Collected(parked), todo |-> ToSettle(parked)]]
    /\ UNCHANGED <<injects, inbox, parked, nFiles, nEvents, rfaults, heard, discarded>>

\* emitAndCommit: the output is flushed, and the deferred commits run.
Flush(h) ==
    /\ hook[h].pc = "emit" /\ hook' = [hook EXCEPT ![h].pc = "settle"]
    /\ UNCHANGED <<injects, inbox, parked, nFiles, nEvents, rfaults, heard, discarded>>

\* settleReassertedInboxEntries: the consumed files are archived, then the tails
\* are written. Renaming a file that is gone, or a failure, is ignored.
SettleFile(h) == \E f \in DOMAIN hook[h].todo :
    LET todo == hook[h].todo
        Settled(dir) == IF todo[f] # {} THEN With(dir, f, todo[f]) ELSE Less(dir, {f})
    IN  /\ hook[h].pc = "settle"
        /\ todo[f] # {} => \A g \in DOMAIN todo : todo[g] # {}
        /\ hook' = [hook EXCEPT ![h].todo = Less(todo, {f})]
        /\ \/ /\ IF hook[h].from = "inbox" THEN inbox' = Settled(inbox) /\ UNCHANGED parked
                 ELSE parked' = Settled(parked) /\ UNCHANGED inbox
              /\ UNCHANGED rfaults
           \/ ReassertFault /\ UNCHANGED <<inbox, parked>>
        /\ UNCHANGED <<injects, nFiles, nEvents, heard, discarded>>

\* exitAfterDelivery: the host takes the output.
Exit(h) ==
    /\ hook[h].pc = "settle" /\ DOMAIN hook[h].todo = {}
    /\ heard' = heard \cup hook[h].batch /\ hook' = [hook EXCEPT ![h] = NoHook]
    /\ UNCHANGED <<injects, inbox, parked, nFiles, nEvents, rfaults, discarded>>

\* The handler throws, the flush fails, or the hook is killed: what was deferred
\* does not run, or no further.
Undelivered(h) ==
    /\ hook[h].pc # "away" /\ ReassertFault
    /\ discarded' = IF hook[h].pc = "settle" THEN discarded \cup hook[h].batch ELSE discarded
    /\ hook' = [hook EXCEPT ![h] = NoHook]
    /\ UNCHANGED <<injects, inbox, parked, nFiles, nEvents, heard>>

ReassertNext ==
    \/ Stash
    \/ \E h \in Hooks : \/ Boot(h) \/ Park(h) \/ StopHook(h) \/ Flush(h) \/ SettleFile(h)
                        \/ Exit(h) \/ Undelivered(h)

ReassertSpec == ReassertInit /\ [][ReassertNext]_reassertVars

\* Sessions start and stop again and again, and a hook that runs goes on.
Runs(h) == Park(h) \/ Flush(h) \/ SettleFile(h) \/ Exit(h)
ReassertFairness ==
    /\ WF_reassertVars(\E h \in Hooks : Boot(h))
    /\ WF_reassertVars(\E h \in Hooks : StopHook(h))
    /\ \A h \in Hooks : WF_reassertVars(Runs(h))

ReassertLiveSpec == ReassertSpec /\ ReassertFairness

-----------------------------------------------------------------------------
OnDisk == UNION ({inbox[f] : f \in DOMAIN inbox} \cup {parked[f] : f \in DOMAIN parked})
InOutput == UNION {hook[h].batch : h \in {x \in Hooks : hook[x].pc = "settle"}}

\* A file is in one place, and parked only where SessionStart cannot inject.
ReassertTypeOK ==
    /\ DOMAIN inbox \cup DOMAIN parked \subseteq 1..nFiles /\ DOMAIN inbox \cap DOMAIN parked = {}
    /\ OnDisk \cup heard \cup discarded \subseteq 1..nEvents
    /\ injects = "SessionStart" => parked = << >>
    /\ \A h \in Hooks : /\ hook[h].pc \in {"away", "park", "emit", "settle"}
                        /\ hook[h].batch \subseteq 1..nEvents /\ DOMAIN hook[h].todo \subseteq Files
    /\ nFiles \in 0..MaxStash /\ nEvents \in 0..MaxEvent /\ rfaults \in 0..MaxReassertFaults

\* A correction is on disk until an output that carries it has been flushed; it
\* is lost only with a hook that is killed after that.
UnheardIsKept == 1..nEvents \subseteq OnDisk \cup heard \cup InOutput \cup discarded

\* Every stashed correction is heard in the end, behind whatever newer files fill
\* the window or the cap and on either kind of wire, if it is not discarded.
HeardInTheEnd == \A e \in Events : (e <= nEvents) ~> (e \in heard \cup discarded)
===============================================================================
