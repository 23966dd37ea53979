------------------------------- MODULE PlanGraph -------------------------------
(***************************************************************************)
(* The slices of a Thread plan as a graph of dependencies (plan.ts), the    *)
(* tools that change it (server.ts, thread-worker.ts), and what its ordered *)
(* journal tells of it. Every change holds the plan's lock, persists the    *)
(* note and appends one batch of events; failed writes and lost events are  *)
(* in SliceClaims and ThreadJournal. The journal promises to carry what     *)
(* landed, so that a scheduler that reads nothing else knows the graph and  *)
(* what is ready in it: told is what such a reader makes of the events. The *)
(* status of the plan itself and the vault's active plan are left out.      *)
(***************************************************************************)
EXTENDS FiniteSetsExt

CONSTANTS Ids, Born,   \* Born: the slices the plan is created with
          Edges,       \* the sets of dependencies that a call writes
          MaxWrites

ASSUME PlanGraphAssumption ==
    /\ Born \subseteq Ids /\ Edges \subseteq SUBSET Ids /\ MaxWrites \in Nat

Open == {"pending", "working"}   \* working: in progress or blocked
Statuses == Open \cup {"done", "superseded"}
NoPact == [until |-> "never", deps |-> {}]

VARIABLES
    slices,     \* the note: its slices by id, with the claim of each
    kept,       \* one revision of the history, any
    writes,
    told        \* history: the graph and the ready set in the journal

graphVars == <<slices, kept, writes, told>>

-----------------------------------------------------------------------------
Fresh(deps) == [status |-> "pending", deps |-> deps, by |-> {}, pact |-> NoPact]

\* unmetDependencies: a superseded slice that others replaced stays in the way
\* of those that depend on it until they are remounted.
Met(g, d) == /\ d \in DOMAIN g
             /\ \/ g[d].status = "done"
                \/ g[d].status = "superseded" /\ g[d].by = {}
Unmet(g, s) == {d \in g[s].deps : ~Met(g, d)}

\* readySlices: a claim that has expired is not live, swept or not.
ReadyIn(g) == {s \in DOMAIN g : /\ g[s].status \in Open /\ Unmet(g, s) = {}
                                /\ g[s].pact.until # "live"}

\* invalidateSliceGeneration.
Unclaimed(slice) == [slice EXCEPT !.pact = NoPact]
ClaimedIn(g) == {s \in DOMAIN g : g[s].pact # NoPact}

-----------------------------------------------------------------------------
(* The journal. *)

\* What is public of a slice.
Shown(slice) == [status |-> slice.status, deps |-> slice.deps, by |-> slice.by]
ShownIn(g) == [s \in DOMAIN g |-> Shown(g[s])]

\* Mutant: an edge that another set of dependencies replaces goes untold.
GrownDependsOn(before, after) ==
    {s \in DOMAIN before \cap DOMAIN after :
        before[s].deps # after[s].deps /\ before[s].deps \subseteq after[s].deps}

\* diffDependsOn.
ChangedDependsOn(before, after) ==
    {s \in DOMAIN before \cap DOMAIN after : before[s].deps # after[s].deps}

\* Mutant: the request is echoed; a slice that is done is not dropped by it.
RequestedDrops(before, after, asked) == asked

\* landedReplanTopology: what was added and dropped, whatever was asked for.
LandedDrops(before, after, asked) ==
    {s \in DOMAIN before : before[s].status # "superseded" /\ after[s].status = "superseded"}
LandedAdds(before, after) == DOMAIN after \ DOMAIN before

\* A reader of a replan event: new slices are pending, dropped ones superseded,
\* and replaced by the new ones if there are any.
AfterReplan(g, after, changed, adds, drops) ==
    [s \in DOMAIN g \cup adds |->
       IF s \in adds THEN Shown(Fresh(after[s].deps))
       ELSE [status |-> IF s \in drops THEN "superseded" ELSE g[s].status,
             deps   |-> IF s \in changed THEN after[s].deps ELSE g[s].deps,
             by     |-> IF s \in drops /\ adds # {} THEN adds ELSE g[s].by]]

\* Mutant: only what became ready is announced.
AnnounceGains(before, after) == ~(ReadyIn(after) \subseteq ReadyIn(before))

\* readyIdsEqual: ready.changed carries the set, when it is not as before.
Announces(before, after) == ReadyIn(after) # ReadyIn(before)

\* recordThreadMutationEvents: the event of the operation, an event for every
\* claim that it ends, and ready.changed. A reader of the second kind knows that
\* the slice, if it waits for nothing, is ready: it may have been already, since
\* its claim expired, and then the set is as before.
Tell(after, graph, ended) ==
    told' = [graph |-> graph,
             ready |-> IF Announces(slices, after) THEN ReadyIn(after)
                       ELSE told.ready \cup {s \in ended \cap DOMAIN graph :
                              graph[s].status \in Open /\ Unmet(graph, s) = {}}]

\* persistPlan; any revision may be the one that a restore goes back to.
PersistSlices(after) ==
    /\ writes < MaxWrites /\ writes' = writes + 1
    /\ slices' = after /\ kept' \in {kept, after}

Ended(after) == {s \in ClaimedIn(slices) : s \notin ClaimedIn(after)}
SetStatus(g, s, status) == [g EXCEPT ![s].status = status]

-----------------------------------------------------------------------------
(* The tools. *)

\* minni_thread_update: evidence is not modelled; force lets a slice be done
\* before what it depends on. Any claim on the slice is revoked.
ThreadUpdate(s, status, force) ==
    /\ s \in DOMAIN slices
    /\ status = "done" => force = (Unmet(slices, s) # {})
    /\ status # "done" => ~force
    /\ LET after == [SetStatus(slices, s, status) EXCEPT ![s] = Unclaimed(@)] IN
       PersistSlices(after) /\ Tell(after, SetStatus(told.graph, s, status), Ended(after))

\* A write of a new set of dependencies (assertNoSelfEdge,
\* assertWrittenDependsOnTargetsLive): a slice may depend on one that this very
\* call drops, as long as nothing replaces it.
MayDepend(before, after, s) ==
    /\ s \notin after[s].deps
    /\ \A d \in after[s].deps :
         /\ d \in DOMAIN after
         /\ after[d].status = "superseded" =>
              d \in DOMAIN before /\ before[d].status # "superseded" /\ after[d].by = {}

\* The slices of before without those dropped, and the one added: what is both
\* dropped and followed by an addition has been replaced.
DropAndAdd(drops, added, deps) ==
    LET gone == {s \in drops \cap DOMAIN slices : slices[s].status \in Open}
    IN  [s \in DOMAIN slices \cup added |->
           CASE s \in added -> Fresh(deps)
             [] s \in gone -> [Unclaimed(slices[s]) EXCEPT !.status = "superseded",
                                   !.by = IF added = {} THEN @ ELSE added]
             [] OTHER -> slices[s]]

\* What a replan of either kind persists and tells.
Replanned(after, asked) ==
    /\ PersistSlices(after)
    /\ LET drops == LandedDrops(slices, after, asked) IN
       Tell(after, AfterReplan(told.graph, after, ChangedDependsOn(slices, after),
                                 LandedAdds(slices, after), drops), Ended(after))

\* minni_thread_replan with add_slices, drop_slice_ids and set_depends_on
\* (applySliceDelta): a remount goes to a slice and to targets that are live
\* after the rest of the call.
ReplanDelta(drops, added, deps, remounts, onto) ==
    LET cut   == DropAndAdd(drops, added, deps)
        after == [s \in DOMAIN cut |-> IF s \in remounts /\ cut[s].deps # onto
                                       THEN [Unclaimed(cut[s]) EXCEPT !.deps = onto] ELSE cut[s]]
    IN  /\ added \cap DOMAIN slices = {} /\ drops \cup added \cup remounts # {}
        /\ \A s \in added : MayDepend(slices, cut, s)
        /\ \A s \in remounts : /\ s \in DOMAIN cut /\ s \notin onto
                               /\ \A d \in onto \cup {s} :
                                    d \in DOMAIN cut /\ cut[d].status # "superseded"
        /\ Replanned(after, drops)

\* Mutant: the worker keeps its claim on a slice with other dependencies.
RefreshedInPlace(slice, deps) == [slice EXCEPT !.deps = deps]

\* A slice that is proposed again with other dependencies is another slice.
Refreshed(slice, deps) ==
    IF slice.deps = deps THEN slice ELSE [Unclaimed(slice) EXCEPT !.deps = deps]

\* minni_thread_replan with new_slices (replan): the whole set again. What it
\* leaves out is dropped unless it is done; what it names by id is refreshed,
\* also when it is done, and may not be superseded.
ReplanAll(named, refreshed, onto, added, deps) ==
    LET cut   == DropAndAdd(DOMAIN slices \ named, added, deps)
        after == [s \in DOMAIN cut |-> IF s \in refreshed THEN Refreshed(cut[s], onto)
                                       ELSE cut[s]]
    IN  /\ refreshed \subseteq named /\ named \subseteq DOMAIN slices
        /\ added \cap DOMAIN slices = {}
        /\ \A s \in named : slices[s].status # "superseded"
        /\ \A s \in added \cup refreshed : MayDepend(slices, after, s)
        /\ Replanned(after, DOMAIN slices \ named)

\* minni_thread_restore: the slices of the revision without their claims. The
\* reader of the event asks for the revision.
ThreadRestore ==
    LET after == [s \in DOMAIN kept |-> Unclaimed(kept[s])] IN
    /\ PersistSlices(after)
    /\ Tell(after, ShownIn(kept), ClaimedIn(slices))

\* assignSlice to another worker.
Reassign(s) ==
    /\ s \in DOMAIN slices /\ slices[s].status \in Open /\ slices[s].pact # NoPact
    /\ LET after == [slices EXCEPT ![s] = Unclaimed(@)] IN
       PersistSlices(after) /\ Tell(after, told.graph, {s})

-----------------------------------------------------------------------------
(* Workers, and time. *)

Swept == \A s \in DOMAIN slices : slices[s].pact.until # "lapsed"

\* claimSlice: the worker agrees to the slice as it is.
WorkerClaims(s) ==
    /\ Swept /\ s \in ReadyIn(slices)
    /\ LET after == [slices EXCEPT ![s].pact = [until |-> "live", deps |-> slices[s].deps]] IN
       PersistSlices(after) /\ Tell(after, told.graph, {})

\* applyWorkerAction, start and complete: complete follows start, and updateSlice
\* asks again for the dependencies, which may have opened since the claim.
WorkerUpdates(s, status) ==
    /\ Swept /\ s \in DOMAIN slices /\ slices[s].pact.until = "live"
    /\ slices[s].status \in Open
    /\ status = "done" => slices[s].status = "working" /\ Unmet(slices, s) = {}
    /\ LET set   == SetStatus(slices, s, status)
           after == IF status = "done" THEN [set EXCEPT ![s] = Unclaimed(@)] ELSE set
       IN  /\ PersistSlices(after)
           /\ Tell(after, SetStatus(told.graph, s, status), {})

\* The lease of a claim ends: nothing is written.
LeaseLapses(s) ==
    /\ s \in DOMAIN slices /\ slices[s].pact.until = "live"
    /\ slices' = [slices EXCEPT ![s].pact.until = "lapsed"]
    /\ UNCHANGED <<kept, writes, told>>

\* expireStaleClaimForSlice: the sweep before a claim, a worker's update, a read
\* of the ready set, of the status or of the events.
Sweep(s) ==
    /\ s \in DOMAIN slices /\ slices[s].pact.until = "lapsed"
    /\ LET after == [slices EXCEPT ![s] = Unclaimed(@)] IN
       PersistSlices(after) /\ Tell(after, told.graph, {s})

-----------------------------------------------------------------------------
\* createPlan: what it is given may depend on anything.
GraphInit ==
    /\ \E deps \in [Born -> Edges] : slices = [s \in Born |-> Fresh(deps[s])]
    /\ kept = slices /\ writes = 0
    /\ told = [graph |-> ShownIn(slices), ready |-> ReadyIn(slices)]

\* One slice of each kind in a call, and no dependencies without one.
AtMostOne == {x \in SUBSET Ids : Cardinality(x) <= 1}
EdgesOf(x) == IF x = {} THEN {{}} ELSE Edges

GraphNext ==
    \/ \E s \in Ids :
         \/ \E status \in Statuses, force \in BOOLEAN : ThreadUpdate(s, status, force)
         \/ Reassign(s) \/ WorkerClaims(s) \/ LeaseLapses(s) \/ Sweep(s)
         \/ \E status \in {"working", "done"} : WorkerUpdates(s, status)
    \/ \E drops, added, remounts \in AtMostOne :
         \E deps \in EdgesOf(added), onto \in EdgesOf(remounts) :
           ReplanDelta(drops, added, deps, remounts, onto)
    \/ \E named \in SUBSET DOMAIN slices, refreshed, added \in AtMostOne :
         \E deps \in EdgesOf(added), onto \in EdgesOf(refreshed) :
           ReplanAll(named, refreshed, onto, added, deps)
    \/ ThreadRestore

GraphSpec == GraphInit /\ [][GraphNext]_graphVars

-----------------------------------------------------------------------------
\* Every part keeps its shape; only an open slice has a claim.
GraphTypeOK ==
    /\ DOMAIN slices \subseteq Ids /\ DOMAIN kept \subseteq Ids
    /\ \A s \in DOMAIN slices :
         /\ slices[s].status \in Statuses
         /\ slices[s].deps \cup slices[s].by \cup slices[s].pact.deps \subseteq Ids
         /\ slices[s].pact # NoPact =>
              slices[s].pact.until \in {"live", "lapsed"} /\ slices[s].status \in Open
    /\ writes \in 0..MaxWrites

\* plan.ts:1409: the events say what landed: the graph they add up to is the
\* plan's, after any sequence of updates, replans of either kind and restores.
JournalTellsTheGraph == told.graph = ShownIn(slices)

\* thread-worker.ts:949: what the events call ready is ready, and what is ready
\* but not so called has a claim that expired and waits for a sweep.
JournalTellsWhatIsReady ==
    /\ told.ready \subseteq ReadyIn(slices)
    /\ \A s \in ReadyIn(slices) \ told.ready : slices[s].pact.until = "lapsed"

\* plan.ts:1598: a worker that holds a claim works on the slice that it claimed.
ClaimsMeanWhatTheyMeant ==
    \A s \in ClaimedIn(slices) : slices[s].pact.deps = slices[s].deps

\* Who follows the journal, or holds a claim, is not misled about the plan.
PlanIsTold == JournalTellsTheGraph /\ JournalTellsWhatIsReady /\ ClaimsMeanWhatTheyMeant
===============================================================================
