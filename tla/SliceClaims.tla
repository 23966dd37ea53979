------------------------------- MODULE SliceClaims -------------------------------
(***************************************************************************)
(* Claims on the slices of a Thread plan (thread-worker.ts,                *)
(* thread-claims.ts, plan.ts, server.ts). A claim is public in the plan    *)
(* note; the token that authorises its worker is in a secret envelope      *)
(* beside it, under a name made of the slice, its generation and the       *)
(* worker's idempotency key. Every operation holds the plan's lock and     *)
(* writes the note once, envelopes before it or after it: it may die, or   *)
(* the write may fail, on either side of the note, and the deletion of an  *)
(* envelope is best effort.                                                *)
(*                                                                         *)
(* A slice is open (pending, in progress or blocked), done or superseded.  *)
(* A claim expires when its envelope does, so expiry is a set of tokens.   *)
(***************************************************************************)
EXTENDS Naturals, FiniteSetsExt

CONSTANTS Slices, First,    \* First: the slices the plan is created with
          Workers, Keys, NoWorker,
          MaxPlanRev, MaxClaimFaults

ASSUME SliceClaimsAssumption ==
    /\ First \subseteq Slices /\ NoWorker \notin Workers \cup Keys
    /\ MaxPlanRev \in Nat /\ MaxClaimFaults \in Nat

Tokens == 1..MaxPlanRev
\* A generation rises by one in a write, above the revision in a restore, and
\* past every lapsed envelope in a claim.
Gens == 0..3 * MaxPlanRev
ClaimIds == Slices \X Gens \X Keys
Envelopes == [worker : Workers, token : Tokens, rev : 1..MaxPlanRev]
NoClaim == [key |-> NoWorker, worker |-> NoWorker, token |-> 0, rev |-> 0]
Claims == [key : Keys, worker : Workers, token : Tokens, rev : 1..MaxPlanRev] \cup {NoClaim}
SliceStates == [status : {"open", "done", "superseded"}, to : Workers \cup {NoWorker},
                gen : Gens, claim : Claims]
NewSlice == [status |-> "open", to |-> NoWorker, gen |-> 0, claim |-> NoClaim]

VARIABLES
    plan,     \* the note: its revision and its slices
    revs,     \* the plans in the history file
    secrets,  \* the envelopes on disk
    issued,   \* the last token made
    lapsed,   \* the tokens whose expires_at has passed
    cfaults,
    \* History:
    granted, \* the revisions of the claims that a worker has been answered
    revoked,  \* the tokens that authorised a generation that has passed since
    forgotten \* the slices that a restore has left out

claimVars == <<plan, revs, secrets, issued, lapsed, cfaults, granted, revoked, forgotten>>

-----------------------------------------------------------------------------
SliceAt(s) == plan.slices[s]
Claimed(s) == s \in DOMAIN plan.slices /\ SliceAt(s).claim # NoClaim
ClaimIdFor(s, slice) == <<s, slice.gen, slice.claim.key>>
ClaimIdsOf(slices) ==
    {ClaimIdFor(s, slices[s]) : s \in {x \in DOMAIN slices : slices[x].claim # NoClaim}}

\* claimMetadataMatches and verifyClaimToken: the envelope of the slice's claim
\* is there and is the worker's; it authorises until it expires.
HasSecret(s) ==
    LET id == ClaimIdFor(s, SliceAt(s)) IN
    /\ id \in DOMAIN secrets
    /\ secrets[id].token = SliceAt(s).claim.token
    /\ secrets[id].worker = SliceAt(s).claim.worker
Authorised == {SliceAt(s).claim.token :
                 s \in {x \in DOMAIN plan.slices : Claimed(x) /\ HasSecret(x)}} \ lapsed

ClaimFault(n) == cfaults + n <= MaxClaimFaults /\ cfaults' = cfaults + n

\* persistPlan and what its caller does then. gone are the envelopes that the
\* write makes obsolete, lost those deleted when it did not happen. A failed
\* history append says itself that the note is written; after any other error
\* the caller reads the note again and takes the write for done if that looks
\* like its own (seen), unless the reading fails too. Or the caller dies.
PersistPlan(store, slices, gone, lost, seen) ==
    LET next == [rev |-> plan.rev + 1, slices |-> slices]
        Keep(ids) == secrets' = [i \in DOMAIN store \ ids |-> store[i]]
    IN  /\ plan.rev < MaxPlanRev
        /\ \/ /\ plan' = next /\ revs' = revs \cup {slices}
              /\ \/ Keep(gone) /\ UNCHANGED cfaults
                 \/ Keep({}) /\ ClaimFault(1)
           \/ /\ plan' = next /\ UNCHANGED revs
              /\ \/ (Keep(gone) \/ Keep({})) /\ ClaimFault(1)
                 \/ Keep(lost) /\ ClaimFault(IF seen THEN 2 ELSE 1)
           \/ /\ UNCHANGED <<plan, revs>> /\ (Keep(lost) \/ Keep({})) /\ ClaimFault(1)

\* The history of a write: the tokens whose generation it ends.
Revokes ==
    /\ revoked' = revoked \cup {SliceAt(s).claim.token : s \in {x \in DOMAIN plan.slices :
           /\ Claimed(x) /\ SliceAt(x).claim.token \in Authorised
           /\ x \in DOMAIN plan'.slices /\ plan'.slices[x].gen > SliceAt(x).gen}}
    /\ forgotten' = forgotten \cup (DOMAIN plan.slices \ DOMAIN plan'.slices)

\* A write with no envelope of its own.
Mutate(slices, gone) == /\ PersistPlan(secrets, slices, gone, {}, TRUE) /\ Revokes
                        /\ UNCHANGED <<issued, lapsed, granted>>

Without(s) == IF Claimed(s) THEN {ClaimIdFor(s, SliceAt(s))} ELSE {}
Replaced(s, slice) == [plan.slices EXCEPT ![s] = slice]

\* invalidateSliceGeneration.
Invalidated(slice) == [slice EXCEPT !.gen = @ + 1, !.claim = NoClaim]

ClaimInit ==
    /\ plan = [rev |-> 0, slices |-> [s \in First |-> NewSlice]]
    /\ revs = {plan.slices} /\ secrets = << >> /\ issued = 0 /\ lapsed = {}
    /\ cfaults = 0 /\ granted = {} /\ revoked = {} /\ forgotten = {}

-----------------------------------------------------------------------------
(* Workers. *)

\* expireStaleClaimForSlice, for each slice of the sweeps that precede a claim,
\* a worker's write and a read; each is a write of its own.
ExpireStaleClaim(s) ==
    /\ Claimed(s) /\ SliceAt(s).claim.token \in lapsed
    /\ Mutate(Replaced(s, Invalidated(SliceAt(s))), Without(s))

NoStaleClaims == \A s \in DOMAIN plan.slices : SliceAt(s).claim.token \notin lapsed

\* claimSlice for a slice with a live claim: the answer is given once more.
ReplayClaim(w, s, k) ==
    /\ Claimed(s) /\ NoStaleClaims
    /\ SliceAt(s).status = "open" /\ SliceAt(s).to = w
    /\ SliceAt(s).claim.key = k /\ SliceAt(s).claim.worker = w /\ HasSecret(s)
    /\ granted' = granted \cup {SliceAt(s).claim.rev}
    /\ UNCHANGED <<plan, revs, secrets, issued, lapsed, cfaults, revoked, forgotten>>

\* The generation that a claim is made at: the slice's, or the first one past the
\* lapsed envelopes that are in its way.
FreeGen(s, k) ==
    Min({g \in {SliceAt(s).gen} \cup {i[2] + 1 : i \in DOMAIN secrets} :
           /\ g >= SliceAt(s).gen
           /\ <<s, g, k>> \in DOMAIN secrets => secrets[<<s, g, k>>].token \notin lapsed})

\* claimSlice and createClaimSecret: an envelope that is there already, left by
\* a call whose write did not happen, is taken up with its token.
ClaimSlice(w, s, k) ==
    /\ s \in DOMAIN plan.slices /\ ~Claimed(s) /\ NoStaleClaims
    /\ SliceAt(s).status = "open" /\ SliceAt(s).to = w
    /\ LET gen   == FreeGen(s, k)
           id    == <<s, gen, k>>
           stale == {<<s, g, k>> : g \in SliceAt(s).gen..(gen - 1)}
           fresh == [worker |-> w, token |-> issued + 1, rev |-> plan.rev + 1]
           found == id \in DOMAIN secrets
           env   == IF found THEN secrets[id] ELSE fresh
           store == [i \in DOMAIN secrets \cup {id} |-> IF i = id THEN env ELSE secrets[i]]
           claim == [key |-> k, worker |-> w, token |-> env.token, rev |-> plan.rev + 1]
       IN  /\ env.worker = w
           /\ issued' = IF found THEN issued ELSE issued + 1
           /\ PersistPlan(store,
                      Replaced(s, [SliceAt(s) EXCEPT !.gen = gen, !.claim = claim]),
                      stale, stale \cup {id}, env.rev = plan.rev + 1)
    /\ granted' \in {granted} \cup IF plan'.slices \in revs' THEN {granted \cup {plan'.rev}}
                                     ELSE {}
    /\ Revokes /\ UNCHANGED lapsed

\* workerUpdate with the action complete: the claim goes, its generation stays.
Complete(s) ==
    /\ Claimed(s) /\ NoStaleClaims /\ HasSecret(s) /\ SliceAt(s).status = "open"
    /\ SliceAt(s).claim.rev \in granted
    /\ Mutate(Replaced(s, [SliceAt(s) EXCEPT !.status = "done", !.claim = NoClaim]), Without(s))

\* The expires_at of a token passes.
LeaseEnds(t) == /\ t \in 1..issued \ lapsed /\ lapsed' = lapsed \cup {t}
            /\ UNCHANGED <<plan, revs, secrets, issued, cfaults, granted, revoked, forgotten>>

-----------------------------------------------------------------------------
(* The orchestrator. *)

\* Mutant: the envelope goes before the write that revokes its claim.
AssignAfterDelete(w, s) ==
    /\ s \in DOMAIN plan.slices /\ SliceAt(s).status = "open"
    /\ PersistPlan([i \in DOMAIN secrets \ Without(s) |-> secrets[i]],
               Replaced(s, [Invalidated(SliceAt(s)) EXCEPT !.to = w]), {}, {}, TRUE)
    /\ Revokes /\ UNCHANGED <<issued, lapsed, granted>>

\* assignSlice: the first assignment keeps the generation.
AssignSlice(w, s) ==
    /\ s \in DOMAIN plan.slices /\ SliceAt(s).status = "open"
    /\ LET slice == SliceAt(s) IN
       Mutate(Replaced(s, [slice EXCEPT !.to = w, !.claim = NoClaim,
                                        !.gen = IF slice.to = NoWorker THEN @ ELSE @ + 1]),
              Without(s))

\* applyOrchestratorSliceUpdate.
UpdateSlice(s, status) ==
    /\ s \in DOMAIN plan.slices
    /\ LET slice == [SliceAt(s) EXCEPT !.status = status] IN
       Mutate(Replaced(s, IF Claimed(s) THEN Invalidated(slice) ELSE slice), Without(s))

\* replan and applySliceDelta, of one slice: dropped, given another meaning, or
\* added under an id that the plan does not have.
Replan(s) ==
    \/ /\ s \in DOMAIN plan.slices
       /\ \E status \in {SliceAt(s).status, "superseded"} :
            /\ SliceAt(s).status # "superseded"
            /\ status = "superseded" => SliceAt(s).status = "open"
            /\ Mutate(Replaced(s, Invalidated([SliceAt(s) EXCEPT !.status = status])), Without(s))
    \/ /\ s \notin DOMAIN plan.slices
       /\ Mutate([x \in DOMAIN plan.slices \cup {s} |->
                    IF x = s THEN NewSlice ELSE SliceAt(x)], {})

\* restorePlan: every slice of the snapshot advances beyond the plan's revision
\* and every generation in sight.
GenerationFloor(snapshot) ==
    Max({plan.rev + 1} \cup {SliceAt(s).gen + 1 : s \in DOMAIN plan.slices}
                       \cup {snapshot[s].gen + 1 : s \in DOMAIN snapshot})

\* Mutant: the snapshot's claims come back with it.
RestoredAsTaken(snapshot) == [s \in DOMAIN snapshot |->
    [snapshot[s] EXCEPT !.gen = GenerationFloor(snapshot)]]

Restored(snapshot) == [s \in DOMAIN snapshot |->
    [snapshot[s] EXCEPT !.gen = GenerationFloor(snapshot), !.claim = NoClaim]]

Restore == \E snapshot \in revs :
    Mutate(Restored(snapshot), ClaimIdsOf(plan.slices) \cup ClaimIdsOf(snapshot))

ClaimNext ==
    \/ \E s \in Slices :
         \/ ExpireStaleClaim(s) \/ Complete(s) \/ Replan(s)
         \/ \E w \in Workers, k \in Keys : ClaimSlice(w, s, k) \/ ReplayClaim(w, s, k)
         \/ \E w \in Workers : AssignSlice(w, s)
         \/ \E status \in {"open", "done"} : UpdateSlice(s, status)
    \/ \E t \in Tokens : LeaseEnds(t)
    \/ Restore

ClaimSpec == ClaimInit /\ [][ClaimNext]_claimVars

-----------------------------------------------------------------------------
\* Every part keeps its shape, no token is on two envelopes, and only an open
\* slice has a claim.
ClaimTypeOK ==
    /\ plan.rev \in 0..MaxPlanRev /\ DOMAIN plan.slices \subseteq Slices
    /\ \A s \in DOMAIN plan.slices : /\ SliceAt(s) \in SliceStates
                                   /\ Claimed(s) => SliceAt(s).status = "open"
    /\ DOMAIN secrets \subseteq ClaimIds
    /\ \A i \in DOMAIN secrets : secrets[i] \in Envelopes /\ secrets[i].token <= issued
    /\ \A i, j \in DOMAIN secrets : secrets[i].token = secrets[j].token => i = j
    /\ lapsed \subseteq 1..issued /\ granted \subseteq 1..plan.rev
    /\ revoked \subseteq 1..issued /\ cfaults \in 0..MaxClaimFaults

\* A worker that has been answered can go on: as long as the plan shows its
\* claim, the envelope with its token is there, whatever write failed or died.
AnsweredClaimHasItsSecret ==
    \A s \in DOMAIN plan.slices :
      Claimed(s) /\ SliceAt(s).claim.rev \in granted => HasSecret(s)

\* plan.ts:1598: a token whose generation has passed does not authorise again,
\* even where its envelope could not be deleted and a later claim has the same
\* worker and key; a restore that left the slice out is the exception.
RevokedStaysRevoked ==
    \A s \in DOMAIN plan.slices \ forgotten :
      Claimed(s) => SliceAt(s).claim.token \notin Authorised \cap revoked

\* The envelopes of a claim authorise what was claimed, and nothing else.
EnvelopesMatchClaims == AnsweredClaimHasItsSecret /\ RevokedStaysRevoked
===============================================================================
