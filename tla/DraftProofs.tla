----------------------------- MODULE DraftProofs -----------------------------
(***************************************************************************)
(* Proofs about the AFM's drafts: for any number of candidates, compiles,   *)
(* batches and faults no candidate is decided by a decision whose drafts    *)
(* are not in the vault, and for any number of sweeps and operators a draft *)
(* is decided once. And about corrections: for any number of hooks none is  *)
(* lost before it was shown.                                                *)
(***************************************************************************)
EXTENDS DraftWriter, DraftPages, Reassert, TLAPS

-----------------------------------------------------------------------------
(* The draft writer: the inductive invariant *)

ApplyRun == [of : DraftDecision, left : SUBSET Cands, worked : BOOLEAN, errors : BOOLEAN]
Compile == [pc : {"idle", "submit", "wait", "apply", "reapply"}, of : DraftDecision,
            job : 0..MaxJobs, ap : ApplyRun]
WriterRow == [pc : {"idle", "ledger", "land", "decide", "apply"}, job : 0..MaxJobs,
            ap : ApplyRun]
Batch == [of : DraftDecision, deferred : BOOLEAN, out : {"none", "result", "error"},
          row : {"none", "pending", "written"}]

DraftShape ==
    /\ state \in [Cands -> {"proposed", "fenced", "settled"}] /\ copies \subseteq Plain
    /\ pages \subseteq Reviews \X Jobs /\ nJobs \in 0..MaxJobs /\ job \in [Jobs -> Batch]
    /\ busy \in 0..MaxJobs /\ sticky \in DraftDecision /\ disk \in DraftDecision
    /\ caller \in [Callers -> Compile] /\ writer \in WriterRow
    /\ decider \in [Cands -> 0..MaxJobs]

\* What waits, is written or is waited for was handed to the writer.
JobsAreKnown ==
    /\ queue \in Seq(Jobs) /\ \A i \in DOMAIN queue : queue[i] <= nJobs
    /\ writer.pc # "idle" => writer.job \in Jobs /\ writer.job <= nJobs
    /\ \A k \in Callers : caller[k].pc = "wait" =>
          caller[k].job \in Jobs /\ caller[k].job <= nJobs

\* Batch j was handed to the writer and all its drafts are pages; 0 is no batch.
HasLanded(j) == j # 0 => /\ j \in Jobs /\ j <= nJobs
                         /\ \A d \in Drafts(job[j].of) : <<d, j>> \in pages

\* The batches of every decision that was applied, is being applied or is kept
\* to be.
DecidedBy == {decider[c] : c \in Cands} \cup {caller[k].ap.of.from : k \in Callers}
                \cup {sticky.from, disk.from, writer.ap.of.from}
DecisionsHaveLanded == \A j \in DecidedBy : HasLanded(j)

\* The decision of a batch bears its number; its result and its row in the
\* ledger tell what landed.
BatchHolds(j) ==
    /\ j <= nJobs => job[j].of.from = j
    /\ job[j].out = "result" \/ job[j].row = "written" => HasLanded(j)
    /\ job[j].row = "none" => \A p \in pages : p[2] # j

\* The writer's thread writes pages after the row, and decides after the pages.
WriterKeepsOrder ==
    /\ writer.pc = "land" => job[writer.job].row # "none"
    /\ writer.pc \in {"decide", "apply"} => job[writer.job].out = "result"

\* One compile at most holds the claim of a pending decision.
OneReapplies ==
    /\ reapplying = \E k \in Callers : caller[k].pc = "reapply"
    /\ \A k, l \in Callers : caller[k].pc = "reapply" /\ caller[l].pc = "reapply" => k = l

DraftInv ==
    /\ DraftShape /\ JobsAreKnown /\ DecisionsHaveLanded
    /\ \A j \in Jobs : BatchHolds(j)
    /\ WriterKeepsOrder /\ OneReapplies

-----------------------------------------------------------------------------
(* What stands while a step goes by *)

LEMMA Defaults ==
    /\ None \in DraftDecision /\ None.from = 0
    /\ NoApply \in ApplyRun /\ NoApply.of.from = 0
    /\ Idle \in Compile /\ Idle.pc = "idle" /\ Idle.ap.of.from = 0
    /\ Thread \in WriterRow /\ Thread.pc = "idle" /\ Thread.ap.of.from = 0
    /\ NoJob \in Batch /\ NoJob.out = "none" /\ NoJob.row = "none"
<1>1. 0 \in 0..MaxJobs
  BY DraftAssumption
<1>2. None \in DraftDecision /\ None.from = 0 /\ None.sel \in SUBSET Cands
  BY <1>1 DEF None, DraftDecision
<1>3. NoApply \in ApplyRun /\ NoApply.of.from = 0
  BY <1>2 DEF NoApply, Apply, ApplyRun
<1>4. Idle \in Compile /\ Idle.pc = "idle" /\ Idle.ap.of.from = 0
  BY <1>1, <1>2, <1>3 DEF Idle, Compile
<1>5. Thread \in WriterRow /\ Thread.pc = "idle" /\ Thread.ap.of.from = 0
  BY <1>1, <1>2, <1>3 DEF Thread, WriterRow
<1>6. NoJob \in Batch /\ NoJob.out = "none" /\ NoJob.row = "none"
  BY <1>2 DEF NoJob, Batch
<1> QED BY <1>2, <1>3, <1>4, <1>5, <1>6

LEMMA ApplyFits ==
    ASSUME NEW d \in DraftDecision
    PROVE  Apply(d) \in ApplyRun /\ Apply(d).of = d
BY DEF Apply, ApplyRun, DraftDecision

\* Pages only come, and a batch keeps its drafts: what has landed has landed.
Grows == /\ nJobs <= nJobs' /\ nJobs' \in 0..MaxJobs /\ pages \subseteq pages'
         /\ \A j \in Jobs : j <= nJobs => job'[j].of = job[j].of

LEMMA LandedStays ==
    ASSUME DraftInv, Grows, NEW j, HasLanded(j)
    PROVE  HasLanded(j)'
<1> SUFFICES ASSUME j # 0
             PROVE  /\ j \in Jobs /\ j <= nJobs'
                    /\ \A d \in Drafts(job'[j].of) : <<d, j>> \in pages'
  BY DEF HasLanded
<1>1. j \in Jobs /\ j <= nJobs /\ \A d \in Drafts(job[j].of) : <<d, j>> \in pages
  BY DEF HasLanded
<1>2. j <= nJobs'
  BY <1>1, DraftAssumption DEF Grows, DraftInv, DraftShape, Jobs
<1>3. job'[j].of = job[j].of
  BY <1>1 DEF Grows
<1> QED BY <1>1, <1>2, <1>3 DEF Grows

\* A decision that is applied or kept is one that already was, or one that has
\* landed.
LEMMA DecisionsStand ==
    ASSUME DraftInv, Grows, \A j \in DecidedBy' : j \in DecidedBy \/ j = 0 \/ HasLanded(j)
    PROVE  DecisionsHaveLanded'
<1> SUFFICES ASSUME NEW j \in DecidedBy' PROVE HasLanded(j)'
  BY DEF DecisionsHaveLanded
<1>1. HasLanded(0)
  BY DEF HasLanded
<1>2. HasLanded(j)
  BY <1>1 DEF DraftInv, DecisionsHaveLanded
<1> QED BY <1>2, LandedStays

\* The batches stay as they are, but for who applies their decisions.
SameBatches == /\ nJobs' = nJobs /\ pages' = pages /\ job' \in [Jobs -> Batch]
               /\ \A j \in Jobs : /\ job'[j].of = job[j].of /\ job'[j].out = job[j].out
                                  /\ job'[j].row = job[j].row

LEMMA BatchesStand ==
    ASSUME DraftInv, SameBatches
    PROVE  Grows /\ \A j \in Jobs : BatchHolds(j)'
<1>1. Grows
  BY DEF SameBatches, Grows, DraftInv, DraftShape
<1>2. ASSUME NEW j \in Jobs PROVE BatchHolds(j)'
  <2>1. BatchHolds(j)
    BY DEF DraftInv
  <2>2. HasLanded(j) => HasLanded(j)'
    BY <1>1, LandedStays
  <2> QED BY <2>1, <2>2 DEF BatchHolds, SameBatches
<1> QED BY <1>1, <1>2

\* SettleNext: what it decides is decided by the batch of the decision applied.
LEMMA SettleFits ==
    ASSUME DraftInv, NEW a \in ApplyRun, NEW fails \in BOOLEAN, SettleNext(a, fails)
    PROVE  /\ state' \in [Cands -> {"proposed", "fenced", "settled"}]
           /\ decider' \in [Cands -> 0..MaxJobs]
           /\ \A c \in Cands : decider'[c] = decider[c] \/ decider'[c] = a.of.from
           /\ Report(a, fails) \in ApplyRun /\ Report(a, fails).of = a.of
<1> DEFINE c == Following(a.left)
           new == IF fails THEN state[c] ELSE Decided(a, c)
<1>1. /\ a.left \subseteq Cands /\ a.left # {} /\ a.of.from \in 0..MaxJobs
      /\ state \in [Cands -> {"proposed", "fenced", "settled"}]
      /\ decider \in [Cands -> 0..MaxJobs]
  BY DEF ApplyRun, DraftDecision, SettleNext, DraftInv, DraftShape
<1>2. c \in a.left
  BY <1>1 DEF Following
<1>3. c \in Cands
  BY <1>1, <1>2
<1>4. new \in {"proposed", "fenced", "settled"}
  BY <1>1, <1>3 DEF Decided
<1>5. /\ state' = [state EXCEPT ![c] = new]
      /\ decider' = [decider EXCEPT ![c] = IF new = state[c] THEN @ ELSE a.of.from]
  BY DEF SettleNext
<1> HIDE DEF new, c
<1>6. state' \in [Cands -> {"proposed", "fenced", "settled"}]
  BY <1>1, <1>4, <1>5
<1>7. /\ decider' \in [Cands -> 0..MaxJobs]
      /\ \A x \in Cands : decider'[x] = decider[x] \/ decider'[x] = a.of.from
  BY <1>1, <1>3, <1>5
<1>8. Report(a, fails) \in ApplyRun /\ Report(a, fails).of = a.of
  <2> DEFINE r1 == [a EXCEPT !.left = @ \ {c}]
             r2 == [r1 EXCEPT !.errors = @ \/ fails]
             worked == a.worked \/ (~fails /\ Decided(a, c) # state[c])
  <2>1. r1 \in ApplyRun /\ r1.of = a.of /\ r1.worked = a.worked
    BY DEF ApplyRun
  <2>2. r2 \in ApplyRun /\ r2.of = a.of /\ r2.worked = a.worked
    <3> HIDE DEF r1
    <3> QED BY <2>1 DEF ApplyRun
  <2>3. Report(a, fails) = [r2 EXCEPT !.worked = worked]
    BY DEF Report, c
  <2>4. worked \in BOOLEAN
    BY DEF ApplyRun
  <2> HIDE DEF r2, worked
  <2> QED BY <2>2, <2>3, <2>4 DEF ApplyRun
<1> QED BY <1>6, <1>7, <1>8

-----------------------------------------------------------------------------
(* Compiles *)

\* A compile moves on, with the batches as they are.
LEMMA CompileMoves ==
    ASSUME DraftInv, SameBatches, NEW k \in Callers, NEW a \in Compile,
           caller' = [caller EXCEPT ![k] = a], UNCHANGED <<copies, queue, writer>>,
           state' \in [Cands -> {"proposed", "fenced", "settled"}], busy' \in 0..MaxJobs,
           decider' \in [Cands -> 0..MaxJobs],
           \A c \in Cands : decider'[c] = decider[c] \/ decider'[c] = caller[k].ap.of.from,
           sticky' \in DraftDecision, disk' \in DraftDecision,
           sticky'.from \in DecidedBy \cup {0}, disk'.from \in DecidedBy \cup {0},
           a.ap.of.from \in DecidedBy \cup {0} \/ HasLanded(a.ap.of.from),
           a.pc # "wait",
           \/ reapplying' = reapplying /\ (a.pc = "reapply" <=> caller[k].pc = "reapply")
           \/ ~reapplying /\ reapplying' = TRUE /\ a.pc = "reapply"
           \/ caller[k].pc = "reapply" /\ a.pc # "reapply" /\ reapplying' = FALSE
    PROVE  DraftInv'
<1>1. /\ caller' \in [Callers -> Compile] /\ caller'[k] = a
      /\ \A l \in Callers : l # k => caller'[l] = caller[l]
  BY DEF DraftInv, DraftShape
<1>2. Grows /\ \A j \in Jobs : BatchHolds(j)'
  BY BatchesStand
<1>3. DraftShape'
  BY <1>1 DEF DraftInv, DraftShape, SameBatches
<1>4. JobsAreKnown'
  BY <1>1 DEF DraftInv, JobsAreKnown, SameBatches
<1>5. DecisionsHaveLanded'
  <2> SUFFICES ASSUME NEW j \in DecidedBy' PROVE j \in DecidedBy \/ j = 0 \/ HasLanded(j)
    BY <1>2, DecisionsStand
  <2>1. CASE \E c \in Cands : j = decider'[c]
    BY <2>1 DEF DecidedBy
  <2>2. CASE \E l \in Callers : j = caller'[l].ap.of.from
    <3>1. PICK l \in Callers : j = caller'[l].ap.of.from
      BY <2>2
    <3>2. CASE l = k
      BY <1>1, <3>1, <3>2
    <3>3. CASE l # k
      BY <1>1, <3>1, <3>3 DEF DecidedBy
    <3> QED BY <3>2, <3>3
  <2>3. CASE j \in {sticky'.from, disk'.from, writer.ap.of.from}
    BY <2>3 DEF DecidedBy
  <2> QED BY <2>1, <2>2, <2>3 DEF DecidedBy
<1>6. WriterKeepsOrder'
  <2>1. writer.pc # "idle" => writer.job \in Jobs
    BY DEF DraftInv, JobsAreKnown
  <2> QED BY <2>1 DEF DraftInv, WriterKeepsOrder, SameBatches
<1>7. OneReapplies'
  <2>1. OneReapplies
    BY DEF DraftInv
  <2>2. CASE reapplying' = reapplying /\ (a.pc = "reapply" <=> caller[k].pc = "reapply")
    BY <1>1, <2>1, <2>2 DEF OneReapplies
  <2>3. CASE ~reapplying /\ reapplying' = TRUE /\ a.pc = "reapply"
    <3>1. \A l \in Callers : caller[l].pc # "reapply"
      BY <2>1, <2>3 DEF OneReapplies
    <3> QED BY <1>1, <2>3, <3>1 DEF OneReapplies
  <2>4. CASE caller[k].pc = "reapply" /\ a.pc # "reapply" /\ reapplying' = FALSE
    <3>1. \A l \in Callers : l # k => caller[l].pc # "reapply"
      BY <2>1, <2>4 DEF OneReapplies
    <3> QED BY <1>1, <2>4, <3>1 DEF OneReapplies
  <2> QED BY <2>2, <2>3, <2>4
<1> QED BY <1>2, <1>3, <1>4, <1>5, <1>6, <1>7 DEF DraftInv

\* The types and the batches that a compile finds.
LEMMA Shapes ==
    ASSUME DraftInv
    PROVE  /\ state \in [Cands -> {"proposed", "fenced", "settled"}] /\ busy \in 0..MaxJobs
           /\ decider \in [Cands -> 0..MaxJobs]
           /\ sticky \in DraftDecision /\ disk \in DraftDecision
           /\ sticky.from \in DecidedBy /\ disk.from \in DecidedBy
           /\ Hydrated \in {sticky, disk}
           /\ \A k \in Callers : caller[k] \in Compile /\ caller[k].ap.of.from \in DecidedBy
           /\ writer \in WriterRow /\ writer.ap.of.from \in DecidedBy
           /\ \A c \in Cands : decider[c] \in DecidedBy
           /\ None \in DraftDecision /\ None.from = 0 /\ 0 \in 0..MaxJobs
           /\ job \in [Jobs -> Batch] /\ nJobs \in 0..MaxJobs /\ DecisionsHaveLanded
           /\ job' = job /\ nJobs' = nJobs /\ pages' = pages => SameBatches
BY Defaults, DraftAssumption DEF DraftInv, DraftShape, DecidedBy, Hydrated, SameBatches

\* A pass that has to be applied, or to be handed to the writer.
LEMMA SelectKeeps == ASSUME DraftInv, NEW k \in Callers, Select(k) PROVE DraftInv'
<1> DEFINE sel == {c \in Cands : state[c] = "proposed"}
           d == [None EXCEPT !.sel = sel, !.dups = sel \cap copies]
<1>1. d \in DraftDecision /\ d.from = 0
  <2>1. copies \subseteq Plain
    BY DEF DraftInv, DraftShape
  <2> QED BY <2>1, Defaults DEF DraftDecision, None
<1>2. PICK a : /\ caller' = [caller EXCEPT ![k] = a]
               /\ a \in {[Idle EXCEPT !.pc = "apply", !.ap = Apply(d)],
                         [Idle EXCEPT !.pc = "submit", !.of = d]}
  BY DEF Select, Goes
<1> HIDE DEF d
<1>3. Apply(d) \in ApplyRun /\ Apply(d).of = d
  BY <1>1, ApplyFits
<1>4. a \in Compile /\ a.pc \in {"apply", "submit"} /\ a.ap.of.from = 0
  <2>1. CASE a = [Idle EXCEPT !.pc = "apply", !.ap = Apply(d)]
    BY <1>1, <1>3, <2>1, Defaults DEF Compile
  <2>2. CASE a = [Idle EXCEPT !.pc = "submit", !.of = d]
    BY <1>1, <2>2, Defaults DEF Compile
  <2> QED BY <1>2, <2>1, <2>2
<1>5. /\ UNCHANGED <<state, copies, pages, job, nJobs, queue, busy, sticky, disk>>
      /\ UNCHANGED <<reapplying, writer, decider>> /\ caller[k].pc = "idle"
  BY DEF Select
<1>6. SameBatches
  BY <1>5, Shapes
<1> QED BY <1>2, <1>4, <1>5, <1>6, Shapes, CompileMoves

\* Claim: a pending decision has landed.
LEMMA ClaimKeeps == ASSUME DraftInv, NEW k \in Callers, Claim(k) PROVE DraftInv'
<1> DEFINE h == Hydrated
           a == [caller[k] EXCEPT !.pc = "reapply", !.ap = Apply(h)]
<1>1. h \in DraftDecision /\ h.from \in DecidedBy /\ caller[k] \in Compile
  BY Shapes
<1>2. Apply(h) \in ApplyRun /\ Apply(h).of = h
  BY <1>1, ApplyFits
<1>3. /\ UNCHANGED <<state, copies, pages, job, nJobs, queue, busy, disk>>
      /\ UNCHANGED <<writer, decider>> /\ sticky' = h /\ ~reapplying /\ reapplying' = TRUE
      /\ caller' = [caller EXCEPT ![k] = a]
  BY DEF Claim, Goes
<1> HIDE DEF h
<1>4. a \in Compile /\ a.pc = "reapply" /\ a.ap.of.from = h.from
  BY <1>1, <1>2 DEF Compile
<1> HIDE DEF a
<1>5. SameBatches
  BY <1>3, Shapes
<1> QED BY <1>1, <1>3, <1>4, <1>5, Shapes, CompileMoves

\* A compile that ends, or waits no longer, and leaves what is pending as it
\* finds it or as it was told.
LEMMA CompileEnds ==
    ASSUME DraftInv, SameBatches, NEW k \in Callers, Ends(k),
           UNCHANGED <<state, copies, queue, writer, decider>>, busy' \in {busy, 0},
           sticky' \in {sticky, disk, caller[k].ap.of, None},
           disk' \in {disk, caller[k].ap.of, None},
           reapplying' = IF caller[k].pc = "reapply" THEN FALSE ELSE reapplying
    PROVE  DraftInv'
<1>1. Idle \in Compile /\ Idle.pc = "idle" /\ Idle.ap.of.from = 0
  BY Defaults
<1>2. caller' = [caller EXCEPT ![k] = Idle]
  BY DEF Ends, Goes
<1>3. caller[k].ap.of \in DraftDecision /\ caller[k].ap.of.from \in DecidedBy
  BY Shapes DEF Compile, ApplyRun
<1>4. /\ sticky' \in DraftDecision /\ disk' \in DraftDecision
      /\ sticky'.from \in DecidedBy \cup {0} /\ disk'.from \in DecidedBy \cup {0}
      /\ busy' \in 0..MaxJobs
  BY <1>3, Shapes
<1> QED BY <1>1, <1>2, <1>4, Shapes, CompileMoves

\* Refused, a submission that fails, an apply that is over.
LEMMA TurnedAwayKeeps ==
    ASSUME DraftInv, NEW k \in Callers, Refused(k) \/ SubmitFails(k) \/ Applied(k)
    PROVE  DraftInv'
<1>1. /\ UNCHANGED <<state, copies, pages, job, nJobs, queue, writer, decider>>
      /\ UNCHANGED <<busy, disk, reapplying>> /\ Ends(k) /\ caller[k].pc # "reapply"
      /\ sticky' \in {sticky, disk}
  BY Shapes DEF Refused, SubmitFails, Applied
<1>2. SameBatches
  BY <1>1, Shapes
<1> QED BY <1>1, <1>2, CompileEnds

\* StillPending and Recovered: the decision stays pending, or nothing does.
LEMMA ReapplyEndsKeeps ==
    ASSUME DraftInv, NEW k \in Callers, StillPending(k) \/ Recovered(k)
    PROVE  DraftInv'
<1>1. /\ UNCHANGED <<state, copies, pages, job, nJobs, queue, writer, decider>>
      /\ busy' \in {busy, 0} /\ reapplying' = FALSE /\ Ends(k) /\ caller[k].pc = "reapply"
      /\ sticky' \in {caller[k].ap.of, None} /\ disk' \in {disk, caller[k].ap.of, None}
  BY DEF StillPending, Recovered, Reapplies, Persist
<1>2. SameBatches
  BY <1>1, Shapes
<1> QED BY <1>1, <1>2, CompileEnds

\* Woken, and TimesOut with an answer there: the drafts of a batch that has a
\* result are pages, and its decision bears its number.
LEMMA WaitEndsKeeps ==
    ASSUME DraftInv, NEW k \in Callers, Woken(k) \/ TimesOut(k)
    PROVE  DraftInv'
<1> DEFINE j == caller[k].job
           b == job[j]
           a == [Idle EXCEPT !.pc = "apply", !.ap = Apply(b.of)]
<1>1. /\ caller[k].pc = "wait" /\ j \in Jobs /\ j <= nJobs
      /\ job \in [Jobs -> Batch] /\ BatchHolds(j)
  BY Shapes DEF Woken, TimesOut, DraftInv, JobsAreKnown
<1>2. /\ UNCHANGED <<state, copies, pages, nJobs, queue, busy, sticky, disk>>
      /\ UNCHANGED <<reapplying, writer, decider>>
      /\ job' = job \/ job' = [job EXCEPT ![j].deferred = @ \/ job[j].out = "none"]
  BY DEF Woken, TimesOut
<1>3. SameBatches
  <2>1. CASE job' = job
    BY <1>2, <2>1, Shapes
  <2>2. CASE job' = [job EXCEPT ![j].deferred = @ \/ job[j].out = "none"]
    <3> DEFINE late == b.deferred \/ b.out = "none"
               row == [b EXCEPT !.deferred = late]
    <3>1. late \in BOOLEAN /\ b \in Batch
      BY <1>1 DEF Batch
    <3>2. job' = [job EXCEPT ![j] = row]
      BY <1>1, <2>2
    <3> HIDE DEF late
    <3>3. /\ row \in Batch /\ row.of = b.of /\ row.out = b.out /\ row.row = b.row
      BY <3>1 DEF Batch
    <3> HIDE DEF row
    <3> QED BY <1>1, <1>2, <3>2, <3>3 DEF SameBatches
  <2> QED BY <1>2, <2>1, <2>2
<1>4. caller' = [caller EXCEPT ![k] = IF b.out = "result" THEN a ELSE Idle]
  BY DEF Woken, TimesOut, Goes
<1>5. CASE b.out = "result"
  <2>1. Apply(b.of) \in ApplyRun /\ Apply(b.of).of = b.of
    BY <1>1, ApplyFits DEF Batch
  <2>2. a \in Compile /\ a.pc = "apply" /\ a.ap.of = b.of
    BY <2>1, Defaults DEF Compile
  <2>3. b.of.from = j /\ HasLanded(j)
    BY <1>1, <1>5 DEF BatchHolds
  <2>4. caller' = [caller EXCEPT ![k] = a]
    BY <1>4, <1>5
  <2>5. a.ap.of.from = j
    BY <2>2, <2>3
  <2> HIDE DEF a, b, j
  <2> QED BY <1>1, <1>2, <1>3, <2>2, <2>3, <2>4, <2>5, Shapes, CompileMoves
<1>6. CASE b.out # "result"
  <2>1. caller' = [caller EXCEPT ![k] = Idle]
    BY <1>4, <1>6
  <2> QED BY <1>1, <1>2, <1>3, <2>1, CompileEnds DEF Ends, Goes
<1> QED BY <1>5, <1>6

\* CallerSettles: one candidate of the decision that is applied.
LEMMA CallerSettlesKeeps ==
    ASSUME DraftInv, NEW k \in Callers, CallerSettles(k) PROVE DraftInv'
<1> DEFINE ap == caller[k].ap
<1>1. PICK fails \in BOOLEAN :
         /\ SettleNext(ap, fails)
         /\ caller' = [caller EXCEPT ![k] = [caller[k] EXCEPT !.ap = Report(ap, fails)]]
  BY DEF CallerSettles, Goes
<1> DEFINE a == [caller[k] EXCEPT !.ap = Report(ap, fails)]
<1>2. caller[k] \in Compile /\ ap \in ApplyRun
  BY Shapes DEF Compile
<1>3. /\ state' \in [Cands -> {"proposed", "fenced", "settled"}]
      /\ decider' \in [Cands -> 0..MaxJobs]
      /\ \A c \in Cands : decider'[c] = decider[c] \/ decider'[c] = ap.of.from
      /\ Report(ap, fails) \in ApplyRun /\ Report(ap, fails).of = ap.of
  BY <1>1, <1>2, SettleFits
<1>4. a \in Compile /\ a.pc = caller[k].pc /\ a.ap.of.from = ap.of.from
  BY <1>2, <1>3 DEF Compile
<1>5. /\ UNCHANGED <<copies, pages, job, nJobs, queue, busy, sticky, disk>>
      /\ UNCHANGED <<reapplying, writer>> /\ caller[k].pc # "wait"
  BY DEF CallerSettles
<1>6. SameBatches
  BY <1>5, Shapes
<1>7. caller' = [caller EXCEPT ![k] = a]
  BY <1>1
<1> HIDE DEF a
<1> QED BY <1>3, <1>4, <1>5, <1>6, <1>7, Shapes, CompileMoves

\* Enqueue: the batch gets the next number, and its decision bears it. Nothing
\* is kept to be applied again.
LEMMA EnqueueKeeps ==
    ASSUME DraftInv, NEW k \in Callers, Submit(k) \/ NothingPending(k)
    PROVE  DraftInv'
<1> DEFINE n == nJobs + 1
           d == [caller[k].of EXCEPT !.from = n]
           a == [Idle EXCEPT !.pc = "wait", !.job = n]
<1>1. /\ nJobs' = n /\ job' = [job EXCEPT ![n].of = d] /\ queue' = Append(queue, n)
      /\ busy' = n /\ nJobs < MaxJobs /\ caller' = [caller EXCEPT ![k] = a]
      /\ UNCHANGED <<state, copies, pages, writer, decider>>
  BY DEF Submit, NothingPending, Enqueue, Goes
<1>2. /\ sticky' \in {sticky, None} /\ disk' \in {disk, None}
      /\ \/ caller[k].pc = "submit" /\ reapplying' = reapplying
         \/ caller[k].pc = "reapply" /\ reapplying' = FALSE
  BY DEF Submit, NothingPending, Reapplies, Persist
<1>3. /\ n \in Jobs /\ n \in 0..MaxJobs /\ n # 0 /\ nJobs \in Nat /\ nJobs < n
      /\ \A j \in Jobs : j <= n <=> j <= nJobs \/ j = n
  BY <1>1, Shapes, DraftAssumption DEF Jobs
<1>4. d \in DraftDecision /\ d.from = n
  BY <1>3, Shapes DEF Compile, DraftDecision
<1>5. a \in Compile /\ a.pc = "wait" /\ a.job = n /\ a.ap.of.from = 0
  BY <1>3, Defaults DEF Compile
<1> HIDE DEF d, a, n
<1> DEFINE row == [job[n] EXCEPT !.of = d]
<1>6. /\ row \in Batch /\ row.of = d /\ row.out = job[n].out /\ row.row = job[n].row
      /\ job' = [job EXCEPT ![n] = row]
  BY <1>1, <1>3, <1>4, Shapes DEF Batch
<1> HIDE DEF row
<1>7. /\ job' \in [Jobs -> Batch] /\ job'[n] = row
      /\ \A j \in Jobs : /\ j # n => job'[j] = job[j]
                         /\ job'[j].out = job[j].out /\ job'[j].row = job[j].row
  BY <1>3, <1>6, Shapes
<1>8. Grows
  BY <1>1, <1>3, <1>7, Shapes DEF Grows
<1>9. /\ caller' \in [Callers -> Compile] /\ caller'[k] = a
      /\ \A l \in Callers : l # k => caller'[l] = caller[l]
  BY <1>1, <1>5 DEF DraftInv, DraftShape
<1>10. DraftShape'
  BY <1>1, <1>2, <1>3, <1>7, <1>9, Shapes DEF DraftInv, DraftShape
<1>11. JobsAreKnown'
  <2>1. JobsAreKnown
    BY DEF DraftInv
  <2>2. queue' \in Seq(Jobs) /\ \A i \in DOMAIN queue' : queue'[i] <= n
    <3>1. /\ queue \in Seq(Jobs) /\ Len(queue) \in Nat /\ DOMAIN queue = 1..Len(queue)
          /\ \A i \in DOMAIN queue : queue[i] \in Jobs
      BY <2>1 DEF JobsAreKnown
    <3>2. \A i \in DOMAIN queue : queue[i] <= n
      BY <1>3, <2>1, <3>1 DEF JobsAreKnown
    <3>3. /\ queue' \in Seq(Jobs) /\ Len(queue') = Len(queue) + 1
          /\ DOMAIN queue' = 1..Len(queue) + 1
          /\ \A i \in DOMAIN queue : queue'[i] = queue[i]
          /\ queue'[Len(queue) + 1] = n
      BY <1>1, <1>3, <3>1
    <3>4. n <= n
      BY <1>3
    <3> QED BY <3>1, <3>2, <3>3, <3>4
  <2>3. \A l \in Callers : caller'[l].pc = "wait" => caller'[l].job \in Jobs /\ caller'[l].job <= n
    BY <1>3, <1>5, <1>9, <2>1 DEF JobsAreKnown
  <2>4. writer.pc # "idle" => writer.job \in Jobs /\ writer.job <= n
    BY <1>3, <2>1 DEF JobsAreKnown
  <2> QED BY <1>1, <2>2, <2>3, <2>4 DEF JobsAreKnown
<1>12. DecisionsHaveLanded'
  <2> SUFFICES ASSUME NEW j \in DecidedBy' PROVE j \in DecidedBy \/ j = 0 \/ HasLanded(j)
    BY <1>8, DecisionsStand
  <2>1. CASE \E c \in Cands : j = decider'[c]
    BY <1>1, <2>1 DEF DecidedBy
  <2>2. CASE \E l \in Callers : j = caller'[l].ap.of.from
    BY <1>5, <1>9, <2>2 DEF DecidedBy
  <2>3. CASE j \in {sticky'.from, disk'.from, writer'.ap.of.from}
    BY <1>1, <1>2, <2>3, Defaults DEF DecidedBy
  <2> QED BY <2>1, <2>2, <2>3 DEF DecidedBy
<1>13. ASSUME NEW j \in Jobs PROVE BatchHolds(j)'
  <2>1. BatchHolds(j) /\ (HasLanded(j) => HasLanded(j)')
    BY <1>8, LandedStays DEF DraftInv
  <2>2. j <= nJobs' => job'[j].of.from = j
    BY <1>1, <1>3, <1>4, <1>6, <1>7, <2>1 DEF BatchHolds
  <2> QED BY <1>1, <1>7, <2>1, <2>2 DEF BatchHolds
<1>14. WriterKeepsOrder'
  <2>1. writer.pc # "idle" => writer.job \in Jobs
    BY DEF DraftInv, JobsAreKnown
  <2> QED BY <1>1, <1>7, <2>1 DEF DraftInv, WriterKeepsOrder
<1>15. OneReapplies'
  <2>1. OneReapplies
    BY DEF DraftInv
  <2> QED BY <1>2, <1>5, <1>9, <2>1 DEF OneReapplies
<1> QED BY <1>10, <1>11, <1>12, <1>13, <1>14, <1>15 DEF DraftInv

-----------------------------------------------------------------------------
(* The writer's thread *)

\* The thread goes on with its batch, or is done with it; batches may change, as
\* long as they hold.
LEMMA ThreadMoves ==
    ASSUME DraftInv, Grows, nJobs' = nJobs, job' \in [Jobs -> Batch],
           pages' \subseteq Reviews \X Jobs,
           \A j \in Jobs : BatchHolds(j)',
           UNCHANGED <<copies, reapplying, caller>>,
           NEW a \in WriterRow, writer' = a,
           queue' \in Seq(Jobs), \A i \in DOMAIN queue' : queue'[i] <= nJobs,
           a.pc # "idle" => a.job \in Jobs /\ a.job <= nJobs,
           a.pc = "land" => job'[a.job].row # "none",
           a.pc \in {"decide", "apply"} => job'[a.job].out = "result",
           state' \in [Cands -> {"proposed", "fenced", "settled"}], busy' \in 0..MaxJobs,
           decider' \in [Cands -> 0..MaxJobs],
           \A c \in Cands : decider'[c] = decider[c] \/ decider'[c] = writer.ap.of.from,
           sticky' \in DraftDecision, disk' \in DraftDecision,
           \A j \in {sticky'.from, disk'.from, a.ap.of.from} :
              j \in DecidedBy \/ j = 0 \/ HasLanded(j)
    PROVE  DraftInv'
<1>1. DraftShape'
  BY DEF DraftInv, DraftShape
<1>2. JobsAreKnown'
  BY DEF DraftInv, JobsAreKnown
<1>3. DecisionsHaveLanded'
  <2> SUFFICES ASSUME NEW j \in DecidedBy' PROVE j \in DecidedBy \/ j = 0 \/ HasLanded(j)
    BY DecisionsStand
  <2>1. CASE \E c \in Cands : j = decider'[c]
    BY <2>1 DEF DecidedBy
  <2>2. CASE \E l \in Callers : j = caller[l].ap.of.from
    BY <2>2 DEF DecidedBy
  <2>3. CASE j \in {sticky'.from, disk'.from, a.ap.of.from}
    BY <2>3
  <2> QED BY <2>1, <2>2, <2>3 DEF DecidedBy
<1>4. WriterKeepsOrder' /\ OneReapplies'
  BY DEF DraftInv, WriterKeepsOrder, OneReapplies
<1> QED BY <1>1, <1>2, <1>3, <1>4 DEF DraftInv

LEMMA ThreadKnows ==
    ASSUME DraftInv
    PROVE  /\ JobsAreKnown /\ WriterKeepsOrder /\ \A j \in Jobs : BatchHolds(j)
           /\ queue \in Seq(Jobs) /\ \A i \in DOMAIN queue : queue[i] <= nJobs
           /\ pages \subseteq Reviews \X Jobs
           /\ busy' = (IF busy = writer.job THEN 0 ELSE busy) => busy' \in 0..MaxJobs
BY Shapes DEF DraftInv, JobsAreKnown, DraftShape

\* Take: the oldest batch.
LEMMA TakeKeeps == ASSUME DraftInv, Take PROVE DraftInv'
<1> DEFINE j == Head(queue)
           a == [Thread EXCEPT !.pc = "ledger", !.job = j]
<1>1. /\ UNCHANGED <<copies, nJobs, reapplying, caller, state, pages, job, busy, sticky, disk>>
      /\ UNCHANGED decider /\ writer' = a /\ queue' = Tail(queue) /\ queue # <<>>
  BY DEF Take, Writing
<1>2. queue \in Seq(Jobs) /\ \A i \in DOMAIN queue : queue[i] <= nJobs
  BY ThreadKnows
<1>3. /\ j \in Jobs /\ j <= nJobs /\ queue' \in Seq(Jobs)
      /\ \A i \in DOMAIN queue' : queue'[i] <= nJobs
  <2>1. queue[1] \in Jobs /\ queue[1] <= nJobs /\ j = queue[1]
    BY <1>1, <1>2
  <2>2. queue' \in Seq(Jobs) /\ Len(queue) \in Nat /\ DOMAIN queue = 1..Len(queue)
        /\ DOMAIN queue' = 1..Len(queue) - 1
        /\ \A i \in DOMAIN queue' : queue'[i] = queue[i + 1]
    BY <1>1, <1>2
  <2>3. \A i \in DOMAIN queue' : i + 1 \in DOMAIN queue
    BY <2>2
  <2> QED BY <1>2, <2>1, <2>2, <2>3
<1>4. a \in WriterRow /\ a.pc = "ledger" /\ a.job = j /\ a.ap.of.from = 0
  <2>1. j \in 0..MaxJobs
    BY <1>3, DraftAssumption DEF Jobs
  <2> QED BY <2>1, Defaults DEF WriterRow
<1>5. SameBatches
  BY <1>1, Shapes
<1>6. job' \in [Jobs -> Batch] /\ pages' \subseteq Reviews \X Jobs
  BY <1>1, Shapes, ThreadKnows
<1> HIDE DEF a, j
<1> QED BY <1>1, <1>3, <1>4, <1>5, <1>6, Shapes, BatchesStand, ThreadMoves

\* One batch is rewritten, with its decision as it was.
LEMMA BatchRewritten ==
    ASSUME DraftInv, NEW j \in Jobs, NEW b \in Batch, job' = [job EXCEPT ![j] = b],
           b.of = job[j].of, UNCHANGED nJobs, pages \subseteq pages',
           b.row = "none" => job[j].row = "none",
           b.out = "result" \/ b.row = "written" => HasLanded(j),
           \A p \in pages' \ pages : b.row # "none" /\ p[2] = j
    PROVE  /\ Grows /\ job' \in [Jobs -> Batch] /\ job'[j] = b
           /\ \A i \in Jobs : BatchHolds(i)'
<1>1. job' \in [Jobs -> Batch] /\ job'[j] = b /\ \A i \in Jobs : i # j => job'[i] = job[i]
  BY Shapes
<1>2. Grows
  BY <1>1, Shapes DEF Grows
<1>3. ASSUME NEW i \in Jobs PROVE BatchHolds(i)'
  <2>1. BatchHolds(i) /\ (HasLanded(i) => HasLanded(i)')
    BY <1>2, LandedStays DEF DraftInv
  <2>2. CASE i = j
    BY <1>1, <2>1, <2>2 DEF BatchHolds
  <2>3. CASE i # j
    BY <1>1, <2>1, <2>3 DEF BatchHolds
  <2> QED BY <2>2, <2>3
<1> QED BY <1>1, <1>2, <1>3

\* CommitRow: the row is there before any page.
LEMMA CommitRowKeeps == ASSUME DraftInv, CommitRow PROVE DraftInv'
<1> DEFINE j == writer.job
           b == [job[j] EXCEPT !.row = "pending"]
           a == [writer EXCEPT !.pc = "land"]
<1>1. /\ UNCHANGED <<copies, nJobs, reapplying, caller, state, pages, busy, sticky, disk>>
      /\ UNCHANGED <<decider, queue>> /\ job' = [job EXCEPT ![j].row = "pending"]
      /\ writer' = a /\ writer.pc = "ledger"
  BY DEF CommitRow, Writing
<1>2. j \in Jobs /\ j <= nJobs /\ writer \in WriterRow /\ job[j] \in Batch /\ BatchHolds(j)
  BY <1>1, ThreadKnows, Shapes DEF JobsAreKnown
<1>3. b \in Batch /\ b.of = job[j].of /\ b.row = "pending" /\ b.out = job[j].out
  BY <1>2 DEF Batch
<1>4. a \in WriterRow /\ a.pc = "land" /\ a.job = j /\ a.ap = writer.ap
  BY <1>2 DEF WriterRow
<1>5. job' = [job EXCEPT ![j] = b]
  BY <1>1, <1>2
<1>6. b.out = "result" \/ b.row = "written" => HasLanded(j)
  BY <1>2, <1>3 DEF BatchHolds
<1> HIDE DEF a, b, j
<1>7. /\ Grows /\ job' \in [Jobs -> Batch] /\ job'[j] = b
      /\ \A i \in Jobs : BatchHolds(i)'
  BY <1>1, <1>2, <1>3, <1>5, <1>6, BatchRewritten
<1> QED BY <1>1, <1>2, <1>3, <1>4, <1>7, Shapes, ThreadKnows, ThreadMoves

\* Land: a page of a batch that has its row.
LEMMA LandKeeps == ASSUME DraftInv, Land PROVE DraftInv'
<1> DEFINE j == writer.job
           left == {c \in Drafts(Decision0) : <<c, j>> \notin pages}
           c == CHOOSE c \in left : TRUE
<1>1. /\ UNCHANGED <<copies, nJobs, reapplying, caller, state, job, busy, sticky, disk>>
      /\ UNCHANGED <<decider, queue, writer>> /\ writer.pc = "land" /\ left # {}
      /\ pages' = pages \cup {<<c, j>>}
  BY DEF Land, Writing
<1>2. /\ j \in Jobs /\ j <= nJobs /\ writer \in WriterRow /\ job[j] \in Batch
      /\ job[j].row # "none" /\ BatchHolds(j)
  BY <1>1, ThreadKnows, Shapes DEF JobsAreKnown, WriterKeepsOrder
<1>3. c \in Reviews
  BY <1>1 DEF Drafts
<1> HIDE DEF c, left, j
<1>4. job' = [job EXCEPT ![j] = job[j]]
  BY <1>1, <1>2, Shapes
<1>5. job[j].out = "result" \/ job[j].row = "written" => HasLanded(j)
  BY <1>2 DEF BatchHolds
<1>6. /\ Grows /\ job' \in [Jobs -> Batch]
      /\ \A i \in Jobs : BatchHolds(i)'
  <2>1. pages \subseteq pages' /\ \A p \in pages' \ pages : job[j].row # "none" /\ p[2] = j
    BY <1>1, <1>2
  <2> QED BY <1>1, <1>2, <1>4, <1>5, <2>1, BatchRewritten
<1>7. pages' \subseteq Reviews \X Jobs
  BY <1>1, <1>2, <1>3, ThreadKnows
<1>8. /\ writer.pc \notin {"decide", "apply"}
      /\ writer.pc = "land" => job'[writer.job].row # "none"
  BY <1>1, <1>2 DEF j
<1> QED BY <1>1, <1>2, <1>6, <1>7, <1>8, Shapes, ThreadKnows, ThreadMoves DEF j

\* FlipRow: every draft of the batch is a page.
LEMMA FlipRowKeeps == ASSUME DraftInv, FlipRow PROVE DraftInv'
<1> DEFINE j == writer.job
           b == [job[j] EXCEPT !.row = "written", !.out = "result"]
           a == [writer EXCEPT !.pc = "decide"]
<1>1. /\ UNCHANGED <<copies, nJobs, reapplying, caller, state, pages, busy, sticky, disk>>
      /\ UNCHANGED <<decider, queue>>
      /\ job' = [job EXCEPT ![j].row = "written", ![j].out = "result"]
      /\ writer' = a /\ writer.pc = "land"
      /\ \A c \in Drafts(job[j].of) : <<c, j>> \in pages
  BY DEF FlipRow, Writing, Decision0
<1>2. j \in Jobs /\ j <= nJobs /\ writer \in WriterRow /\ job[j] \in Batch
  BY <1>1, ThreadKnows, Shapes DEF JobsAreKnown
<1>3. b \in Batch /\ b.of = job[j].of /\ b.row = "written" /\ b.out = "result"
  BY <1>2 DEF Batch
<1>4. a \in WriterRow /\ a.pc = "decide" /\ a.job = j /\ a.ap = writer.ap
  BY <1>2 DEF WriterRow
<1>5. job' = [job EXCEPT ![j] = b]
  BY <1>1, <1>2, Shapes
<1>6. HasLanded(j)
  BY <1>1, <1>2 DEF HasLanded
<1> HIDE DEF a, b, j
<1>7. /\ Grows /\ job' \in [Jobs -> Batch] /\ job'[j] = b
      /\ \A i \in Jobs : BatchHolds(i)'
  BY <1>1, <1>2, <1>3, <1>5, <1>6, BatchRewritten
<1> QED BY <1>1, <1>2, <1>3, <1>4, <1>7, Shapes, ThreadKnows, ThreadMoves

\* WriteFails: the batch has no result, and nobody decides by it.
LEMMA WriteFailsKeeps == ASSUME DraftInv, WriteFails PROVE DraftInv'
<1> DEFINE j == writer.job
           b == [job[j] EXCEPT !.out = "error"]
<1>1. /\ UNCHANGED <<copies, nJobs, reapplying, caller, state, pages, sticky, disk>>
      /\ UNCHANGED <<decider, queue>> /\ job' = [job EXCEPT ![j].out = "error"]
      /\ writer' = Thread /\ writer.pc \in {"ledger", "land"}
      /\ busy' = IF busy = writer.job THEN 0 ELSE busy
  BY DEF WriteFails, Writing, EventSet
<1>2. j \in Jobs /\ j <= nJobs /\ job[j] \in Batch /\ BatchHolds(j)
  BY <1>1, ThreadKnows, Shapes DEF JobsAreKnown
<1>3. b \in Batch /\ b.of = job[j].of /\ b.row = job[j].row /\ b.out = "error"
  BY <1>2 DEF Batch
<1>4. Thread \in WriterRow /\ Thread.pc = "idle" /\ Thread.ap.of.from = 0
  BY Defaults
<1>5. job' = [job EXCEPT ![j] = b]
  BY <1>1, <1>2
<1>6. b.row = "written" => HasLanded(j)
  BY <1>2, <1>3 DEF BatchHolds
<1> HIDE DEF b, j
<1>7. /\ Grows /\ job' \in [Jobs -> Batch]
      /\ \A i \in Jobs : BatchHolds(i)'
  BY <1>1, <1>2, <1>3, <1>5, <1>6, BatchRewritten
<1> QED BY <1>1, <1>4, <1>7, Shapes, ThreadKnows, ThreadMoves

\* The thread is done with the batch: a decision that was not applied in full is
\* kept, with the drafts it explains.
LEMMA ThreadEnds ==
    ASSUME DraftInv, writer' = Thread, UNCHANGED <<copies, reapplying, caller, nJobs, pages>>,
           UNCHANGED <<job, queue, state, decider>>, busy' \in 0..MaxJobs,
           sticky' \in {sticky, None, Decision0}, disk' \in {disk, None, Decision0},
           writer.pc \in {"decide", "apply"}
    PROVE  DraftInv'
<1> DEFINE j == writer.job
           d == job[j].of
<1>1. j \in Jobs /\ j <= nJobs /\ job[j] \in Batch /\ BatchHolds(j) /\ job[j].out = "result"
  BY ThreadKnows, Shapes DEF JobsAreKnown, WriterKeepsOrder
<1>2. d \in DraftDecision /\ d.from = j /\ HasLanded(j)
  BY <1>1 DEF Batch, BatchHolds
<1>3. Thread \in WriterRow /\ Thread.pc = "idle" /\ Thread.ap.of.from = 0
  BY Defaults
<1>4. SameBatches /\ job' \in [Jobs -> Batch]
  BY Shapes
<1>5. sticky' \in {sticky, None, d} /\ disk' \in {disk, None, d}
  BY DEF Decision0
<1> HIDE DEF d, j
<1>6. /\ sticky' \in DraftDecision /\ disk' \in DraftDecision
      /\ \A i \in {sticky'.from, disk'.from, Thread.ap.of.from} :
            i \in DecidedBy \/ i = 0 \/ HasLanded(i)
  BY <1>2, <1>3, <1>5, Shapes
<1> QED BY <1>3, <1>4, <1>6, Shapes, ThreadKnows, BatchesStand, ThreadMoves

\* LeaveToWaiter, WriterApplied, WriterHolds.
LEMMA ThreadEndsKeeps ==
    ASSUME DraftInv, LeaveToWaiter \/ WriterApplied \/ WriterHolds PROVE DraftInv'
<1>1. /\ writer' = Thread /\ UNCHANGED <<copies, reapplying, caller, nJobs, pages>>
      /\ UNCHANGED <<job, queue, state, decider>> /\ writer.pc \in {"decide", "apply"}
      /\ busy' = busy \/ busy' = IF busy = writer.job THEN 0 ELSE busy
      /\ sticky' \in {sticky, None, Decision0} /\ disk' \in {disk, None, Decision0}
  BY DEF LeaveToWaiter, WriterApplied, WriterHolds, Writing, EventSet, Persist
<1>2. busy' \in 0..MaxJobs
  BY <1>1, Shapes
<1> QED BY <1>1, <1>2, ThreadEnds

\* TakeOver: the decision of a batch whose drafts are pages.
LEMMA TakeOverKeeps == ASSUME DraftInv, TakeOver PROVE DraftInv'
<1> DEFINE j == writer.job
           d == job[j].of
           a == [writer EXCEPT !.pc = "apply", !.ap = Apply(d)]
<1>1. /\ UNCHANGED <<copies, nJobs, reapplying, caller, state, pages, job, queue, busy>>
      /\ UNCHANGED <<sticky, disk, decider>> /\ writer' = a /\ writer.pc = "decide"
  BY DEF TakeOver, Writing, Decision0
<1>2. /\ j \in Jobs /\ j <= nJobs /\ job[j] \in Batch /\ BatchHolds(j)
      /\ job[j].out = "result" /\ writer \in WriterRow
  BY <1>1, ThreadKnows, Shapes DEF JobsAreKnown, WriterKeepsOrder
<1>3. d \in DraftDecision /\ d.from = j /\ HasLanded(j)
  BY <1>2 DEF Batch, BatchHolds
<1>4. Apply(d) \in ApplyRun /\ Apply(d).of = d
  BY <1>3, ApplyFits
<1>5. a \in WriterRow /\ a.pc = "apply" /\ a.job = j /\ a.ap.of = d
  BY <1>2, <1>4 DEF WriterRow
<1>6. a.ap.of.from = j
  BY <1>3, <1>5
<1> HIDE DEF a, d, j
<1>7. SameBatches /\ job' \in [Jobs -> Batch] /\ job'[j].out = "result"
  BY <1>1, <1>2, Shapes
<1>8. \A i \in {sticky'.from, disk'.from, a.ap.of.from} :
         i \in DecidedBy \/ i = 0 \/ HasLanded(i)
  BY <1>1, <1>3, <1>6, Shapes
<1> QED BY <1>1, <1>2, <1>5, <1>7, <1>8, Shapes, ThreadKnows, BatchesStand, ThreadMoves

\* WriterSettles: one candidate of that decision.
LEMMA WriterSettlesKeeps == ASSUME DraftInv, WriterSettles PROVE DraftInv'
<1> DEFINE ap == writer.ap
<1>1. PICK fails \in BOOLEAN :
         /\ SettleNext(ap, fails)
         /\ writer' = [writer EXCEPT !.ap = Report(ap, fails)]
  BY DEF WriterSettles
<1> DEFINE a == [writer EXCEPT !.ap = Report(ap, fails)]
<1>2. writer \in WriterRow /\ ap \in ApplyRun /\ ap.of.from \in DecidedBy
  BY Shapes DEF WriterRow
<1>3. /\ state' \in [Cands -> {"proposed", "fenced", "settled"}]
      /\ decider' \in [Cands -> 0..MaxJobs]
      /\ \A c \in Cands : decider'[c] = decider[c] \/ decider'[c] = ap.of.from
      /\ Report(ap, fails) \in ApplyRun /\ Report(ap, fails).of = ap.of
  BY <1>1, <1>2, SettleFits
<1>4. a \in WriterRow /\ a.pc = writer.pc /\ a.job = writer.job /\ a.ap.of = ap.of
  BY <1>2, <1>3 DEF WriterRow
<1>5. /\ UNCHANGED <<copies, pages, job, nJobs, queue, busy, sticky, disk>>
      /\ UNCHANGED <<reapplying, caller>> /\ writer.pc = "apply" /\ writer' = a
  BY <1>1 DEF WriterSettles, Writing
<1>6. writer.job \in Jobs /\ writer.job <= nJobs /\ job[writer.job].out = "result"
  BY <1>5, ThreadKnows DEF JobsAreKnown, WriterKeepsOrder
<1> HIDE DEF a
<1>7. SameBatches /\ job' \in [Jobs -> Batch]
  BY <1>5, Shapes
<1>8. \A i \in {sticky'.from, disk'.from, a.ap.of.from} : i \in DecidedBy
  BY <1>2, <1>4, <1>5, Shapes
<1> QED BY <1>3, <1>4, <1>5, <1>6, <1>7, <1>8, Shapes, ThreadKnows, BatchesStand, ThreadMoves

\* DaemonRestarts: what is forgotten was not yet decided, and the sidecar is of
\* a batch that landed.
LEMMA DaemonRestartsKeeps == ASSUME DraftInv, DaemonRestarts PROVE DraftInv'
<1>1. /\ queue' = <<>> /\ busy' = 0 /\ sticky' = None /\ reapplying' = FALSE
      /\ caller' = [k \in Callers |-> Idle] /\ writer' = Thread
      /\ UNCHANGED <<state, copies, pages, job, nJobs, disk, decider>>
  BY DEF DaemonRestarts
<1>2. SameBatches /\ queue' \in Seq(Jobs) /\ DOMAIN queue' = {}
  BY <1>1, Shapes
<1>3. Grows /\ \A j \in Jobs : BatchHolds(j)'
  BY <1>2, BatchesStand
<1>4. DraftShape'
  BY <1>1, Defaults, DraftAssumption DEF DraftInv, DraftShape
<1>5. JobsAreKnown' /\ WriterKeepsOrder' /\ OneReapplies'
  BY <1>1, <1>2, Defaults DEF JobsAreKnown, WriterKeepsOrder, OneReapplies
<1>6. DecisionsHaveLanded'
  <2> SUFFICES ASSUME NEW j \in DecidedBy' PROVE j \in DecidedBy \/ j = 0 \/ HasLanded(j)
    BY <1>3, DecisionsStand
  <2> QED BY <1>1, Defaults DEF DecidedBy
<1> QED BY <1>3, <1>4, <1>5, <1>6 DEF DraftInv

\* Supersede, Status, and nothing.
LEMMA DraftWorldKeeps ==
    ASSUME DraftInv, Supersede \/ Status \/ UNCHANGED draftVars PROVE DraftInv'
<1>1. /\ UNCHANGED <<state, pages, job, nJobs, queue, busy, disk, reapplying, caller>>
      /\ UNCHANGED <<writer, decider>> /\ sticky' \in {sticky, disk} /\ copies' \in {copies, {}}
  BY Shapes DEF Supersede, Status, draftVars
<1>2. SameBatches
  BY <1>1, Shapes
<1>3. Grows /\ \A j \in Jobs : BatchHolds(j)'
  BY <1>2, BatchesStand
<1>4. DraftShape'
  BY <1>1 DEF DraftInv, DraftShape
<1>5. JobsAreKnown' /\ WriterKeepsOrder' /\ OneReapplies'
  BY <1>1 DEF DraftInv, JobsAreKnown, WriterKeepsOrder, OneReapplies
<1>6. DecisionsHaveLanded'
  <2> SUFFICES ASSUME NEW j \in DecidedBy' PROVE j \in DecidedBy \/ j = 0 \/ HasLanded(j)
    BY <1>3, DecisionsStand
  <2> QED BY <1>1 DEF DecidedBy
<1> QED BY <1>3, <1>4, <1>5, <1>6 DEF DraftInv

LEMMA DraftInitInv == DraftInit => DraftInv
<1> SUFFICES ASSUME DraftInit PROVE DraftInv
  OBVIOUS
<1>1. DraftShape
  BY Defaults, DraftAssumption DEF DraftInit, DraftShape
<1>2. JobsAreKnown /\ WriterKeepsOrder /\ OneReapplies
  <2>1. queue \in Seq(Jobs) /\ DOMAIN queue = {}
    BY DEF DraftInit
  <2> QED BY <2>1, Defaults DEF DraftInit, JobsAreKnown, WriterKeepsOrder, OneReapplies
<1>3. DecisionsHaveLanded
  <2>1. DecidedBy \subseteq {0}
    BY Defaults DEF DraftInit, DecidedBy
  <2> QED BY <2>1 DEF DecisionsHaveLanded, HasLanded
<1>4. ASSUME NEW j \in Jobs PROVE BatchHolds(j)
  <2>1. j > nJobs
    BY DraftAssumption DEF DraftInit, Jobs
  <2> QED BY <2>1, Defaults, DraftAssumption DEF DraftInit, BatchHolds, Jobs
<1> QED BY <1>1, <1>2, <1>3, <1>4 DEF DraftInv

LEMMA DraftStep == DraftInv /\ [DraftNext]_draftVars => DraftInv'
<1> SUFFICES ASSUME DraftInv, [DraftNext]_draftVars PROVE DraftInv'
  OBVIOUS
<1>1. ASSUME NEW k \in Callers, Select(k) \/ SubmitFails(k) \/ CallerGoesOn(k)
      PROVE  DraftInv'
  BY <1>1, SelectKeeps, TurnedAwayKeeps, ClaimKeeps, EnqueueKeeps, WaitEndsKeeps,
     CallerSettlesKeeps, ReapplyEndsKeeps DEF CallerGoesOn
<1>2. CASE WriterGoesOn \/ WriteFails
  BY <1>2, TakeKeeps, CommitRowKeeps, LandKeeps, FlipRowKeeps, ThreadEndsKeeps,
     TakeOverKeeps, WriterSettlesKeeps, WriteFailsKeeps DEF WriterGoesOn
<1>3. CASE Supersede \/ DaemonRestarts \/ Status \/ UNCHANGED draftVars
  BY <1>3, DraftWorldKeeps, DaemonRestartsKeeps
<1> QED BY <1>1, <1>2, <1>3 DEF DraftNext

\* DraftTypeOK: the batches, the pending decision and the threads keep their
\* shape, and the claim of a pending decision has one holder.
THEOREM DraftTypes == DraftSpec => []DraftTypeOK
<1>1. DraftInv => DraftTypeOK
  <2> SUFFICES ASSUME DraftInv PROVE DraftTypeOK
    OBVIOUS
  <2>1. \A i \in DOMAIN queue : queue[i] \in Jobs
    BY DEF DraftInv, JobsAreKnown
  <2>2. \A j \in Jobs : /\ job[j].of \in DraftDecision
                        /\ job[j].out \in {"none", "result", "error"}
                        /\ job[j].row \in {"none", "pending", "written"}
    BY DEF DraftInv, DraftShape, Batch
  <2> QED BY <2>1, <2>2 DEF DraftInv, DraftShape, OneReapplies, DraftTypeOK
<1> QED BY DraftInitInv, DraftStep, <1>1, PTL DEF DraftSpec

\* DecisionsAreExplained (_process_batch, submit_drafts, apply_consolidation_result):
\* no candidate is promoted, rejected or fenced by a decision whose review drafts are
\* not all in the vault, whoever applied it, and the inbox ledger knows of every page
\* and calls only those written that are, for any number of candidates, overlapping
\* compiles, batches, timeouts, failed writes and restarts.
THEOREM DraftsExplainDecisions == DraftSpec => []DecisionsAreExplained
<1>1. DraftInv => DecisionsAreExplained
  <2> SUFFICES ASSUME DraftInv PROVE DecisionsAreExplained
    OBVIOUS
  <2>1. ASSUME NEW c \in Cands, decider[c] # 0, NEW d \in Drafts(job[decider[c]].of)
        PROVE  <<d, decider[c]>> \in pages
    <3>1. HasLanded(decider[c])
      BY DEF DraftInv, DecisionsHaveLanded, DecidedBy
    <3> QED BY <2>1, <3>1 DEF HasLanded
  <2>2. ASSUME NEW j \in Jobs
        PROVE  /\ job[j].row = "none" => \A p \in pages : p[2] # j
               /\ job[j].row = "written" => \A d \in Drafts(job[j].of) : <<d, j>> \in pages
    <3>1. BatchHolds(j)
      BY DEF DraftInv
    <3> QED BY <3>1 DEF BatchHolds, HasLanded, Jobs
  <2> QED BY <2>1, <2>2 DEF DecisionsAreExplained
<1> QED BY DraftInitInv, DraftStep, <1>1, PTL DEF DraftSpec

-----------------------------------------------------------------------------
(* Draft pages *)

Statuses == {"none", "draft", "expired"} \cup Verdicts
File == [status : Statuses, past : BOOLEAN]
Hand == [pc : {"idle", "found", "locked", "answered"}, page : File,
         says : {"none", "expired"} \cup Verdicts]

\* A run or call in the page's lock has read a decision that was made, if one was:
\* only the lock's holder rewrites the page, and people do not decide by hand.
HandHolds(h, d) ==
    /\ hand[h][d].pc = "locked" =>
          /\ pageLock[d] = h
          /\ page[d].status \notin {"none", "draft"} =>
                hand[h][d].page.status = page[d].status

PagesInv ==
    /\ page \in [DraftFiles -> File] /\ pageLock \in [DraftFiles -> Hands \cup {Unlocked}]
    /\ hand \in [Hands -> [DraftFiles -> Hand]] /\ handEdits \in 0..MaxHandEdits
    /\ \A h \in Hands, d \in DraftFiles : HandHolds(h, d)

DecidedOnce == \A d \in DraftFiles : page[d].status \notin {"none", "draft"}
                  => page'[d].status \in {page[d].status, "none"}

LEMMA PagesInit == DraftPagesInit => PagesInv
<1> SUFFICES ASSUME DraftPagesInit PROVE PagesInv
  OBVIOUS
<1>1. Gone \in File /\ Free \in Hand /\ Free.pc = "idle"
  BY DEF Gone, File, Statuses, Free, Hand
<1>2. 0 \in 0..MaxHandEdits
  BY DraftPagesAssumption
<1>3. \A h \in Hands, d \in DraftFiles : HandHolds(h, d)
  BY <1>1 DEF DraftPagesInit, HandHolds
<1> QED BY <1>1, <1>2, <1>3 DEF DraftPagesInit, PagesInv

\* One run or call moves at one page.
LEMMA HandMoves ==
    ASSUME PagesInv, NEW h \in Hands, NEW d \in DraftFiles, NEW to \in Hand, Moves(h, d, to)
    PROVE  /\ hand' \in [Hands -> [DraftFiles -> Hand]] /\ hand'[h][d] = to
           /\ \A g \in Hands, e \in DraftFiles : g # h \/ e # d => hand'[g][e] = hand[g][e]
<1>1. hand \in [Hands -> [DraftFiles -> Hand]]
  BY DEF PagesInv
<1>2. hand' = [hand EXCEPT ![h] = [hand[h] EXCEPT ![d] = to]]
  BY <1>1 DEF Moves
<1>3. [hand[h] EXCEPT ![d] = to] \in [DraftFiles -> Hand]
  BY <1>1
<1> QED BY <1>1, <1>2, <1>3

\* A page changes while nobody holds its lock, or in ways that decide nothing.
LEMMA PageChanges ==
    ASSUME PagesInv, NEW d \in DraftFiles, NEW p \in File, page' = [page EXCEPT ![d] = p],
           UNCHANGED <<pageLock, hand>>, handEdits' \in 0..MaxHandEdits,
           p.status \in {page[d].status, "none", "draft"},
           page[d].status \notin {"none", "draft"} => p.status # "draft"
    PROVE  PagesInv' /\ DecidedOnce
<1>1. /\ page' \in [DraftFiles -> File] /\ page'[d] = p
      /\ \A e \in DraftFiles : e # d => page'[e] = page[e]
  BY DEF PagesInv
<1>2. ASSUME NEW h \in Hands, NEW e \in DraftFiles PROVE HandHolds(h, e)'
  <2>1. HandHolds(h, e)
    BY DEF PagesInv
  <2>2. page'[e].status \notin {"none", "draft"} => page'[e].status = page[e].status
    BY <1>1
  <2> QED BY <2>1, <2>2 DEF HandHolds
<1>3. DecidedOnce
  BY <1>1 DEF DecidedOnce
<1> QED BY <1>1, <1>2, <1>3 DEF PagesInv

LEMMA DraftPagesStep ==
    ASSUME PagesInv, [DraftPagesNext]_draftPageVars
    PROVE  PagesInv' /\ DecidedOnce
<1>1. /\ page \in [DraftFiles -> File] /\ pageLock \in [DraftFiles -> Hands \cup {Unlocked}]
      /\ hand \in [Hands -> [DraftFiles -> Hand]] /\ handEdits \in 0..MaxHandEdits
  BY DEF PagesInv
<1>2. ASSUME NEW d \in DraftFiles, WriteDraft(d) PROVE PagesInv' /\ DecidedOnce
  <2> DEFINE p == [status |-> "draft", past |-> FALSE]
  <2>1. p \in File /\ p.status = "draft" /\ page[d].status = "none"
    BY <1>2 DEF File, Statuses, WriteDraft
  <2>2. page' = [page EXCEPT ![d] = p] /\ UNCHANGED <<pageLock, hand, handEdits>>
    BY <1>2 DEF WriteDraft
  <2> HIDE DEF p
  <2> QED BY <1>1, <2>1, <2>2, PageChanges
<1>3. ASSUME NEW d \in DraftFiles, DatePasses(d) PROVE PagesInv' /\ DecidedOnce
  <2> DEFINE p == [page[d] EXCEPT !.past = TRUE]
  <2>1. page[d] \in File
    BY <1>1
  <2>2. p \in File /\ p.status = page[d].status
    BY <2>1 DEF File
  <2>3. page' = [page EXCEPT ![d] = p] /\ UNCHANGED <<pageLock, hand, handEdits>>
    BY <1>1, <1>3 DEF DatePasses
  <2> HIDE DEF p
  <2> QED BY <1>1, <2>2, <2>3, PageChanges
<1>4. ASSUME NEW d \in DraftFiles, EditByHand(d) PROVE PagesInv' /\ DecidedOnce
  <2>1. handEdits' \in 0..MaxHandEdits /\ UNCHANGED <<pageLock, hand>>
    BY <1>1, <1>4, DraftPagesAssumption DEF EditByHand
  <2>2. CASE page[d].status = "draft" /\ page' = [page EXCEPT ![d].past = FALSE]
    <3> DEFINE p == [page[d] EXCEPT !.past = FALSE]
    <3>1. page[d] \in File
      BY <1>1
    <3>2. p \in File /\ p.status = page[d].status
      BY <3>1 DEF File
    <3>3. page' = [page EXCEPT ![d] = p]
      BY <1>1, <2>2
    <3> HIDE DEF p
    <3> QED BY <2>1, <3>2, <3>3, PageChanges
  <2>3. CASE page' = [page EXCEPT ![d] = Gone]
    <3>1. Gone \in File /\ Gone.status = "none"
      BY DEF Gone, File, Statuses
    <3> QED BY <2>1, <2>3, <3>1, PageChanges
  <2> QED BY <1>4, <2>2, <2>3 DEF EditByHand
<1>5. ASSUME NEW d \in DraftFiles, NEW h \in Hands, NEW s \in Verdicts \cup {"expired"},
             Find(h, d, s)
      PROVE  PagesInv' /\ DecidedOnce
  <2> DEFINE to == [Free EXCEPT !.pc = "found", !.says = s]
  <2>1. to \in Hand /\ to.pc = "found"
    BY DEF Free, Gone, Hand, File, Statuses
  <2>2. Moves(h, d, to) /\ UNCHANGED <<page, pageLock, handEdits>>
    BY <1>5 DEF Find
  <2> HIDE DEF to
  <2>3. /\ hand' \in [Hands -> [DraftFiles -> Hand]] /\ hand'[h][d] = to
        /\ \A g \in Hands, e \in DraftFiles : g # h \/ e # d => hand'[g][e] = hand[g][e]
    BY <2>1, <2>2, HandMoves
  <2>4. \A g \in Hands, e \in DraftFiles : HandHolds(g, e)'
    BY <2>1, <2>2, <2>3 DEF PagesInv, HandHolds
  <2> QED BY <1>1, <2>2, <2>3, <2>4 DEF PagesInv, DecidedOnce
<1>6. ASSUME NEW d \in DraftFiles, NEW h \in Hands, ReadAgain(h, d)
      PROVE  PagesInv' /\ DecidedOnce
  <2> DEFINE to == [hand[h][d] EXCEPT !.pc = "locked", !.page = page[d]]
  <2>1. hand[h][d] \in Hand /\ page[d] \in File
    BY <1>1
  <2>2. to \in Hand /\ to.pc = "locked" /\ to.page = page[d]
    BY <2>1 DEF Hand
  <2>3. /\ Moves(h, d, to) /\ UNCHANGED <<page, handEdits>> /\ pageLock[d] = Unlocked
        /\ pageLock' = [pageLock EXCEPT ![d] = h]
    BY <1>6 DEF ReadAgain
  <2> HIDE DEF to
  <2>4. /\ hand' \in [Hands -> [DraftFiles -> Hand]] /\ hand'[h][d] = to
        /\ \A g \in Hands, e \in DraftFiles : g # h \/ e # d => hand'[g][e] = hand[g][e]
    BY <2>2, <2>3, HandMoves
  <2>5. /\ pageLock' \in [DraftFiles -> Hands \cup {Unlocked}] /\ pageLock'[d] = h
        /\ \A e \in DraftFiles : e # d => pageLock'[e] = pageLock[e]
    BY <1>1, <2>3
  <2>6. ASSUME NEW g \in Hands, NEW e \in DraftFiles PROVE HandHolds(g, e)'
    <3>1. HandHolds(g, e)
      BY DEF PagesInv
    <3>2. CASE g = h /\ e = d
      BY <2>2, <2>3, <2>4, <2>5, <3>2 DEF HandHolds
    <3>3. CASE g # h /\ e = d
      <4>1. hand[g][d].pc # "locked"
        BY <2>3, <3>1, <3>3, DraftPagesAssumption DEF HandHolds, Hands
      <4> QED BY <2>4, <3>3, <4>1 DEF HandHolds
    <3>4. CASE e # d
      BY <2>3, <2>4, <2>5, <3>1, <3>4 DEF HandHolds
    <3> QED BY <3>2, <3>3, <3>4
  <2> QED BY <1>1, <2>3, <2>4, <2>5, <2>6 DEF PagesInv, DecidedOnce
<1>7. ASSUME NEW d \in DraftFiles, NEW h \in Hands, hand[h][d].pc = "locked",
             NEW to \in Hand, Moves(h, d, to), to.pc # "locked",
             pageLock' = [pageLock EXCEPT ![d] = Unlocked], UNCHANGED handEdits,
             page' \in [DraftFiles -> File],
             \A e \in DraftFiles : e # d => page'[e] = page[e],
             page[d].status \notin {"none", "draft"} => page'[d].status = page[d].status
      PROVE  PagesInv' /\ DecidedOnce
  <2>1. /\ hand' \in [Hands -> [DraftFiles -> Hand]] /\ hand'[h][d] = to
        /\ \A g \in Hands, e \in DraftFiles : g # h \/ e # d => hand'[g][e] = hand[g][e]
    BY <1>7, HandMoves
  <2>2. /\ pageLock' \in [DraftFiles -> Hands \cup {Unlocked}]
        /\ \A e \in DraftFiles : e # d => pageLock'[e] = pageLock[e]
    BY <1>1, <1>7
  <2>3. ASSUME NEW g \in Hands, NEW e \in DraftFiles PROVE HandHolds(g, e)'
    <3>1. HandHolds(g, e) /\ HandHolds(h, d)
      BY DEF PagesInv
    <3>2. CASE e = d
      <4>1. g # h => hand[g][d].pc # "locked"
        BY <1>7, <3>1, <3>2 DEF HandHolds
      <4>2. hand'[g][d].pc # "locked"
        BY <1>7, <2>1, <4>1
      <4> QED BY <3>2, <4>2 DEF HandHolds
    <3>3. CASE e # d
      BY <1>7, <2>1, <2>2, <3>1, <3>3 DEF HandHolds
    <3> QED BY <3>2, <3>3
  <2>4. DecidedOnce
    BY <1>7 DEF DecidedOnce
  <2> QED BY <1>1, <1>7, <2>1, <2>2, <2>3, <2>4 DEF PagesInv
<1>8. ASSUME NEW d \in DraftFiles, NEW h \in Hands, Rewrite(h, d)
      PROVE  PagesInv' /\ DecidedOnce
  <2> DEFINE p == [hand[h][d].page EXCEPT !.status = hand[h][d].says]
             to == [hand[h][d] EXCEPT !.pc = "answered"]
  <2>1. /\ hand[h][d].pc = "locked" /\ hand[h][d].page.status = "draft"
        /\ page' = [page EXCEPT ![d] = p] /\ pageLock' = [pageLock EXCEPT ![d] = Unlocked]
        /\ Moves(h, d, to) /\ UNCHANGED handEdits
    BY <1>8 DEF Rewrite, StillStands
  <2>2. hand[h][d] \in Hand
    BY <1>1
  <2>3. to \in Hand /\ to.pc = "answered"
    BY <2>2 DEF Hand
  <2>4. p \in File
    BY <2>2 DEF Hand, File, Statuses
  <2>5. page[d].status \in {"none", "draft"}
    BY <2>1 DEF PagesInv, HandHolds
  <2> HIDE DEF p, to
  <2>6. page' \in [DraftFiles -> File] /\ \A e \in DraftFiles : e # d => page'[e] = page[e]
    BY <1>1, <2>1, <2>4
  <2> QED BY <1>7, <2>1, <2>3, <2>5, <2>6
<1>9. ASSUME NEW d \in DraftFiles, NEW h \in Hands, LeaveAlone(h, d)
      PROVE  PagesInv' /\ DecidedOnce
  <2>1. Free \in Hand /\ Free.pc # "locked"
    BY DEF Free, Gone, Hand, File, Statuses
  <2>2. /\ hand[h][d].pc = "locked" /\ pageLock' = [pageLock EXCEPT ![d] = Unlocked]
        /\ Moves(h, d, Free) /\ UNCHANGED <<page, handEdits>>
    BY <1>9 DEF LeaveAlone
  <2> QED BY <1>1, <1>7, <2>1, <2>2
<1>10. CASE UNCHANGED draftPageVars
  <2>1. UNCHANGED <<page, pageLock, hand, handEdits>>
    BY <1>10 DEF draftPageVars
  <2>2. \A h \in Hands, d \in DraftFiles : HandHolds(h, d)'
    BY <2>1 DEF PagesInv, HandHolds
  <2> QED BY <1>1, <2>1, <2>2 DEF PagesInv, DecidedOnce
<1> QED BY <1>2, <1>3, <1>4, <1>5, <1>6, <1>8, <1>9, <1>10 DEF DraftPagesNext

\* DraftIsDecidedOnce (endorse_draft, _expire_stale_drafts): a page that was accepted,
\* rejected, sent back or expired keeps that status until somebody removes it, for any
\* number of sweeps, operators and edits by hand.
THEOREM DraftsAreDecidedOnce ==
    DraftPagesInit /\ [][DraftPagesNext]_draftPageVars => DraftIsDecidedOnce
<1>1. PagesInv /\ [DraftPagesNext]_draftPageVars => PagesInv' /\ [DecidedOnce]_draftPageVars
  BY DraftPagesStep
<1>2. [DecidedOnce]_draftPageVars =>
         [\A d \in DraftFiles : page[d].status \notin {"none", "draft"}
            => page'[d].status \in {page[d].status, "none"}]_draftPageVars
  BY DEF DecidedOnce
<1> QED BY PagesInit, <1>1, <1>2, PTL DEF DraftIsDecidedOnce

-----------------------------------------------------------------------------
(***************************************************************************)
(* Corrections. Hooks of several sessions read, settle and park the same   *)
(* files, and none knows what the others have read. What makes this safe   *)
(* is that each of them takes from a file only what it shows: whatever is  *)
(* on the disk or is about to be written back, beyond what a hook is       *)
(* showing or will leave, somebody has shown already.                      *)
(***************************************************************************)

HookRows == [pc : {"away", "park", "emit", "settle"}, from : {"inbox", "parked"},
             batch : SUBSET Nat, todo : UNION {[D -> SUBSET Nat] : D \in SUBSET Nat}]

\* The hooks that show or have shown a batch, and settle its files.
Showing == {h \in Hooks : hook[h].pc \in {"emit", "settle"}}
\* Events that have been in an output that was flushed.
Voiced == heard \cup discarded \cup InOutput
\* Where hooks settle files.
Settles == IF injects = "SessionStart" THEN inbox ELSE parked

ReassertTyped ==
    /\ injects \in {"SessionStart", "Stop"}
    /\ hook \in [Hooks -> HookRows]
    /\ nFiles \in 0 .. MaxStash /\ nEvents \in 0 .. MaxEvent /\ rfaults \in 0 .. MaxReassertFaults
    /\ heard \subseteq 1 .. nEvents /\ discarded \subseteq 1 .. nEvents

FilesAreStashed ==
    /\ DOMAIN inbox \subseteq 1 .. nFiles /\ DOMAIN parked \subseteq 1 .. nFiles
    /\ DOMAIN inbox \cap DOMAIN parked = {}
    /\ injects = "SessionStart" => parked = << >>
    /\ \A f \in DOMAIN inbox : inbox[f] \subseteq 1 .. nEvents
    /\ \A f \in DOMAIN parked : parked[f] \subseteq 1 .. nEvents
HooksAreTyped ==
    \A h \in Hooks :
      /\ hook[h].batch \subseteq 1 .. nEvents /\ DOMAIN hook[h].todo \subseteq 1 .. nFiles
      /\ \A f \in DOMAIN hook[h].todo : hook[h].todo[f] \subseteq 1 .. nEvents
HooksAreInPlace ==
    /\ \A h \in Hooks : hook[h].pc = "park" => injects = "Stop"
    /\ \A h \in Showing : hook[h].from = IF injects = "SessionStart" THEN "inbox" ELSE "parked"
    /\ injects = "Stop" => \A h \in Showing : DOMAIN hook[h].todo \cap DOMAIN inbox = {}

\* What a hook takes from a file as it is now it shows, or it was shown before.
TakesWhatItShows ==
    \A h \in Showing : \A f \in DOMAIN hook[h].todo \cap DOMAIN Settles :
      Settles[f] \subseteq hook[h].batch \cup hook[h].todo[f] \cup Voiced
\* So is what it takes from a file that another hook is about to write.
TakesWhatOthersLeave ==
    \A h, k \in Showing : \A f \in DOMAIN hook[h].todo \cap DOMAIN hook[k].todo :
      hook[k].todo[f] \subseteq hook[h].batch \cup hook[h].todo[f] \cup Voiced
\* And a hook brings back nothing that was not shown.
BringsBackWhatWasShown ==
    \A h \in Showing : \A f \in DOMAIN hook[h].todo \cap DOMAIN Settles :
      hook[h].todo[f] \subseteq Settles[f] \cup Voiced

ReassertInv ==
    /\ ReassertTyped /\ FilesAreStashed /\ HooksAreTyped /\ HooksAreInPlace
    /\ TakesWhatItShows /\ TakesWhatOthersLeave /\ BringsBackWhatWasShown
    /\ UnheardIsKept

LEMMA NoHookIsARow == NoHook \in HookRows
<1>1. << >> \in [{} -> SUBSET Nat]
  OBVIOUS
<1>2. << >> \in UNION {[D -> SUBSET Nat] : D \in SUBSET Nat}
  BY <1>1
<1> QED BY <1>2 DEF NoHook, HookRows

LEMMA ReassertHolds0 == ReassertInit => ReassertInv
<1> SUFFICES ASSUME ReassertInit PROVE ReassertInv
  OBVIOUS
<1> USE DEF ReassertInit
<1>1. Showing = {}
  BY DEF Showing, NoHook
<1>2. DOMAIN inbox = {} /\ DOMAIN parked = {}
  OBVIOUS
<1>3. ReassertTyped
  BY ReassertAssumption, NoHookIsARow DEF ReassertTyped
<1>4. FilesAreStashed
  BY <1>2 DEF FilesAreStashed
<1>5. HooksAreTyped
  BY DEF HooksAreTyped, NoHook
<1>6. HooksAreInPlace
  BY <1>1 DEF HooksAreInPlace, NoHook
<1>7. TakesWhatItShows /\ TakesWhatOthersLeave /\ BringsBackWhatWasShown
  BY <1>1 DEF TakesWhatItShows, TakesWhatOthersLeave, BringsBackWhatWasShown
<1>8. UnheardIsKept
  BY DEF UnheardIsKept
<1> QED BY <1>3, <1>4, <1>5, <1>6, <1>7, <1>8 DEF ReassertInv

\* What a hook collects is of the files it reads, and what it settles is the rest.
LEMMA CollectedIsOfFiles ==
    ASSUME NEW dir
    PROVE  /\ DOMAIN ToSettle(dir) \subseteq DOMAIN dir
           /\ \A f \in DOMAIN ToSettle(dir) :
                /\ ToSettle(dir)[f] \subseteq dir[f]
                /\ dir[f] \subseteq Collected(dir) \cup ToSettle(dir)[f]
           /\ \A e \in Collected(dir) : \E f \in DOMAIN dir : e \in dir[f]
<1>1. Newest(dir) \subseteq DOMAIN dir
  BY DEF Newest
<1>2. \A f : Taken(dir, f) \subseteq dir[f]
  BY DEF Taken
<1>3. \A f \in Newest(dir) : Taken(dir, f) \subseteq Collected(dir)
  BY DEF Collected
<1>4. DOMAIN ToSettle(dir) \subseteq Newest(dir)
  BY DEF ToSettle
<1>5. \A f \in DOMAIN ToSettle(dir) : ToSettle(dir)[f] = dir[f] \ Taken(dir, f)
  BY DEF ToSettle
<1>6. \A e \in Collected(dir) : \E f \in Newest(dir) : e \in Taken(dir, f)
  BY DEF Collected
<1> QED BY <1>1, <1>2, <1>3, <1>4, <1>5, <1>6

\* What was shown stays shown.
LEMMA VoicedStays ==
    ASSUME ReassertTyped, ReassertNext
    PROVE  Voiced \subseteq Voiced'
<1> USE DEF Voiced, InOutput, ReassertTyped
<1> DEFINE Kept(k) == hook'[k].batch = hook[k].batch /\ hook'[k].pc = hook[k].pc
<1>0. \A h \in Hooks : hook[h] \in HookRows
  BY DEF ReassertTyped
<1>1. ASSUME \A k \in Hooks : hook[k].pc = "settle" => Kept(k), heard' = heard, discarded' = discarded
      PROVE  Voiced \subseteq Voiced'
  BY <1>1
<1>2. CASE Stash
  BY <1>1, <1>2 DEF Stash
<1>3. ASSUME NEW h \in Hooks, Boot(h) \/ Park(h) \/ StopHook(h) \/ Flush(h) PROVE Voiced \subseteq Voiced'
  <2>1. hook[h].pc # "settle" /\ heard' = heard /\ discarded' = discarded
    BY <1>3 DEF Boot, Park, StopHook, Flush
  <2>2. \A k \in Hooks \ {h} : hook'[k] = hook[k]
    BY <1>3 DEF Boot, Park, StopHook, Flush
  <2> QED BY <2>1, <2>2, <1>1
<1>4. ASSUME NEW h \in Hooks, SettleFile(h) PROVE Voiced \subseteq Voiced'
  <2>1. PICK rest : hook' = [hook EXCEPT ![h].todo = rest]
    BY <1>4 DEF SettleFile
  <2>2. \A k \in Hooks : Kept(k)
    BY <1>0, <2>1 DEF HookRows
  <2>3. heard' = heard /\ discarded' = discarded
    BY <1>4 DEF SettleFile
  <2> QED BY <2>2, <2>3, <1>1
<1>5. ASSUME NEW h \in Hooks, Exit(h) \/ Undelivered(h) PROVE Voiced \subseteq Voiced'
  <2>1. heard \subseteq heard' /\ discarded \subseteq discarded'
    BY <1>5 DEF Exit, Undelivered
  <2>2. hook[h].pc = "settle" => hook[h].batch \subseteq heard' \cup discarded'
    BY <1>5 DEF Exit, Undelivered
  <2>3. \A k \in Hooks \ {h} : hook'[k] = hook[k]
    BY <1>5 DEF Exit, Undelivered
  <2> QED BY <2>1, <2>2, <2>3
<1> QED BY <1>2, <1>3, <1>4, <1>5 DEF ReassertNext

\* Hook k shows what it showed, and has no file to settle that it had not.
SameHook(k) ==
    /\ hook'[k].from = hook[k].from /\ hook'[k].batch = hook[k].batch
    /\ DOMAIN hook'[k].todo \subseteq DOMAIN hook[k].todo
    /\ \A f \in DOMAIN hook'[k].todo : hook'[k].todo[f] = hook[k].todo[f]

\* A step that changes none of the files that hooks are to settle keeps what they know.
LEMMA HooksStand ==
    ASSUME ReassertInv, Voiced \subseteq Voiced', Showing' \subseteq Showing,
           \A k \in Showing' : SameHook(k),
           \A k \in Showing' : \A f \in DOMAIN hook'[k].todo \cap DOMAIN Settles' :
             f \in DOMAIN Settles /\ Settles'[f] = Settles[f]
    PROVE  TakesWhatItShows' /\ TakesWhatOthersLeave' /\ BringsBackWhatWasShown'
<1> DEFINE V == Voiced  W == Voiced'  S == Settles  T == Settles'
           A == Showing  B == Showing'
<1>1. V \subseteq W /\ B \subseteq A
  OBVIOUS
<1>2. \A k \in B : \A f \in DOMAIN hook'[k].todo \cap DOMAIN T : f \in DOMAIN S /\ T[f] = S[f]
  OBVIOUS
<1>3. \A k \in B : /\ hook'[k].batch = hook[k].batch
                   /\ DOMAIN hook'[k].todo \subseteq DOMAIN hook[k].todo
                   /\ \A f \in DOMAIN hook'[k].todo : hook'[k].todo[f] = hook[k].todo[f]
  BY DEF SameHook
<1>4. \A h \in A : \A f \in DOMAIN hook[h].todo \cap DOMAIN S :
        S[f] \subseteq hook[h].batch \cup hook[h].todo[f] \cup V
  BY DEF ReassertInv, TakesWhatItShows
<1>5. \A h, k \in A : \A f \in DOMAIN hook[h].todo \cap DOMAIN hook[k].todo :
        hook[k].todo[f] \subseteq hook[h].batch \cup hook[h].todo[f] \cup V
  BY DEF ReassertInv, TakesWhatOthersLeave
<1>6. \A h \in A : \A f \in DOMAIN hook[h].todo \cap DOMAIN S :
        hook[h].todo[f] \subseteq S[f] \cup V
  BY DEF ReassertInv, BringsBackWhatWasShown
<1> HIDE DEF V, W, S, T, A, B
<1>7. \A h \in B : \A f \in DOMAIN hook'[h].todo \cap DOMAIN T :
        T[f] \subseteq hook'[h].batch \cup hook'[h].todo[f] \cup W
  <2> SUFFICES ASSUME NEW h \in B, NEW f \in DOMAIN hook'[h].todo, f \in DOMAIN T
               PROVE  T[f] \subseteq hook'[h].batch \cup hook'[h].todo[f] \cup W
    OBVIOUS
  <2>1. h \in A /\ f \in DOMAIN hook[h].todo /\ f \in DOMAIN S /\ T[f] = S[f]
    BY <1>1, <1>2, <1>3
  <2> QED BY <2>1, <1>1, <1>3, <1>4
<1>8. \A h, k \in B : \A f \in DOMAIN hook'[h].todo \cap DOMAIN hook'[k].todo :
        hook'[k].todo[f] \subseteq hook'[h].batch \cup hook'[h].todo[f] \cup W
  <2> SUFFICES ASSUME NEW h \in B, NEW k \in B, NEW f \in DOMAIN hook'[h].todo, f \in DOMAIN hook'[k].todo
               PROVE  hook'[k].todo[f] \subseteq hook'[h].batch \cup hook'[h].todo[f] \cup W
    OBVIOUS
  <2>1. h \in A /\ k \in A /\ f \in DOMAIN hook[h].todo /\ f \in DOMAIN hook[k].todo
    BY <1>1, <1>3
  <2>2. hook[k].todo[f] \subseteq hook[h].batch \cup hook[h].todo[f] \cup V
    BY <2>1, <1>5
  <2> QED BY <2>2, <1>1, <1>3
<1>9. \A h \in B : \A f \in DOMAIN hook'[h].todo \cap DOMAIN T :
        hook'[h].todo[f] \subseteq T[f] \cup W
  <2> SUFFICES ASSUME NEW h \in B, NEW f \in DOMAIN hook'[h].todo, f \in DOMAIN T
               PROVE  hook'[h].todo[f] \subseteq T[f] \cup W
    OBVIOUS
  <2>1. h \in A /\ f \in DOMAIN hook[h].todo /\ f \in DOMAIN S /\ T[f] = S[f]
    BY <1>1, <1>2, <1>3
  <2> QED BY <2>1, <1>1, <1>3, <1>6
<1>10. TakesWhatItShows'
  BY <1>7 DEF TakesWhatItShows, T, W, B
<1>11. TakesWhatOthersLeave'
  BY <1>8 DEF TakesWhatOthersLeave, W, B
<1>12. BringsBackWhatWasShown'
  BY <1>9 DEF BringsBackWhatWasShown, T, W, B
<1> QED BY <1>10, <1>11, <1>12

\* A hook that starts to show takes the rest of each file it shows a part of.
LEMMA ShowingStarts ==
    ASSUME ReassertInv, Voiced \subseteq Voiced', NEW h \in Hooks, h \notin Showing,
           Showing' \subseteq Showing \cup {h},
           \A k \in Showing' \ {h} : SameHook(k),
           hook'[h].batch = Collected(Settles), hook'[h].todo = ToSettle(Settles),
           DOMAIN Settles' \subseteq DOMAIN Settles,
           \A f \in DOMAIN Settles' : Settles'[f] = Settles[f]
    PROVE  TakesWhatItShows' /\ TakesWhatOthersLeave' /\ BringsBackWhatWasShown'
<1> DEFINE V == Voiced  W == Voiced'  S == Settles  T == Settles'
           A == Showing  B == Showing'
<1>1. V \subseteq W /\ B \subseteq A \cup {h} /\ DOMAIN T \subseteq DOMAIN S
      /\ \A f \in DOMAIN T : T[f] = S[f]
  OBVIOUS
<1>2. /\ DOMAIN hook'[h].todo \subseteq DOMAIN S
      /\ \A f \in DOMAIN hook'[h].todo :
           hook'[h].todo[f] \subseteq S[f] /\ S[f] \subseteq hook'[h].batch \cup hook'[h].todo[f]
  <2> HIDE DEF S
  <2>1. hook'[h].batch = Collected(S) /\ hook'[h].todo = ToSettle(S)
    BY DEF S
  <2> QED BY <2>1, CollectedIsOfFiles
<1>3. \A k \in B \ {h} : /\ k \in A /\ hook'[k].batch = hook[k].batch
                   /\ DOMAIN hook'[k].todo \subseteq DOMAIN hook[k].todo
                   /\ \A f \in DOMAIN hook'[k].todo : hook'[k].todo[f] = hook[k].todo[f]
  BY DEF SameHook
<1>4. \A k \in A : \A f \in DOMAIN hook[k].todo \cap DOMAIN S :
        S[f] \subseteq hook[k].batch \cup hook[k].todo[f] \cup V
  BY DEF ReassertInv, TakesWhatItShows
<1>5. \A j, k \in A : \A f \in DOMAIN hook[j].todo \cap DOMAIN hook[k].todo :
        hook[k].todo[f] \subseteq hook[j].batch \cup hook[j].todo[f] \cup V
  BY DEF ReassertInv, TakesWhatOthersLeave
<1>6. \A k \in A : \A f \in DOMAIN hook[k].todo \cap DOMAIN S :
        hook[k].todo[f] \subseteq S[f] \cup V
  BY DEF ReassertInv, BringsBackWhatWasShown
<1> HIDE DEF V, W, S, T, A, B
\* What is known of the others, after the step.
<1>7. ASSUME NEW k \in B \ {h}, NEW f \in DOMAIN hook'[k].todo
      PROVE  f \in DOMAIN S => /\ S[f] \subseteq hook'[k].batch \cup hook'[k].todo[f] \cup W
                               /\ hook'[k].todo[f] \subseteq S[f] \cup W
  <2>1. k \in A /\ f \in DOMAIN hook[k].todo
    BY <1>3, <1>7
  <2> QED BY <2>1, <1>1, <1>3, <1>4, <1>6, <1>7
<1>8. ASSUME NEW j \in B, NEW f \in DOMAIN hook'[j].todo, f \in DOMAIN T
      PROVE  T[f] \subseteq hook'[j].batch \cup hook'[j].todo[f] \cup W
  <2>1. f \in DOMAIN S /\ T[f] = S[f]
    BY <1>1, <1>8
  <2>2. CASE j = h
    BY <2>1, <2>2, <1>2, <1>8
  <2>3. CASE j # h
    BY <2>1, <2>3, <1>7, <1>8
  <2> QED BY <2>2, <2>3
<1>9. ASSUME NEW j \in B, NEW k \in B, NEW f \in DOMAIN hook'[j].todo, f \in DOMAIN hook'[k].todo
      PROVE  hook'[k].todo[f] \subseteq hook'[j].batch \cup hook'[j].todo[f] \cup W
  <2>1. CASE j = h /\ k = h
    BY <2>1
  <2>2. CASE j = h /\ k # h
    <3>1. f \in DOMAIN S /\ S[f] \subseteq hook'[h].batch \cup hook'[h].todo[f]
      BY <1>2, <1>9, <2>2
    <3>2. hook'[k].todo[f] \subseteq S[f] \cup W
      BY <1>7, <1>9, <2>2, <3>1
    <3> QED BY <3>1, <3>2, <2>2
  <2>3. CASE j # h /\ k = h
    <3>1. f \in DOMAIN S /\ hook'[h].todo[f] \subseteq S[f]
      BY <1>2, <1>9, <2>3
    <3>2. S[f] \subseteq hook'[j].batch \cup hook'[j].todo[f] \cup W
      BY <1>7, <1>9, <2>3, <3>1
    <3> QED BY <3>1, <3>2, <2>3
  <2>4. CASE j # h /\ k # h
    <3>1. j \in A /\ k \in A /\ f \in DOMAIN hook[j].todo /\ f \in DOMAIN hook[k].todo
      BY <1>3, <1>9, <2>4
    <3>2. hook[k].todo[f] \subseteq hook[j].batch \cup hook[j].todo[f] \cup V
      BY <3>1, <1>5
    <3>3. /\ hook'[j].batch = hook[j].batch /\ hook'[j].todo[f] = hook[j].todo[f]
          /\ hook'[k].todo[f] = hook[k].todo[f]
      BY <1>3, <1>9, <2>4
    <3> QED BY <3>2, <3>3, <1>1
  <2> QED BY <2>1, <2>2, <2>3, <2>4
<1>10. ASSUME NEW j \in B, NEW f \in DOMAIN hook'[j].todo, f \in DOMAIN T
       PROVE  hook'[j].todo[f] \subseteq T[f] \cup W
  <2>1. f \in DOMAIN S /\ T[f] = S[f]
    BY <1>1, <1>10
  <2>2. CASE j = h
    BY <2>1, <2>2, <1>2, <1>10
  <2>3. CASE j # h
    BY <2>1, <2>3, <1>7, <1>10
  <2> QED BY <2>2, <2>3
<1>11. TakesWhatItShows'
  BY <1>8 DEF TakesWhatItShows, T, W, B
<1>12. TakesWhatOthersLeave'
  BY <1>9 DEF TakesWhatOthersLeave, W, B
<1>13. BringsBackWhatWasShown'
  BY <1>10 DEF BringsBackWhatWasShown, T, W, B
<1> QED BY <1>11, <1>12, <1>13

\* A file that a hook rewrites or removes: what goes was shown, what others are to take
\* or bring back of it is what the hook left, or was shown.
LEMMA SettlingKeeps ==
    ASSUME ReassertInv, Voiced \subseteq Voiced', NEW h \in Showing, Showing' \subseteq Showing,
           hook[h].batch \subseteq Voiced, \A k \in Showing' : SameHook(k),
           NEW f \in DOMAIN hook[h].todo,
           \A g \in DOMAIN Settles' \ {f} : g \in DOMAIN Settles /\ Settles'[g] = Settles[g],
           f \in DOMAIN Settles' => Settles'[f] = hook[h].todo[f]
    PROVE  TakesWhatItShows' /\ TakesWhatOthersLeave' /\ BringsBackWhatWasShown'
<1> DEFINE V == Voiced  W == Voiced'  S == Settles  T == Settles'
           A == Showing  B == Showing'
<1>1. /\ V \subseteq W /\ B \subseteq A /\ h \in A /\ hook[h].batch \subseteq V
      /\ \A g \in DOMAIN T \ {f} : g \in DOMAIN S /\ T[g] = S[g]
      /\ f \in DOMAIN T => T[f] = hook[h].todo[f]
  OBVIOUS
<1>3. \A k \in B : /\ hook'[k].batch = hook[k].batch
                   /\ DOMAIN hook'[k].todo \subseteq DOMAIN hook[k].todo
                   /\ \A g \in DOMAIN hook'[k].todo : hook'[k].todo[g] = hook[k].todo[g]
  BY DEF SameHook
<1>4. \A k \in A : \A g \in DOMAIN hook[k].todo \cap DOMAIN S :
        S[g] \subseteq hook[k].batch \cup hook[k].todo[g] \cup V
  BY DEF ReassertInv, TakesWhatItShows
<1>5. \A j, k \in A : \A g \in DOMAIN hook[j].todo \cap DOMAIN hook[k].todo :
        hook[k].todo[g] \subseteq hook[j].batch \cup hook[j].todo[g] \cup V
  BY DEF ReassertInv, TakesWhatOthersLeave
<1>6. \A k \in A : \A g \in DOMAIN hook[k].todo \cap DOMAIN S :
        hook[k].todo[g] \subseteq S[g] \cup V
  BY DEF ReassertInv, BringsBackWhatWasShown
<1> HIDE DEF V, W, S, T, A, B
<1>7. ASSUME NEW j \in B, NEW g \in DOMAIN hook'[j].todo, g \in DOMAIN T
      PROVE  /\ T[g] \subseteq hook'[j].batch \cup hook'[j].todo[g] \cup W
             /\ hook'[j].todo[g] \subseteq T[g] \cup W
  <2>1. /\ j \in A /\ g \in DOMAIN hook[j].todo
        /\ hook'[j].batch = hook[j].batch /\ hook'[j].todo[g] = hook[j].todo[g]
    BY <1>1, <1>3, <1>7
  <2>2. CASE g = f
    <3>1. T[g] = hook[h].todo[g] /\ g \in DOMAIN hook[h].todo
      BY <1>1, <1>7, <2>2
    <3>2. hook[h].todo[g] \subseteq hook[j].batch \cup hook[j].todo[g] \cup V
      BY <1>5, <1>1, <2>1, <3>1
    <3>3. hook[j].todo[g] \subseteq hook[h].batch \cup hook[h].todo[g] \cup V
      BY <1>5, <1>1, <2>1, <3>1
    <3> QED BY <2>1, <3>1, <3>2, <3>3, <1>1
  <2>3. CASE g # f
    <3>1. g \in DOMAIN S /\ T[g] = S[g]
      BY <1>1, <1>7, <2>3
    <3>2. S[g] \subseteq hook[j].batch \cup hook[j].todo[g] \cup V
      BY <1>4, <2>1, <3>1
    <3>3. hook[j].todo[g] \subseteq S[g] \cup V
      BY <1>6, <2>1, <3>1
    <3> QED BY <2>1, <3>1, <3>2, <3>3, <1>1
  <2> QED BY <2>2, <2>3
<1>8. ASSUME NEW j \in B, NEW k \in B, NEW g \in DOMAIN hook'[j].todo, g \in DOMAIN hook'[k].todo
      PROVE  hook'[k].todo[g] \subseteq hook'[j].batch \cup hook'[j].todo[g] \cup W
  <2>1. j \in A /\ k \in A /\ g \in DOMAIN hook[j].todo /\ g \in DOMAIN hook[k].todo
    BY <1>1, <1>3, <1>8
  <2>2. hook[k].todo[g] \subseteq hook[j].batch \cup hook[j].todo[g] \cup V
    BY <2>1, <1>5
  <2> QED BY <2>2, <1>1, <1>3, <1>8
<1>9. TakesWhatItShows'
  BY <1>7 DEF TakesWhatItShows, T, W, B
<1>10. TakesWhatOthersLeave'
  BY <1>8 DEF TakesWhatOthersLeave, W, B
<1>11. BringsBackWhatWasShown'
  BY <1>7 DEF BringsBackWhatWasShown, T, W, B
<1> QED BY <1>9, <1>10, <1>11

\* A directory without some of its files, and with one more or another one.
LEMMA LessFiles ==
    ASSUME NEW dir, NEW gone
    PROVE  /\ DOMAIN Less(dir, gone) = DOMAIN dir \ gone
           /\ \A f \in DOMAIN dir \ gone : Less(dir, gone)[f] = dir[f]
  BY DEF Less
LEMMA WithFile ==
    ASSUME NEW dir, NEW f, NEW content
    PROVE  /\ DOMAIN With(dir, f, content) = DOMAIN dir \cup {f}
           /\ With(dir, f, content)[f] = content
           /\ \A g \in DOMAIN dir \ {f} : With(dir, f, content)[g] = dir[g]
  BY DEF With

\* A row of a hook, its fields, and those of a row that differs in one of them.
LEMMA RowFields ==
    ASSUME NEW row \in HookRows
    PROVE  /\ row.pc \in {"away", "park", "emit", "settle"} /\ row.from \in {"inbox", "parked"}
           /\ row.batch \subseteq Nat
           /\ row.todo \in [DOMAIN row.todo -> SUBSET Nat] /\ DOMAIN row.todo \subseteq Nat
           /\ \A p \in {"away", "park", "emit", "settle"} :
                /\ [row EXCEPT !.pc = p] \in HookRows
                /\ [row EXCEPT !.pc = p].pc = p /\ [row EXCEPT !.pc = p].from = row.from
                /\ [row EXCEPT !.pc = p].batch = row.batch /\ [row EXCEPT !.pc = p].todo = row.todo
<1>1. /\ row.pc \in {"away", "park", "emit", "settle"} /\ row.from \in {"inbox", "parked"}
      /\ row.batch \subseteq Nat
  BY DEF HookRows
<1>2. row.todo \in UNION {[D -> SUBSET Nat] : D \in SUBSET Nat}
  BY DEF HookRows
<1>3. row.todo \in [DOMAIN row.todo -> SUBSET Nat] /\ DOMAIN row.todo \subseteq Nat
  BY <1>2
<1>4. ASSUME NEW p \in {"away", "park", "emit", "settle"}
      PROVE  /\ [row EXCEPT !.pc = p] \in HookRows
             /\ [row EXCEPT !.pc = p].pc = p /\ [row EXCEPT !.pc = p].from = row.from
             /\ [row EXCEPT !.pc = p].batch = row.batch /\ [row EXCEPT !.pc = p].todo = row.todo
  BY DEF HookRows
<1> QED BY <1>1, <1>3, <1>4

LEMMA RowWithout ==
    ASSUME NEW row \in HookRows, NEW gone
    PROVE  LET r == [row EXCEPT !.todo = Less(row.todo, gone)]
           IN  /\ r \in HookRows /\ r.pc = row.pc /\ r.from = row.from /\ r.batch = row.batch
               /\ r.todo = Less(row.todo, gone)
<1>1. row.todo \in [DOMAIN row.todo -> SUBSET Nat] /\ DOMAIN row.todo \subseteq Nat
  BY RowFields
<1>2. Less(row.todo, gone) \in [DOMAIN row.todo \ gone -> SUBSET Nat]
  BY <1>1 DEF Less
<1>3. Less(row.todo, gone) \in UNION {[D -> SUBSET Nat] : D \in SUBSET Nat}
  BY <1>1, <1>2
<1> QED BY <1>3 DEF HookRows

LEMMA StashKeeps == ASSUME ReassertInv, Stash PROVE ReassertInv'
<1> USE DEF ReassertInv
<1>0. PICK n \in 0 .. (MaxEvent - nEvents) :
        /\ nFiles < MaxStash /\ nFiles' = nFiles + 1 /\ nEvents' = nEvents + n
        /\ inbox' = With(inbox, nFiles + 1, (nEvents + 1) .. (nEvents + n))
        /\ UNCHANGED <<injects, parked, hook, rfaults, heard, discarded>>
  BY DEF Stash
<1>1. /\ nFiles \in Nat /\ nEvents \in Nat /\ n \in Nat /\ MaxEvent \in Nat /\ MaxStash \in Nat
      /\ nFiles <= MaxStash /\ nEvents <= MaxEvent
  BY ReassertAssumption DEF ReassertTyped
<1>2. /\ DOMAIN inbox' = DOMAIN inbox \cup {nFiles + 1}
      /\ inbox'[nFiles + 1] = (nEvents + 1) .. (nEvents + n)
      /\ \A g \in DOMAIN inbox \ {nFiles + 1} : inbox'[g] = inbox[g]
  BY <1>0 DEF With
<1>3. nFiles + 1 \notin DOMAIN inbox /\ nFiles + 1 \notin DOMAIN parked
  BY <1>1 DEF FilesAreStashed
<1>4. 1 .. nEvents \subseteq 1 .. nEvents' /\ 1 .. nFiles \subseteq 1 .. nFiles'
  BY <1>0, <1>1
<1>5. Voiced' = Voiced /\ Showing' = Showing
  BY <1>0 DEF Voiced, InOutput, Showing
<1>6. ReassertTyped'
  BY <1>0, <1>1, <1>4 DEF ReassertTyped
<1>7. FilesAreStashed'
  BY <1>0, <1>1, <1>2, <1>3, <1>4 DEF FilesAreStashed
<1>8. HooksAreTyped'
  BY <1>0, <1>4 DEF HooksAreTyped
<1>9. ASSUME NEW h \in Hooks PROVE nFiles + 1 \notin DOMAIN hook[h].todo
  BY <1>1 DEF HooksAreTyped
<1>10. HooksAreInPlace'
  BY <1>0, <1>2, <1>5, <1>9 DEF HooksAreInPlace, Showing
<1>11. TakesWhatItShows' /\ TakesWhatOthersLeave' /\ BringsBackWhatWasShown'
  <2>1. \A k \in Showing' : SameHook(k)
    BY <1>0 DEF SameHook
  <2>2. ASSUME NEW k \in Showing', NEW f \in DOMAIN hook'[k].todo, f \in DOMAIN Settles'
        PROVE  f \in DOMAIN Settles /\ Settles'[f] = Settles[f]
    <3>1. f # nFiles + 1
      BY <1>0, <1>9, <2>2 DEF Showing
    <3> QED BY <1>0, <1>2, <2>2, <3>1 DEF Settles
  <2> QED BY <1>5, <2>1, <2>2, HooksStand
<1>12. UnheardIsKept'
  <2>1. OnDisk \subseteq OnDisk'
    BY <1>0, <1>2, <1>3 DEF OnDisk
  <2>2. (nEvents + 1) .. (nEvents + n) \subseteq OnDisk'
    BY <1>2 DEF OnDisk
  <2>3. 1 .. nEvents' \subseteq 1 .. nEvents \cup (nEvents + 1) .. (nEvents + n)
    BY <1>0, <1>1
  <2>4. heard' = heard /\ InOutput' = InOutput /\ discarded' = discarded
    BY <1>0 DEF InOutput
  <2> QED BY <2>1, <2>2, <2>3, <2>4 DEF UnheardIsKept
<1> QED BY <1>6, <1>7, <1>8, <1>10, <1>11, <1>12

\* The events that are on the disk.
LEMMA EventsOnDisk ==
    /\ \A e : e \in OnDisk <=> \/ \E f \in DOMAIN inbox : e \in inbox[f]
                            \/ \E f \in DOMAIN parked : e \in parked[f]
    /\ \A e : e \in OnDisk' <=> \/ \E f \in DOMAIN inbox' : e \in inbox'[f]
                             \/ \E f \in DOMAIN parked' : e \in parked'[f]
<1>1. ASSUME NEW e PROVE e \in OnDisk <=> \/ \E f \in DOMAIN inbox : e \in inbox[f]
                                          \/ \E f \in DOMAIN parked : e \in parked[f]
  BY DEF OnDisk
<1>2. ASSUME NEW e PROVE e \in OnDisk' <=> \/ \E f \in DOMAIN inbox' : e \in inbox'[f]
                                           \/ \E f \in DOMAIN parked' : e \in parked'[f]
  BY DEF OnDisk
<1> QED BY <1>1, <1>2

\* What is on the disk or was shown is accounted for.
LEMMA KeptIfShown ==
    ASSUME UnheardIsKept, Voiced \subseteq Voiced', OnDisk \subseteq OnDisk' \cup Voiced',
           nEvents' = nEvents
    PROVE  UnheardIsKept'
  BY DEF UnheardIsKept, Voiced

\* A step of a hook that leaves the directories alone, and after which the hook shows what
\* it showed, or is away.
LEMMA QuietHookKeeps ==
    ASSUME ReassertInv, NEW h \in Hooks, Voiced \subseteq Voiced',
           UNCHANGED <<injects, inbox, parked, nFiles, nEvents>>,
           rfaults' \in 0 .. MaxReassertFaults,
           heard' \subseteq 1 .. nEvents, discarded' \subseteq 1 .. nEvents,
           NEW row \in HookRows, hook' = [hook EXCEPT ![h] = row],
           row = NoHook \/ /\ hook[h].pc = "emit" /\ row.pc = "settle"
                           /\ row = [hook[h] EXCEPT !.pc = "settle"]
    PROVE  ReassertInv'
<1> USE DEF ReassertInv
<1>1. hook \in [Hooks -> HookRows]
  BY DEF ReassertTyped
<1>2. hook'[h] = row /\ \A k \in Hooks \ {h} : hook'[k] = hook[k]
  BY <1>1
<1>3. row # NoHook => /\ row.from = hook[h].from /\ row.batch = hook[h].batch
                      /\ row.todo = hook[h].todo /\ hook[h].pc = "emit" /\ row.pc = "settle"
  <2>1. hook[h] \in HookRows
    BY <1>1
  <2>2. /\ [hook[h] EXCEPT !.pc = "settle"].from = hook[h].from
        /\ [hook[h] EXCEPT !.pc = "settle"].batch = hook[h].batch
        /\ [hook[h] EXCEPT !.pc = "settle"].todo = hook[h].todo
    BY <2>1, RowFields
  <2> QED BY <2>2
<1>4. NoHook.pc = "away" /\ NoHook.batch = {} /\ DOMAIN NoHook.todo = {}
  BY DEF NoHook
<1>5. \A k \in Hooks : k \in Showing' => k \in Showing /\ SameHook(k) /\ hook'[k].from = hook[k].from
  <2>1. ASSUME NEW k \in Hooks \ {h}, k \in Showing'
        PROVE  k \in Showing /\ SameHook(k) /\ hook'[k].from = hook[k].from
    BY <1>2, <2>1 DEF Showing, SameHook
  <2>2. h \in Showing' => h \in Showing /\ SameHook(h) /\ hook'[h].from = hook[h].from
    BY <1>2, <1>3, <1>4 DEF Showing, SameHook
  <2> QED BY <2>1, <2>2
<1>6. Showing' \subseteq Showing
  BY <1>5 DEF Showing
<1>7. ReassertTyped'
  <2>1. hook' \in [Hooks -> HookRows]
    BY <1>1
  <2> QED BY <2>1 DEF ReassertTyped
<1>8. FilesAreStashed'
  BY DEF FilesAreStashed
<1>9. HooksAreTyped'
  <2>1. ASSUME NEW k \in Hooks \ {h}
        PROVE  /\ hook'[k].batch \subseteq 1 .. nEvents /\ DOMAIN hook'[k].todo \subseteq 1 .. nFiles
               /\ \A f \in DOMAIN hook'[k].todo : hook'[k].todo[f] \subseteq 1 .. nEvents
    BY <1>2 DEF HooksAreTyped
  <2>2. /\ row.batch \subseteq 1 .. nEvents /\ DOMAIN row.todo \subseteq 1 .. nFiles
        /\ \A f \in DOMAIN row.todo : row.todo[f] \subseteq 1 .. nEvents
    BY <1>3, <1>4 DEF HooksAreTyped
  <2> QED BY <1>2, <2>1, <2>2 DEF HooksAreTyped
<1>10. HooksAreInPlace'
  <2>1. \A k \in Hooks : hook'[k].pc = "park" => injects' = "Stop"
    BY <1>2, <1>3, <1>4 DEF HooksAreInPlace
  <2>2. \A k \in Showing' : DOMAIN hook'[k].todo \subseteq DOMAIN hook[k].todo
    BY <1>5 DEF SameHook, Showing
  <2>3. \A k \in Showing' : hook'[k].from = IF injects' = "SessionStart" THEN "inbox" ELSE "parked"
    BY <1>5 DEF HooksAreInPlace, Showing
  <2>4. injects' = "Stop" => \A k \in Showing' : DOMAIN hook'[k].todo \cap DOMAIN inbox' = {}
    BY <1>6, <2>2 DEF HooksAreInPlace
  <2> QED BY <2>1, <2>3, <2>4 DEF HooksAreInPlace
<1>11. TakesWhatItShows' /\ TakesWhatOthersLeave' /\ BringsBackWhatWasShown'
  <2>1. Settles' = Settles
    BY DEF Settles
  <2>2. \A k \in Showing' : SameHook(k)
    BY <1>5 DEF Showing
  <2> QED BY <1>6, <2>1, <2>2, HooksStand
<1>12. UnheardIsKept'
  <2>1. OnDisk' = OnDisk
    BY DEF OnDisk
  <2> QED BY <2>1, KeptIfShown
<1> QED BY <1>7, <1>8, <1>9, <1>10, <1>11, <1>12

LEMMA FlushKeeps == ASSUME ReassertInv, NEW h \in Hooks, Flush(h) PROVE ReassertInv'
<1>1. ReassertTyped /\ hook[h] \in HookRows /\ ReassertNext
  BY DEF ReassertInv, ReassertTyped, ReassertNext
<1>2. [hook[h] EXCEPT !.pc = "settle"] \in HookRows /\ [hook[h] EXCEPT !.pc = "settle"].pc = "settle"
  BY <1>1, RowFields
<1>3. hook' = [hook EXCEPT ![h] = [hook[h] EXCEPT !.pc = "settle"]]
  BY DEF Flush
<1>4. /\ UNCHANGED <<injects, inbox, parked, nFiles, nEvents>> /\ hook[h].pc = "emit"
      /\ rfaults' \in 0 .. MaxReassertFaults
      /\ heard' \subseteq 1 .. nEvents /\ discarded' \subseteq 1 .. nEvents
  BY <1>1 DEF Flush, ReassertTyped
<1> QED BY <1>1, <1>2, <1>3, <1>4, VoicedStays, QuietHookKeeps

LEMMA HookEndKeeps == ASSUME ReassertInv, NEW h \in Hooks, Exit(h) \/ Undelivered(h) PROVE ReassertInv'
<1>1. ReassertTyped /\ ReassertNext /\ hook[h].batch \subseteq 1 .. nEvents
  BY DEF ReassertInv, ReassertNext, HooksAreTyped
<1>2. /\ UNCHANGED <<injects, inbox, parked, nFiles, nEvents>>
      /\ hook' = [hook EXCEPT ![h] = NoHook]
  BY DEF Exit, Undelivered
<1>3. rfaults' \in 0 .. MaxReassertFaults
  BY <1>1, ReassertAssumption DEF Exit, Undelivered, ReassertFault, ReassertTyped
<1>4. heard' \subseteq 1 .. nEvents /\ discarded' \subseteq 1 .. nEvents
  BY <1>1 DEF Exit, Undelivered, ReassertTyped
<1> QED BY <1>1, <1>2, <1>3, <1>4, NoHookIsARow, VoicedStays, QuietHookKeeps

\* The row of a hook that collects from a directory.
LEMMA CollectingRow ==
    ASSUME NEW dir, NEW F \in Nat, NEW E \in Nat, DOMAIN dir \subseteq 1 .. F,
           \A f \in DOMAIN dir : dir[f] \subseteq 1 .. E,
           NEW p \in {"away", "park", "emit", "settle"}, NEW d \in {"inbox", "parked"}
    PROVE  LET row == [pc |-> p, from |-> d, batch |-> Collected(dir), todo |-> ToSettle(dir)]
           IN  /\ row \in HookRows
               /\ row.batch \subseteq 1 .. E /\ DOMAIN row.todo \subseteq 1 .. F
               /\ \A f \in DOMAIN row.todo : row.todo[f] \subseteq 1 .. E
<1>1. Collected(dir) \subseteq 1 .. E
  BY CollectedIsOfFiles
<1>2. DOMAIN ToSettle(dir) \subseteq 1 .. F /\ \A f \in DOMAIN ToSettle(dir) : ToSettle(dir)[f] \subseteq 1 .. E
  BY CollectedIsOfFiles
<1>3. 1 .. E \subseteq Nat /\ 1 .. F \subseteq Nat
  OBVIOUS
<1>4. ToSettle(dir) \in [DOMAIN ToSettle(dir) -> SUBSET Nat]
  <2>1. \A f \in DOMAIN ToSettle(dir) : ToSettle(dir)[f] \subseteq Nat
    BY <1>2, <1>3
  <2>2. ToSettle(dir) = [f \in DOMAIN ToSettle(dir) |-> ToSettle(dir)[f]]
    BY DEF ToSettle
  <2> QED BY <2>1, <2>2
<1>5. DOMAIN ToSettle(dir) \subseteq Nat
  BY <1>2, <1>3
<1>6. ToSettle(dir) \in UNION {[D -> SUBSET Nat] : D \in SUBSET Nat}
  BY <1>4, <1>5
<1> QED BY <1>1, <1>2, <1>3, <1>6 DEF HookRows

\* A hook starts, or finds nothing to do; empty stashes may go.
LEMMA StartKeeps ==
    ASSUME ReassertInv, NEW h \in Hooks, hook[h].pc = "away", Voiced \subseteq Voiced',
           UNCHANGED <<injects, parked, nFiles, nEvents, rfaults, heard, discarded>>,
           NEW gone, DOMAIN inbox' = DOMAIN inbox \ gone,
           \A f \in DOMAIN inbox' : inbox'[f] = inbox[f],
           \A f \in gone : f \in DOMAIN inbox => inbox[f] = {},
           NEW row \in HookRows, hook' = [hook EXCEPT ![h] = row],
           row.batch \subseteq 1 .. nEvents, DOMAIN row.todo \subseteq 1 .. nFiles,
           \A f \in DOMAIN row.todo : row.todo[f] \subseteq 1 .. nEvents,
           \/ row.pc = "away"
           \/ row.pc = "park" /\ injects = "Stop"
           \/ /\ row.pc = "emit" /\ row.batch = Collected(Settles) /\ row.todo = ToSettle(Settles)
              /\ row.from = IF injects = "SessionStart" THEN "inbox" ELSE "parked"
    PROVE  ReassertInv'
<1> USE DEF ReassertInv
<1>1. hook \in [Hooks -> HookRows]
  BY DEF ReassertTyped
<1>2. hook'[h] = row /\ \A k \in Hooks \ {h} : hook'[k] = hook[k]
  BY <1>1
<1>3. DOMAIN inbox' = DOMAIN inbox \ gone /\ \A f \in DOMAIN inbox' : inbox'[f] = inbox[f]
  OBVIOUS
<1>4. h \notin Showing
  BY DEF Showing
<1>5. \A k \in Hooks \ {h} : (k \in Showing' <=> k \in Showing) /\ SameHook(k)
  BY <1>2 DEF Showing, SameHook
<1>6. Showing' \subseteq Showing \cup {h} /\ (h \in Showing' => row.pc = "emit")
  BY <1>2, <1>5 DEF Showing
<1>7. ReassertTyped'
  <2>1. hook' \in [Hooks -> HookRows]
    BY <1>1
  <2> QED BY <2>1 DEF ReassertTyped
<1>8. FilesAreStashed'
  BY <1>3 DEF FilesAreStashed
<1>9. HooksAreTyped'
  BY <1>2 DEF HooksAreTyped
<1>10. HooksAreInPlace'
  <2>1. \A k \in Hooks : hook'[k].pc = "park" => injects' = "Stop"
    BY <1>2 DEF HooksAreInPlace
  <2>2. ASSUME NEW k \in Showing'
        PROVE  hook'[k].from = IF injects' = "SessionStart" THEN "inbox" ELSE "parked"
    <3>1. CASE k = h
      BY <3>1, <1>2, <1>6, <2>2
    <3>2. CASE k # h
      BY <3>2, <1>2, <1>5, <2>2 DEF HooksAreInPlace, Showing
    <3> QED BY <3>1, <3>2
  <2>3. ASSUME injects' = "Stop", NEW k \in Showing'
        PROVE  DOMAIN hook'[k].todo \cap DOMAIN inbox' = {}
    <3>1. CASE k = h
      <4>1. row.todo = ToSettle(parked)
        BY <3>1, <1>2, <1>6, <2>3 DEF Settles
      <4>2. DOMAIN row.todo \subseteq DOMAIN parked
        BY <4>1, CollectedIsOfFiles
      <4> QED BY <3>1, <4>2, <1>2, <1>3 DEF FilesAreStashed
    <3>2. CASE k # h
      <4>1. k \in Showing /\ hook'[k] = hook[k] /\ injects = "Stop"
        BY <3>2, <1>2, <1>5, <1>6, <2>3 DEF Showing
      <4> QED BY <4>1, <1>3 DEF HooksAreInPlace
    <3> QED BY <3>1, <3>2
  <2> QED BY <2>1, <2>2, <2>3 DEF HooksAreInPlace
<1>11. DOMAIN Settles' \subseteq DOMAIN Settles /\ \A f \in DOMAIN Settles' : Settles'[f] = Settles[f]
  BY <1>3 DEF Settles
<1>12. TakesWhatItShows' /\ TakesWhatOthersLeave' /\ BringsBackWhatWasShown'
  <2>1. CASE row.pc = "emit"
    <3>1. hook'[h].batch = Collected(Settles) /\ hook'[h].todo = ToSettle(Settles)
      BY <1>2, <2>1
    <3>2. \A k \in Showing' \ {h} : SameHook(k)
      BY <1>5 DEF Showing
    <3> QED BY <1>4, <1>6, <1>11, <3>1, <3>2, ShowingStarts
  <2>2. CASE row.pc # "emit"
    <3>1. Showing' \subseteq Showing /\ \A k \in Showing' : SameHook(k)
      BY <1>5, <1>6, <2>2 DEF Showing
    <3> QED BY <1>11, <3>1, HooksStand
  <2> QED BY <2>1, <2>2
<1>13. UnheardIsKept'
  <2>1. ASSUME NEW f \in DOMAIN inbox, NEW e \in inbox[f] PROVE e \in OnDisk'
    <3>1. f \in DOMAIN inbox' /\ inbox'[f] = inbox[f]
      BY <1>3, <2>1
    <3> QED BY <3>1, <2>1 DEF OnDisk
  <2>2. OnDisk \subseteq OnDisk'
    BY <2>1 DEF OnDisk
  <2> QED BY <2>2, KeptIfShown
<1> QED BY <1>7, <1>8, <1>9, <1>10, <1>12, <1>13

LEMMA BootKeeps == ASSUME ReassertInv, NEW h \in Hooks, Boot(h) PROVE ReassertInv'
<1>1. ReassertTyped /\ ReassertNext
  BY DEF ReassertInv, ReassertNext
<1>2. Voiced \subseteq Voiced'
  BY <1>1, VoicedStays
<1>3. /\ hook[h].pc = "away" /\ DOMAIN inbox' = DOMAIN inbox \ EmptyStashes(inbox)
      /\ \A f \in DOMAIN inbox' : inbox'[f] = inbox[f]
      /\ UNCHANGED <<injects, parked, nFiles, nEvents, rfaults, heard, discarded>>
  BY DEF Boot, Less
<1>4. \A f \in EmptyStashes(inbox) : f \in DOMAIN inbox => inbox[f] = {}
  BY DEF EmptyStashes
<1>5. nFiles \in Nat /\ nEvents \in Nat /\ injects \in {"SessionStart", "Stop"}
  BY <1>1, ReassertAssumption DEF ReassertTyped
<1>6. DOMAIN inbox \subseteq 1 .. nFiles /\ \A f \in DOMAIN inbox : inbox[f] \subseteq 1 .. nEvents
  BY DEF ReassertInv, FilesAreStashed
<1>7. CASE Collected(inbox) = {}
  <2>1. hook' = [hook EXCEPT ![h] = NoHook]
    BY <1>7 DEF Boot
  <2>2. /\ NoHook.batch \subseteq 1 .. nEvents /\ DOMAIN NoHook.todo \subseteq 1 .. nFiles
        /\ \A f \in DOMAIN NoHook.todo : NoHook.todo[f] \subseteq 1 .. nEvents
        /\ NoHook.pc = "away"
    BY DEF NoHook
  <2> QED BY <1>2, <1>3, <1>4, <2>1, <2>2, NoHookIsARow, StartKeeps
<1>8. CASE Collected(inbox) # {}
  <2> DEFINE p == IF injects = "SessionStart" THEN "emit" ELSE "park"
             row == [pc |-> p, from |-> "inbox", batch |-> Collected(inbox), todo |-> ToSettle(inbox)]
  <2>1. hook' = [hook EXCEPT ![h] = row]
    BY <1>8 DEF Boot
  <2>2. p \in {"away", "park", "emit", "settle"}
    OBVIOUS
  <2>3. /\ row \in HookRows
        /\ row.batch \subseteq 1 .. nEvents /\ DOMAIN row.todo \subseteq 1 .. nFiles
        /\ \A f \in DOMAIN row.todo : row.todo[f] \subseteq 1 .. nEvents
    <3> HIDE DEF p
    <3> QED BY <1>5, <1>6, <2>2, CollectingRow
  <2>4. \/ row.pc = "park" /\ injects = "Stop"
        \/ /\ row.pc = "emit" /\ row.batch = Collected(Settles) /\ row.todo = ToSettle(Settles)
           /\ row.from = IF injects = "SessionStart" THEN "inbox" ELSE "parked"
    BY <1>5 DEF Settles
  <2> HIDE DEF row
  <2> QED BY <1>2, <1>3, <1>4, <2>1, <2>3, <2>4, StartKeeps
<1> QED BY <1>7, <1>8

LEMMA StopHookKeeps == ASSUME ReassertInv, NEW h \in Hooks, StopHook(h) PROVE ReassertInv'
<1> DEFINE none == {}
<1>1. ReassertTyped /\ ReassertNext
  BY DEF ReassertInv, ReassertNext
<1>2. Voiced \subseteq Voiced'
  BY <1>1, VoicedStays
<1>3. /\ hook[h].pc = "away" /\ injects = "Stop" /\ DOMAIN inbox' = DOMAIN inbox \ none
      /\ \A f \in DOMAIN inbox' : inbox'[f] = inbox[f]
      /\ UNCHANGED <<injects, parked, nFiles, nEvents, rfaults, heard, discarded>>
  BY DEF StopHook
<1>5. nFiles \in Nat /\ nEvents \in Nat
  BY <1>1, ReassertAssumption DEF ReassertTyped
<1>6. DOMAIN parked \subseteq 1 .. nFiles /\ \A f \in DOMAIN parked : parked[f] \subseteq 1 .. nEvents
  BY DEF ReassertInv, FilesAreStashed
<1> DEFINE row == [pc |-> "emit", from |-> "parked", batch |-> Collected(parked),
                   todo |-> ToSettle(parked)]
<1>7. hook' = [hook EXCEPT ![h] = row]
  BY DEF StopHook
<1>8. /\ row \in HookRows
      /\ row.batch \subseteq 1 .. nEvents /\ DOMAIN row.todo \subseteq 1 .. nFiles
      /\ \A f \in DOMAIN row.todo : row.todo[f] \subseteq 1 .. nEvents
  BY <1>5, <1>6, CollectingRow
<1>9. /\ row.pc = "emit" /\ row.batch = Collected(Settles) /\ row.todo = ToSettle(Settles)
      /\ row.from = IF injects = "SessionStart" THEN "inbox" ELSE "parked"
  BY <1>3 DEF Settles
<1>10. \A f \in none : f \in DOMAIN inbox => inbox[f] = {}
  OBVIOUS
<1> HIDE DEF row, none
<1> QED BY <1>2, <1>3, <1>7, <1>8, <1>9, <1>10, StartKeeps

LEMMA ParkKeeps == ASSUME ReassertInv, NEW h \in Hooks, Park(h) PROVE ReassertInv'
<1>1. ReassertTyped /\ ReassertNext /\ hook \in [Hooks -> HookRows]
  BY DEF ReassertInv, ReassertNext, ReassertTyped
<1>2. Voiced \subseteq Voiced'
  BY <1>1, VoicedStays
<1>3. /\ hook[h].pc = "park" /\ hook' = [hook EXCEPT ![h] = NoHook]
      /\ UNCHANGED <<injects, nFiles, nEvents, heard, discarded>>
  BY DEF Park
<1>4. injects = "Stop"
  BY <1>3 DEF ReassertInv, HooksAreInPlace
<1>5. PICK moved \in SUBSET (DOMAIN hook[h].todo \cap DOMAIN inbox) :
        /\ inbox' = Less(inbox, moved)
        /\ parked' = [f \in DOMAIN parked \cup moved |-> IF f \in moved THEN inbox[f] ELSE parked[f]]
        /\ IF moved = DOMAIN hook[h].todo \cap DOMAIN inbox THEN UNCHANGED rfaults ELSE ReassertFault
  BY DEF Park
<1>6. /\ DOMAIN inbox' = DOMAIN inbox \ moved
      /\ \A f \in DOMAIN inbox' : inbox'[f] = inbox[f]
  BY <1>5 DEF Less
<1>7. /\ DOMAIN parked' = DOMAIN parked \cup moved
      /\ \A f \in moved : parked'[f] = inbox[f]
      /\ \A f \in DOMAIN parked \ moved : parked'[f] = parked[f]
  BY <1>5
<1>8. hook'[h] = NoHook /\ \A k \in Hooks \ {h} : hook'[k] = hook[k]
  BY <1>1, <1>3
<1>9. NoHook.pc = "away" /\ NoHook.batch = {} /\ DOMAIN NoHook.todo = {}
  BY DEF NoHook
<1>10. Showing' = Showing /\ h \notin Showing
  BY <1>3, <1>8, <1>9 DEF Showing
<1>11. \A k \in Showing' : k # h /\ hook'[k] = hook[k]
  BY <1>8, <1>10 DEF Showing
<1>12. ReassertTyped'
  <2>1. hook' \in [Hooks -> HookRows]
    BY <1>1, <1>3, NoHookIsARow
  <2>2. rfaults' \in 0 .. MaxReassertFaults
    BY <1>1, <1>5, ReassertAssumption DEF ReassertTyped, ReassertFault
  <2> QED BY <1>1, <1>3, <2>1, <2>2 DEF ReassertTyped
<1>13. FilesAreStashed'
  BY <1>3, <1>4, <1>6, <1>7 DEF ReassertInv, FilesAreStashed
<1>14. HooksAreTyped'
  BY <1>3, <1>8, <1>9 DEF ReassertInv, HooksAreTyped
<1>15. HooksAreInPlace'
  <2>1. \A k \in Hooks : hook'[k].pc = "park" => injects' = "Stop"
    BY <1>3, <1>4
  <2>2. \A k \in Showing' : hook'[k].from = IF injects' = "SessionStart" THEN "inbox" ELSE "parked"
    BY <1>3, <1>10, <1>11 DEF ReassertInv, HooksAreInPlace
  <2>3. \A k \in Showing' : DOMAIN hook'[k].todo \cap DOMAIN inbox' = {}
    BY <1>4, <1>6, <1>10, <1>11 DEF ReassertInv, HooksAreInPlace
  <2> QED BY <2>1, <2>2, <2>3 DEF HooksAreInPlace
<1>16. TakesWhatItShows' /\ TakesWhatOthersLeave' /\ BringsBackWhatWasShown'
  <2>1. \A k \in Showing' : SameHook(k)
    BY <1>11 DEF SameHook
  <2>2. ASSUME NEW k \in Showing', NEW f \in DOMAIN hook'[k].todo, f \in DOMAIN Settles'
        PROVE  f \in DOMAIN Settles /\ Settles'[f] = Settles[f]
    <3>1. f \in DOMAIN hook[k].todo /\ k \in Showing
      BY <1>10, <1>11, <2>2
    <3>2. f \notin moved
      BY <1>4, <3>1 DEF ReassertInv, HooksAreInPlace
    <3>3. Settles = parked /\ Settles' = parked'
      BY <1>3, <1>4 DEF Settles
    <3> QED BY <1>7, <2>2, <3>2, <3>3
  <2> QED BY <1>2, <1>10, <2>1, <2>2, HooksStand
<1>17. UnheardIsKept'
  <2>1. ASSUME NEW f \in DOMAIN inbox, NEW e \in inbox[f] PROVE e \in OnDisk'
    BY <1>6, <1>7, <2>1, EventsOnDisk
  <2>2. ASSUME NEW f \in DOMAIN parked, NEW e \in parked[f] PROVE e \in OnDisk'
    <3>1. f \notin moved
      BY <2>2 DEF ReassertInv, FilesAreStashed
    <3> QED BY <1>7, <2>2, <3>1, EventsOnDisk
  <2>3. OnDisk \subseteq OnDisk'
    BY <2>1, <2>2, EventsOnDisk
  <2> QED BY <1>2, <1>3, <2>3, KeptIfShown DEF ReassertInv
<1> QED BY <1>12, <1>13, <1>14, <1>15, <1>16, <1>17 DEF ReassertInv

LEMMA SettleFileKeeps == ASSUME ReassertInv, NEW h \in Hooks, SettleFile(h) PROVE ReassertInv'
<1>1. ReassertTyped /\ ReassertNext /\ hook \in [Hooks -> HookRows] /\ hook[h] \in HookRows
  BY DEF ReassertInv, ReassertNext, ReassertTyped
<1>2. Voiced \subseteq Voiced'
  BY <1>1, VoicedStays
<1> DEFINE todo == hook[h].todo
           mine == IF hook[h].from = "inbox" THEN inbox ELSE parked
<1>3. PICK f \in DOMAIN todo :
        /\ hook[h].pc = "settle"
        /\ hook' = [hook EXCEPT ![h].todo = Less(todo, {f})]
        /\ \/ /\ IF hook[h].from = "inbox"
                 THEN /\ inbox' = IF todo[f] # {} THEN With(inbox, f, todo[f]) ELSE Less(inbox, {f})
                      /\ UNCHANGED parked
                 ELSE /\ parked' = IF todo[f] # {} THEN With(parked, f, todo[f]) ELSE Less(parked, {f})
                      /\ UNCHANGED inbox
              /\ UNCHANGED rfaults
           \/ ReassertFault /\ UNCHANGED <<inbox, parked>>
        /\ UNCHANGED <<injects, nFiles, nEvents, heard, discarded>>
  BY DEF SettleFile
<1>4. h \in Showing /\ hook[h].batch \subseteq Voiced
  BY <1>3 DEF Showing, Voiced, InOutput
<1>5. injects \in {"SessionStart", "Stop"}
  BY <1>1 DEF ReassertTyped
<1>6. hook[h].from = IF injects = "SessionStart" THEN "inbox" ELSE "parked"
  BY <1>4 DEF ReassertInv, HooksAreInPlace
<1>7. LET r == [hook[h] EXCEPT !.todo = Less(todo, {f})]
      IN  /\ r \in HookRows /\ r.pc = hook[h].pc /\ r.from = hook[h].from /\ r.batch = hook[h].batch
          /\ r.todo = Less(todo, {f})
  BY <1>1, RowWithout DEF todo
<1>8. hook' \in [Hooks -> HookRows] /\ \A k \in Hooks \ {h} : hook'[k] = hook[k]
  BY <1>1, <1>3, <1>7
<1>9. /\ hook'[h].pc = hook[h].pc /\ hook'[h].from = hook[h].from /\ hook'[h].batch = hook[h].batch
      /\ hook'[h].todo = Less(todo, {f})
  BY <1>1, <1>3, <1>7
<1>10. /\ DOMAIN hook'[h].todo \subseteq DOMAIN todo
       /\ \A g \in DOMAIN hook'[h].todo : hook'[h].todo[g] = todo[g]
  BY <1>9 DEF Less
<1> HIDE DEF todo
<1>11. \A k \in Hooks : SameHook(k) /\ hook'[k].pc = hook[k].pc
  BY <1>8, <1>9, <1>10 DEF SameHook, todo
<1>12. Showing' = Showing
  BY <1>11 DEF Showing
<1>13. ReassertTyped'
  <2>2. rfaults' \in 0 .. MaxReassertFaults
    BY <1>1, <1>3, ReassertAssumption DEF ReassertTyped, ReassertFault
  <2> QED BY <1>1, <1>3, <1>8, <2>2 DEF ReassertTyped
<1>14. f \in 1 .. nFiles /\ todo[f] \subseteq 1 .. nEvents
  BY <1>3 DEF ReassertInv, HooksAreTyped, todo
\* What becomes of the two directories.
<1>15. \/ UNCHANGED <<inbox, parked>>
       \/ /\ injects = "SessionStart" /\ parked' = parked /\ DOMAIN inbox' \subseteq DOMAIN inbox \cup {f}
          /\ DOMAIN inbox \ {f} \subseteq DOMAIN inbox'
          /\ \A g \in DOMAIN inbox' \ {f} : inbox'[g] = inbox[g]
          /\ f \in DOMAIN inbox' => inbox'[f] = todo[f]
          /\ f \notin DOMAIN inbox' => todo[f] = {}
       \/ /\ injects = "Stop" /\ inbox' = inbox /\ DOMAIN parked' \subseteq DOMAIN parked \cup {f}
          /\ DOMAIN parked \ {f} \subseteq DOMAIN parked'
          /\ \A g \in DOMAIN parked' \ {f} : parked'[g] = parked[g]
          /\ f \in DOMAIN parked' => parked'[f] = todo[f]
          /\ f \notin DOMAIN parked' => todo[f] = {}
  BY <1>3, <1>5, <1>6 DEF Less, With
<1>16. injects = "Stop" => f \notin DOMAIN inbox
  BY <1>3, <1>4 DEF ReassertInv, HooksAreInPlace, todo
<1>17. FilesAreStashed'
  BY <1>3, <1>14, <1>15, <1>16 DEF ReassertInv, FilesAreStashed
<1>18. HooksAreTyped'
  <2> SUFFICES ASSUME NEW k \in Hooks
               PROVE  /\ hook'[k].batch \subseteq 1 .. nEvents'
                      /\ DOMAIN hook'[k].todo \subseteq 1 .. nFiles'
                      /\ \A g \in DOMAIN hook'[k].todo : hook'[k].todo[g] \subseteq 1 .. nEvents'
    BY DEF HooksAreTyped
  <2>1. /\ hook[k].batch \subseteq 1 .. nEvents /\ DOMAIN hook[k].todo \subseteq 1 .. nFiles
        /\ \A g \in DOMAIN hook[k].todo : hook[k].todo[g] \subseteq 1 .. nEvents
    BY DEF ReassertInv, HooksAreTyped
  <2>2. SameHook(k)
    BY <1>11
  <2> QED BY <1>3, <2>1, <2>2 DEF SameHook
<1>19. HooksAreInPlace'
  <2>1. \A k \in Hooks : hook'[k].pc = "park" => injects' = "Stop"
    BY <1>3, <1>11 DEF ReassertInv, HooksAreInPlace
  <2>2. \A k \in Showing' : hook'[k].from = IF injects' = "SessionStart" THEN "inbox" ELSE "parked"
    BY <1>3, <1>11, <1>12 DEF ReassertInv, HooksAreInPlace, SameHook, Showing
  <2>3. ASSUME injects' = "Stop", NEW k \in Showing' PROVE DOMAIN hook'[k].todo \cap DOMAIN inbox' = {}
    <3>1. injects = "Stop" /\ inbox' = inbox /\ k \in Showing /\ k \in Hooks
      BY <1>3, <1>12, <1>15, <2>3 DEF Showing
    <3>2. DOMAIN hook[k].todo \cap DOMAIN inbox = {}
      BY <3>1 DEF ReassertInv, HooksAreInPlace
    <3>3. DOMAIN hook'[k].todo \subseteq DOMAIN hook[k].todo
      BY <3>1, <1>11 DEF SameHook
    <3> QED BY <3>1, <3>2, <3>3
  <2> QED BY <2>1, <2>2, <2>3 DEF HooksAreInPlace
<1>20. TakesWhatItShows' /\ TakesWhatOthersLeave' /\ BringsBackWhatWasShown'
  <2>1. \A k \in Showing' : SameHook(k)
    BY <1>11, <1>12 DEF Showing
  <2>2. CASE UNCHANGED <<inbox, parked>>
    <3>1. Settles' = Settles
      BY <1>3, <2>2 DEF Settles
    <3> QED BY <1>2, <1>12, <2>1, <3>1, HooksStand
  <2>3. CASE ~UNCHANGED <<inbox, parked>>
    <3>1. /\ \A g \in DOMAIN Settles' \ {f} : g \in DOMAIN Settles /\ Settles'[g] = Settles[g]
          /\ f \in DOMAIN Settles' => Settles'[f] = hook[h].todo[f]
      BY <1>3, <1>15, <2>3 DEF Settles, todo
    <3>2. f \in DOMAIN hook[h].todo
      BY DEF todo
    <3> QED BY <1>2, <1>4, <1>12, <2>1, <3>1, <3>2, SettlingKeeps
  <2> QED BY <2>2, <2>3
<1>21. UnheardIsKept'
  <2>1. \A g \in DOMAIN inbox \ {f} : g \in DOMAIN inbox' /\ inbox'[g] = inbox[g]
    BY <1>15
  <2>2. \A g \in DOMAIN parked \ {f} : g \in DOMAIN parked' /\ parked'[g] = parked[g]
    BY <1>15
  <2>3. ASSUME f \in DOMAIN inbox, NEW e \in inbox[f] PROVE e \in OnDisk' \cup Voiced'
    <3>1. CASE inbox' = inbox
      BY <3>1, <2>3, EventsOnDisk
    <3>2. CASE inbox' # inbox
      <4>1. injects = "SessionStart"
        BY <3>2, <1>15
      <4>2. e \in hook[h].batch \cup todo[f] \cup Voiced
        BY <4>1, <1>4, <2>3 DEF ReassertInv, TakesWhatItShows, Settles, todo
      <4>3. CASE e \in todo[f]
        <5>1. f \in DOMAIN inbox' /\ inbox'[f] = todo[f]
          BY <4>3, <3>2, <1>15
        <5> QED BY <5>1, <4>3, EventsOnDisk
      <4> QED BY <4>2, <4>3, <1>2, <1>4
    <3> QED BY <3>1, <3>2
  <2>4. ASSUME f \in DOMAIN parked, NEW e \in parked[f] PROVE e \in OnDisk' \cup Voiced'
    <3>1. CASE parked' = parked
      BY <3>1, <2>4, EventsOnDisk
    <3>2. CASE parked' # parked
      <4>1. injects = "Stop"
        BY <3>2, <1>15
      <4>2. e \in hook[h].batch \cup todo[f] \cup Voiced
        BY <4>1, <1>4, <2>4 DEF ReassertInv, TakesWhatItShows, Settles, todo
      <4>3. CASE e \in todo[f]
        <5>1. f \in DOMAIN parked' /\ parked'[f] = todo[f]
          BY <4>3, <3>2, <1>15
        <5> QED BY <5>1, <4>3, EventsOnDisk
      <4> QED BY <4>2, <4>3, <1>2, <1>4
    <3> QED BY <3>1, <3>2
  <2>5. ASSUME NEW g \in DOMAIN inbox \ {f}, NEW e \in inbox[g] PROVE e \in OnDisk'
    BY <2>1, <2>5, EventsOnDisk
  <2>6. ASSUME NEW g \in DOMAIN parked \ {f}, NEW e \in parked[g] PROVE e \in OnDisk'
    BY <2>2, <2>6, EventsOnDisk
  <2>7. OnDisk \subseteq OnDisk' \cup Voiced'
    BY <2>3, <2>4, <2>5, <2>6, EventsOnDisk
  <2> QED BY <1>2, <1>3, <2>7, KeptIfShown DEF ReassertInv
<1> QED BY <1>13, <1>17, <1>18, <1>19, <1>20, <1>21 DEF ReassertInv

LEMMA ReassertAlways == ReassertSpec => []ReassertInv
<1>1. ReassertInv /\ [ReassertNext]_reassertVars => ReassertInv'
  <2> SUFFICES ASSUME ReassertInv, [ReassertNext]_reassertVars PROVE ReassertInv'
    OBVIOUS
  <2>1. CASE UNCHANGED reassertVars
    BY <2>1 DEF reassertVars, ReassertInv, ReassertTyped, FilesAreStashed, HooksAreTyped,
                HooksAreInPlace, TakesWhatItShows, TakesWhatOthersLeave, BringsBackWhatWasShown,
                UnheardIsKept, Showing, Voiced, Settles, OnDisk, InOutput
  <2>2. CASE ReassertNext
    BY <2>2, StashKeeps, BootKeeps, ParkKeeps, StopHookKeeps, FlushKeeps, SettleFileKeeps,
       HookEndKeeps DEF ReassertNext
  <2> QED BY <2>1, <2>2
<1> QED BY ReassertHolds0, <1>1, PTL DEF ReassertSpec

\* However the hooks of several sessions read, show, settle and park the same files, and
\* whichever of them dies or fails: a stashed correction is on the disk until an output
\* that carries it has been flushed (the safety half of EveryCorrectionIsHeard).
THEOREM CorrectionsAreKept == ReassertSpec => []UnheardIsKept
<1>1. ReassertInv => UnheardIsKept
  BY DEF ReassertInv
<1> QED BY ReassertAlways, <1>1, PTL

\* A file of corrections is in one place, in the inbox only where SessionStart can show it,
\* and nothing is in a file, a batch or an output that was not stashed.
THEOREM CorrectionTypes == ReassertSpec => []ReassertTypeOK
<1>1. ReassertInv => ReassertTypeOK
  <2> SUFFICES ASSUME ReassertInv PROVE ReassertTypeOK
    OBVIOUS
  <2>1. nFiles \in 0 .. MaxStash /\ MaxStash \in Nat
    BY ReassertAssumption DEF ReassertInv, ReassertTyped
  <2>2. OnDisk \cup heard \cup discarded \subseteq 1 .. nEvents
    BY EventsOnDisk DEF ReassertInv, ReassertTyped, FilesAreStashed
  <2>3. ASSUME NEW h \in Hooks
        PROVE  /\ hook[h].pc \in {"away", "park", "emit", "settle"}
               /\ hook[h].batch \subseteq 1 .. nEvents /\ DOMAIN hook[h].todo \subseteq Files
    <3>1. hook[h] \in HookRows
      BY DEF ReassertInv, ReassertTyped
    <3>2. hook[h].pc \in {"away", "park", "emit", "settle"}
      BY <3>1 DEF HookRows
    <3>3. 1 .. nFiles \subseteq Files
      BY <2>1 DEF Files
    <3> QED BY <3>2, <3>3 DEF ReassertInv, HooksAreTyped
  <2> QED BY <2>2, <2>3 DEF ReassertInv, ReassertTyped, FilesAreStashed, ReassertTypeOK
<1> QED BY ReassertAlways, <1>1, PTL
=============================================================================
