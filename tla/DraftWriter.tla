----------------------------- MODULE DraftWriter -----------------------------
(***************************************************************************)
(* The draft writer of the AFM loop (afm_writer.py) with the compile handler *)
(* that feeds it (handle_daemon_compile, minnid_runtime/afm.py), for the one *)
(* pass that decides on candidates, consolidation. A compile selects the     *)
(* candidates that wait, hands the review drafts to the writer's thread and  *)
(* applies the decisions when the drafts have landed. A caller that waited   *)
(* too long leaves the decisions to the writer; decisions the writer could   *)
(* not apply stay pending, in memory and in a sidecar file, and the next     *)
(* submission applies them instead of minting a second set of drafts.        *)
(* The AFM loop compiles on the event loop and daemon.compile on a worker    *)
(* thread: compiles of the pass overlap.                                     *)
(***************************************************************************)
EXTENDS Naturals, Sequences, FiniteSets

CONSTANTS
    Reviews,   \* candidates the gate routes to review: each gets a draft
    Plain,     \* candidates the gate promotes, or rejects as duplicates
    Copies,    \* those of Plain whose text is an active learning at first
    Callers,   \* who compiles the pass: the AFM loop and daemon.compile calls
    MaxJobs,   \* batches handed to the writer
    MaxDraftFaults \* failures, supersessions and daemon restarts

ASSUME DraftAssumption ==
    /\ Reviews \cap Plain = {} /\ Copies \subseteq Plain
    /\ MaxJobs \in Nat /\ MaxDraftFaults \in Nat

Cands == Reviews \cup Plain
Jobs == 1..MaxJobs

VARIABLES
    state,    \* state[c]: "proposed", "fenced" for review, or "settled"
    copies,   \* candidates whose text is an active learning
    pages,    \* the draft pages that have landed: <<candidate, job>>
    job,      \* job[j]: the batch, its row in the inbox ledger, its outcome
    nJobs,
    queue, busy,        \* _WORK_QUEUE; the job whose Event is registered and unset
    sticky, disk,       \* _PENDING_LIFECYCLE and the sidecar: a decision, or none
    reapplying,         \* _REAPPLYING_LIFECYCLE
    caller, writer,     \* the compiles and the writer's thread
    dfaults,
    \* History:
    decider   \* decider[c]: the job whose decision fenced or settled c

draftVars == <<state, copies, pages, job, nJobs, queue, busy, sticky, disk,
               reapplying, caller, writer, dfaults, decider>>

-----------------------------------------------------------------------------
\* A decision: the candidates selected, those of them to be rejected as
\* duplicates, and the job that carries the drafts (0: there were none).
DraftDecision == [sel : SUBSET Cands, dups : SUBSET Plain, from : 0..MaxJobs]
None == [sel |-> {}, dups |-> {}, from |-> 0]
Drafts(d) == d.sel \cap Reviews

\* A run of apply_consolidation_result: what is left of it, and its report.
Apply(d) == [of |-> d, left |-> d.sel, worked |-> FALSE, errors |-> FALSE]
NoApply == Apply(None)

Idle == [pc |-> "idle", of |-> None, job |-> 0, ap |-> NoApply]
Thread == [pc |-> "idle", job |-> 0, ap |-> NoApply]
NoJob == [of |-> None, deferred |-> FALSE, out |-> "none", row |-> "none"]

DraftFault == dfaults < MaxDraftFaults /\ dfaults' = dfaults + 1
Goes(k, c) == caller' = [caller EXCEPT ![k] = c]
Ends(k) == Goes(k, Idle)

DraftInit ==
    /\ state = [c \in Cands |-> "proposed"] /\ copies = Copies
    /\ pages = {} /\ job = [j \in Jobs |-> NoJob] /\ nJobs = 0
    /\ queue = <<>> /\ busy = 0 /\ sticky = None /\ disk = None /\ reapplying = FALSE
    /\ caller = [k \in Callers |-> Idle] /\ writer = Thread
    /\ dfaults = 0 /\ decider = [c \in Cands |-> 0]

-----------------------------------------------------------------------------
(* A compile. *)

\* The pass: what is proposed and not fenced, sorted by the gate. A decision
\* without drafts is applied at once.
Select(k) ==
    LET sel == {c \in Cands : state[c] = "proposed"}
        d == [None EXCEPT !.sel = sel, !.dups = sel \cap copies]
    IN  /\ caller[k].pc = "idle" /\ sel # {}
        /\ Goes(k, IF Drafts(d) = {} THEN [Idle EXCEPT !.pc = "apply", !.ap = Apply(d)]
                                     ELSE [Idle EXCEPT !.pc = "submit", !.of = d])
        /\ UNCHANGED <<state, copies, pages, job, nJobs, queue, busy, sticky, disk,
                       reapplying, writer, dfaults, decider>>

\* What the sidecar holds is loaded unless memory holds a decision.
Hydrated == IF sticky = None THEN disk ELSE sticky

Enqueue(k) ==
    LET j == nJobs + 1 IN
    /\ nJobs < MaxJobs /\ nJobs' = j
    /\ job' = [job EXCEPT ![j].of = [caller[k].of EXCEPT !.from = j]]
    /\ queue' = Append(queue, j) /\ busy' = j
    /\ Goes(k, [Idle EXCEPT !.pc = "wait", !.job = j])

\* A pending decision is claimed, to be applied again outside the lock.
Claim(k) ==
    /\ caller[k].pc = "submit" /\ Hydrated # None /\ ~reapplying
    /\ sticky' = Hydrated /\ reapplying' = TRUE
    /\ Goes(k, [caller[k] EXCEPT !.pc = "reapply", !.ap = Apply(Hydrated)])
    /\ UNCHANGED <<state, copies, pages, job, nJobs, queue, busy, disk, writer, dfaults, decider>>

\* The drafts are refused ("write_in_flight"), and nothing is applied.
Refused(k) ==
    /\ caller[k].pc = "submit"
    /\ IF Hydrated = None THEN busy # 0 ELSE reapplying
    /\ sticky' = Hydrated /\ Ends(k)
    /\ UNCHANGED <<state, copies, pages, job, nJobs, queue, busy, disk, reapplying, writer,
                   dfaults, decider>>

\* The sidecar cannot be read, or the queue is full of other passes' jobs.
SubmitFails(k) ==
    /\ caller[k].pc = "submit" /\ DraftFault /\ Ends(k)
    /\ UNCHANGED <<state, copies, pages, job, nJobs, queue, busy, sticky, disk, reapplying,
                   writer, decider>>

Submit(k) ==
    /\ caller[k].pc = "submit" /\ Hydrated = None /\ busy = 0
    /\ Enqueue(k)
    /\ UNCHANGED <<state, copies, pages, sticky, disk, reapplying, writer, dfaults, decider>>

\* Mutant: an error is an answer too.
WokenAnyway(k) ==
    LET j == caller[k].job IN
    /\ caller[k].pc = "wait" /\ busy # j
    /\ Goes(k, [Idle EXCEPT !.pc = "apply", !.ap = Apply(job[j].of)])
    /\ UNCHANGED <<state, copies, pages, job, nJobs, queue, busy, sticky, disk,
                   reapplying, writer, dfaults, decider>>

\* The Event of the job is set: what the writer left is the answer. A job whose
\* Event was set before its end has left nothing, which raises.
Woken(k) ==
    LET j == caller[k].job IN
    /\ caller[k].pc = "wait" /\ busy # j
    /\ Goes(k, IF job[j].out = "result"
               THEN [Idle EXCEPT !.pc = "apply", !.ap = Apply(job[j].of)] ELSE Idle)
    /\ UNCHANGED <<state, copies, pages, job, nJobs, queue, busy, sticky, disk,
                   reapplying, writer, dfaults, decider>>

\* The wait times out; an answer that is there is taken all the same. Without
\* one the decision is left to the writer.
TimesOut(k) ==
    LET j == caller[k].job IN
    /\ caller[k].pc = "wait" /\ busy = j
    /\ job' = [job EXCEPT ![j].deferred = @ \/ job[j].out = "none"]
    /\ Goes(k, IF job[j].out = "result"
               THEN [Idle EXCEPT !.pc = "apply", !.ap = Apply(job[j].of)] ELSE Idle)
    /\ UNCHANGED <<state, copies, pages, nJobs, queue, busy, sticky, disk,
                   reapplying, writer, dfaults, decider>>

-----------------------------------------------------------------------------
(* apply_consolidation_result, by a caller or by the writer: a candidate after *)
(* the other, promotions and rejections before reviews.                       *)
Following(left) == IF left \cap Plain # {} THEN CHOOSE c \in left \cap Plain : TRUE
                                           ELSE CHOOSE c \in left : TRUE

\* What becomes of a candidate that is still proposed: a promotion or a review
\* fence, or a rejection while the learning it repeats is active.
Decided(a, c) ==
    IF state[c] # "proposed" \/ (c \in a.of.dups /\ c \notin copies) THEN state[c]
    ELSE IF c \in Reviews THEN "fenced" ELSE "settled"

\* The next candidate is decided, or its transaction fails.
SettleNext(a, fails) ==
    LET c == Following(a.left)
        new == IF fails THEN state[c] ELSE Decided(a, c)
    IN  /\ a.left # {}
        /\ IF fails THEN DraftFault ELSE UNCHANGED dfaults
        /\ state' = [state EXCEPT ![c] = new]
        /\ decider' = [decider EXCEPT ![c] = IF new = state[c] THEN @ ELSE a.of.from]
Report(a, fails) ==
    LET c == Following(a.left) IN
    [a EXCEPT !.left = @ \ {c}, !.errors = @ \/ fails,
              !.worked = @ \/ (~fails /\ Decided(a, c) # state[c])]

\* _lifecycle_apply_complete: nothing raised, and nothing remains proposed.
Complete(a) == ~a.errors /\ \A c \in a.of.sel : state[c] # "proposed"

\* The sidecar is written, or cannot be.
Persist(d) == \/ disk' = d /\ UNCHANGED dfaults
              \/ UNCHANGED disk /\ DraftFault

CallerSettles(k) ==
    /\ caller[k].pc \in {"apply", "reapply"}
    /\ \E fails \in BOOLEAN :
         /\ SettleNext(caller[k].ap, fails)
         /\ Goes(k, [caller[k] EXCEPT !.ap = Report(caller[k].ap, fails)])
    /\ UNCHANGED <<copies, pages, job, nJobs, queue, busy, sticky, disk, reapplying, writer>>

Applied(k) ==
    /\ caller[k].pc = "apply" /\ caller[k].ap.left = {} /\ Ends(k)
    /\ UNCHANGED <<state, copies, pages, job, nJobs, queue, busy, sticky, disk, reapplying,
                   writer, dfaults, decider>>

Reapplies(k) == caller[k].pc = "reapply" /\ caller[k].ap.left = {}

\* Mutant: the claim is not given back.
StillPendingClaimed(k) ==
    /\ Reapplies(k) /\ ~Complete(caller[k].ap)
    /\ sticky' = caller[k].ap.of /\ Persist(caller[k].ap.of) /\ Ends(k)
    /\ UNCHANGED <<state, copies, pages, job, nJobs, queue, busy, reapplying, writer, decider>>

\* Part of the decision remains: it stays pending, and the drafts are refused.
StillPending(k) ==
    /\ Reapplies(k) /\ ~Complete(caller[k].ap)
    /\ sticky' = caller[k].ap.of /\ Persist(caller[k].ap.of)
    /\ reapplying' = FALSE /\ Ends(k)
    /\ UNCHANGED <<state, copies, pages, job, nJobs, queue, busy, writer, decider>>

\* The pending decision was applied: the drafts that decide the same are dropped
\* ("lifecycle_recovered").
Recovered(k) ==
    /\ Reapplies(k) /\ Complete(caller[k].ap) /\ caller[k].ap.worked
    /\ sticky' = None /\ Persist(None) /\ busy' = 0
    /\ reapplying' = FALSE /\ Ends(k)
    /\ UNCHANGED <<state, copies, pages, job, nJobs, queue, writer, decider>>

\* There was nothing left to apply: the pass is free, and the drafts go ahead.
NothingPending(k) ==
    /\ Reapplies(k) /\ Complete(caller[k].ap) /\ ~caller[k].ap.worked
    /\ sticky' = None /\ Persist(None) /\ reapplying' = FALSE
    /\ Enqueue(k)
    /\ UNCHANGED <<state, copies, pages, writer, decider>>

-----------------------------------------------------------------------------
(* The writer's thread. *)

Writing(pc) == writer.pc = pc /\ UNCHANGED <<copies, nJobs, reapplying, caller>>
Decision0 == job[writer.job].of
EventSet == busy' = IF busy = writer.job THEN 0 ELSE busy

Take ==
    /\ Writing("idle") /\ queue # <<>>
    /\ writer' = [Thread EXCEPT !.pc = "ledger", !.job = Head(queue)]
    /\ queue' = Tail(queue)
    /\ UNCHANGED <<state, pages, job, busy, sticky, disk, dfaults, decider>>

\* The row of the batch goes into the inbox ledger, pending, before any page.
CommitRow ==
    /\ Writing("ledger")
    /\ job' = [job EXCEPT ![writer.job].row = "pending"]
    /\ writer' = [writer EXCEPT !.pc = "land"]
    /\ UNCHANGED <<state, pages, queue, busy, sticky, disk, dfaults, decider>>

Land ==
    LET left == {c \in Drafts(Decision0) : <<c, writer.job>> \notin pages} IN
    /\ Writing("land") /\ left # {}
    /\ pages' = pages \cup {<<CHOOSE c \in left : TRUE, writer.job>>}
    /\ UNCHANGED <<state, job, queue, busy, sticky, disk, writer, dfaults, decider>>

\* The row is flipped to what landed; the result is there for the waiter.
FlipRow ==
    /\ Writing("land") /\ \A c \in Drafts(Decision0) : <<c, writer.job>> \in pages
    /\ job' = [job EXCEPT ![writer.job].row = "written", ![writer.job].out = "result"]
    /\ writer' = [writer EXCEPT !.pc = "decide"]
    /\ UNCHANGED <<state, pages, queue, busy, sticky, disk, dfaults, decider>>

\* The ledger is torn, or a write fails: the batch ends there.
WriteFails ==
    /\ writer.pc \in {"ledger", "land"} /\ Writing(writer.pc) /\ DraftFault
    /\ job' = [job EXCEPT ![writer.job].out = "error"]
    /\ EventSet /\ writer' = Thread
    /\ UNCHANGED <<state, pages, queue, sticky, disk, decider>>

\* The waiter is there to apply the decision, or left it to the writer.
LeaveToWaiter ==
    /\ Writing("decide") /\ ~job[writer.job].deferred
    /\ EventSet /\ writer' = Thread
    /\ UNCHANGED <<state, pages, job, queue, sticky, disk, dfaults, decider>>
TakeOver ==
    /\ Writing("decide") /\ job[writer.job].deferred
    /\ writer' = [writer EXCEPT !.pc = "apply", !.ap = Apply(Decision0)]
    /\ UNCHANGED <<state, pages, job, queue, busy, sticky, disk, dfaults, decider>>

WriterSettles ==
    /\ Writing("apply")
    /\ \E fails \in BOOLEAN :
         /\ SettleNext(writer.ap, fails)
         /\ writer' = [writer EXCEPT !.ap = Report(writer.ap, fails)]
    /\ UNCHANGED <<pages, job, queue, busy, sticky, disk>>

\* Applied in full: nothing is pending, and the pass is free.
WriterApplied ==
    /\ Writing("apply") /\ writer.ap.left = {} /\ Complete(writer.ap)
    /\ sticky' = None /\ Persist(None) /\ EventSet /\ writer' = Thread
    /\ UNCHANGED <<state, pages, job, queue, decider>>

\* Mutant: the pass is held, and nothing is kept to apply again.
WriterHoldsOnly ==
    /\ Writing("apply") /\ writer.ap.left = {} /\ ~Complete(writer.ap)
    /\ writer' = Thread
    /\ UNCHANGED <<state, pages, job, queue, busy, sticky, disk, dfaults, decider>>

\* Not applied in full: the decision stays pending and the Event unset.
WriterHolds ==
    /\ Writing("apply") /\ writer.ap.left = {} /\ ~Complete(writer.ap)
    /\ sticky' = Decision0 /\ Persist(Decision0) /\ writer' = Thread
    /\ UNCHANGED <<state, pages, job, queue, busy, decider>>

-----------------------------------------------------------------------------
(* What happens around them. *)

\* A learning that candidates repeat is superseded.
Supersede ==
    /\ copies # {} /\ DraftFault /\ copies' = {}
    /\ UNCHANGED <<state, pages, job, nJobs, queue, busy, sticky, disk, reapplying,
                   caller, writer, decider>>

\* The daemon restarts: memory and the queue are lost, the sidecar stays.
DaemonRestarts ==
    /\ DraftFault
    /\ queue' = <<>> /\ busy' = 0 /\ sticky' = None /\ reapplying' = FALSE
    /\ caller' = [k \in Callers |-> Idle] /\ writer' = Thread
    /\ UNCHANGED <<state, copies, pages, job, nJobs, disk, decider>>

\* writer_status loads the sidecar too.
Status ==
    /\ sticky # Hydrated /\ sticky' = Hydrated
    /\ UNCHANGED <<state, copies, pages, job, nJobs, queue, busy, disk, reapplying,
                   caller, writer, dfaults, decider>>

CallerGoesOn(k) ==
    \/ Claim(k) \/ Refused(k) \/ Submit(k) \/ Woken(k) \/ TimesOut(k) \/ CallerSettles(k)
    \/ Applied(k) \/ StillPending(k) \/ Recovered(k) \/ NothingPending(k)

WriterGoesOn ==
    \/ Take \/ CommitRow \/ Land \/ FlipRow \/ LeaveToWaiter \/ TakeOver
    \/ WriterSettles \/ WriterApplied \/ WriterHolds

DraftNext ==
    \/ \E k \in Callers : Select(k) \/ SubmitFails(k) \/ CallerGoesOn(k)
    \/ WriterGoesOn \/ WriteFails
    \/ Supersede \/ DaemonRestarts \/ Status

DraftSpec == DraftInit /\ [][DraftNext]_draftVars

\* The AFM loop compiles again as long as candidates wait; the callers and the
\* writer go on with what they began.
DraftLiveSpec ==
    /\ DraftSpec
    /\ \A k \in Callers : WF_draftVars(Select(k)) /\ WF_draftVars(CallerGoesOn(k))
    /\ WF_draftVars(WriterGoesOn)

-----------------------------------------------------------------------------
DraftTypeOK ==
    /\ state \in [Cands -> {"proposed", "fenced", "settled"}]
    /\ pages \subseteq Reviews \X Jobs /\ nJobs \in 0..MaxJobs
    /\ \A j \in Jobs : /\ job[j].of \in DraftDecision
                       /\ job[j].out \in {"none", "result", "error"}
                       /\ job[j].row \in {"none", "pending", "written"}
    /\ {sticky, disk} \subseteq DraftDecision
    /\ busy \in 0..MaxJobs /\ \A i \in DOMAIN queue : queue[i] \in Jobs
    /\ reapplying = \E k \in Callers : caller[k].pc = "reapply"

\* No candidate is promoted, rejected or fenced by a decision whose review
\* drafts are not all in the vault, whoever applied it, in whatever order the
\* waiter timed out, the writer failed and the daemon came back; and the inbox
\* ledger knows of every page, and calls only those written that are.
DecisionsAreExplained ==
    /\ \A c \in Cands : decider[c] # 0 =>
         \A d \in Drafts(job[decider[c]].of) : <<d, decider[c]>> \in pages
    /\ \A j \in Jobs :
         /\ job[j].row = "none" => \A p \in pages : p[2] # j
         /\ job[j].row = "written" => \A d \in Drafts(job[j].of) : <<d, j>> \in pages

\* A pending decision that cannot be applied: it rejects a candidate for a
\* learning that is no longer active.
Orphaned == \E d \in {sticky, disk} : \E c \in d.dups \ copies : state[c] = "proposed"

\* Every candidate for review is fenced in the end, with its drafts: no timeout,
\* failed write, half-applied decision or restart holds the pass for ever. One
\* thing does: a pending decision whose duplicate has lost its original.
ReviewsAreFenced == \A c \in Reviews : <>(state[c] = "fenced" \/ Orphaned)
=============================================================================
