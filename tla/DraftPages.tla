------------------------------ MODULE DraftPages ------------------------------
(***************************************************************************)
(* The life of the AFM's draft pages (afm_writer.py): a page is written as a *)
(* draft with a date it expires at, an operator endorses it, and two sweeps, *)
(* the writer's and the vault watch's, expire what is past its date. Each    *)
(* looks for pages without a lock, then reads and rewrites one under the     *)
(* page's lock. People and other processes edit the files without it.        *)
(***************************************************************************)
EXTENDS Naturals

CONSTANTS DraftFiles,     \* draft pages
          Sweepers,     \* runs of _expire_stale_drafts
          Endorsers,  \* calls of endorse_draft
          Unlocked,   \* nobody holds a page's lock
          MaxHandEdits

ASSUME DraftPagesAssumption ==
    /\ Sweepers \cap Endorsers = {} /\ Unlocked \notin Sweepers \cup Endorsers
    /\ MaxHandEdits \in Nat

Verdicts == {"accepted", "rejected", "edit_requested"}

VARIABLES
    page,      \* page[d]: its status, and whether its date has passed
    pageLock,  \* _PAGE_LOCKS
    hand,      \* the runs and calls: where they are, and what they read
    handEdits

draftPageVars == <<page, pageLock, hand, handEdits>>

Gone == [status |-> "none", past |-> FALSE]
Free == [pc |-> "idle", page |-> Gone, says |-> "none"]
Hands == Sweepers \cup Endorsers

DraftPagesInit ==
    /\ page = [d \in DraftFiles |-> Gone] /\ pageLock = [d \in DraftFiles |-> Unlocked]
    /\ hand = [h \in Hands |-> [x \in DraftFiles |-> Free]] /\ handEdits = 0

Expirable(p) == p.status = "draft" /\ p.past
Moves(h, d, to) == hand' = [hand EXCEPT ![h][d] = to]

-----------------------------------------------------------------------------
\* _write_one: the page lands once, under its lock.
WriteDraft(d) ==
    /\ page[d].status = "none" /\ handEdits = 0 /\ pageLock[d] = Unlocked
    /\ page' = [page EXCEPT ![d] = [status |-> "draft", past |-> FALSE]]
    /\ UNCHANGED <<pageLock, hand, handEdits>>

\* A sweep, or the search for the page to endorse, comes by the page.
Find(h, d, decision) ==
    /\ hand[h][d].pc = "idle" /\ (decision = "expired" <=> h \in Sweepers)
    /\ IF h \in Sweepers THEN Expirable(page[d]) ELSE page[d].status # "none"
    /\ Moves(h, d, [Free EXCEPT !.pc = "found", !.says = decision])
    /\ UNCHANGED <<page, pageLock, handEdits>>

\* The lock, and the page as it is now.
ReadAgain(h, d) ==
    /\ hand[h][d].pc = "found" /\ pageLock[d] = Unlocked
    /\ pageLock' = [pageLock EXCEPT ![d] = h]
    /\ Moves(h, d, [hand[h][d] EXCEPT !.pc = "locked", !.page = page[d]])
    /\ UNCHANGED <<page, handEdits>>

\* Mutant: the first look was enough.
StillStandsUnread(h, p) == TRUE

\* What the second look allows: only a draft is rewritten, and a sweep looks at
\* the date again too.
StillStands(h, p) == p.status = "draft" /\ (h \in Sweepers => p.past)

\* The page is replaced by what was read, with its new status.
Rewrite(h, d) ==
    /\ hand[h][d].pc = "locked" /\ StillStands(h, hand[h][d].page)
    /\ page' = [page EXCEPT ![d] = [hand[h][d].page EXCEPT !.status = hand[h][d].says]]
    /\ pageLock' = [pageLock EXCEPT ![d] = Unlocked]
    /\ Moves(h, d, [hand[h][d] EXCEPT !.pc = "answered"])
    /\ UNCHANGED handEdits

LeaveAlone(h, d) ==
    /\ hand[h][d].pc = "locked" /\ ~StillStands(h, hand[h][d].page)
    /\ pageLock' = [pageLock EXCEPT ![d] = Unlocked]
    /\ Moves(h, d, Free)
    /\ UNCHANGED <<page, handEdits>>

\* The date passes.
DatePasses(d) ==
    /\ page[d].status # "none" /\ ~page[d].past
    /\ page' = [page EXCEPT ![d].past = TRUE]
    /\ UNCHANGED <<pageLock, hand, handEdits>>

\* Somebody gives a draft a later date, or removes the page.
EditByHand(d) ==
    /\ page[d].status # "none" /\ handEdits < MaxHandEdits /\ handEdits' = handEdits + 1
    /\ \/ page[d].status = "draft" /\ page' = [page EXCEPT ![d].past = FALSE]
       \/ page' = [page EXCEPT ![d] = Gone]
    /\ UNCHANGED <<pageLock, hand>>

DraftPagesNext == \E d \in DraftFiles :
    \/ WriteDraft(d) \/ DatePasses(d) \/ EditByHand(d)
    \/ \E h \in Hands : \/ \E s \in Verdicts \cup {"expired"} : Find(h, d, s)
                        \/ ReadAgain(h, d) \/ Rewrite(h, d) \/ LeaveAlone(h, d)

-----------------------------------------------------------------------------
DraftPagesTypeOK ==
    /\ \A d \in DraftFiles : page[d].status \in {"none", "draft", "expired"} \cup Verdicts
    /\ pageLock \in [DraftFiles -> Hands \cup {Unlocked}] /\ handEdits \in 0..MaxHandEdits

\* A draft is decided once: two operators never both have their way, and a sweep
\* that found the page stale does not overwrite an endorsement.
DraftIsDecidedOnce ==
    [][\A d \in DraftFiles : page[d].status \notin {"none", "draft"}
         => page'[d].status \in {page[d].status, "none"}]_draftPageVars
=============================================================================
