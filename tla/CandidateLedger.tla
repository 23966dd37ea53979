---------------------------- MODULE CandidateLedger ----------------------------
(***************************************************************************)
(* What the governed write path promises about one candidate, whoever      *)
(* resolves it: it is proposed once, settled at most once, and settling it *)
(* as accepted mints exactly one durable learning. Nothing is said here of *)
(* principals, passes, fences or duplicate checks; Governance implements   *)
(* this specification.                                                     *)
(***************************************************************************)
CONSTANTS Ids,      \* candidates
          Tokens    \* durable learnings that can be minted

VARIABLES state,    \* what became of each candidate
          minted    \* the learnings minted for it

Init == /\ state = [c \in Ids |-> "absent"]
        /\ minted = [c \in Ids |-> {}]

Fresh(t) == \A c \in Ids : t \notin minted[c]

Propose(c) == /\ state[c] = "absent"
              /\ state' = [state EXCEPT ![c] = "proposed"]
              /\ UNCHANGED minted

\* A candidate may be accepted as it is proposed (auto_accept_own).
Accept(c) == /\ state[c] \in {"absent", "proposed"}
             /\ state' = [state EXCEPT ![c] = "accepted"]
             /\ \E t \in Tokens : /\ Fresh(t)
                                  /\ minted' = [minted EXCEPT ![c] = {t}]

Close(c) == /\ state[c] = "proposed"
            /\ state' = [state EXCEPT ![c] = "closed"]
            /\ UNCHANGED minted

Next == \E c \in Ids : Propose(c) \/ Accept(c) \/ Close(c)

Spec == Init /\ [][Next]_<<state, minted>>
=============================================================================
