---------------------------- MODULE RequestProofs ----------------------------
(***************************************************************************)
(* Proofs about what the daemon does for its requests, for every set of    *)
(* principals, contents, passes and vaults and every bound. Governance:    *)
(* types; one learning per acceptance, and the refinement of               *)
(* CandidateLedger; what supersession never undoes; on whose authority a   *)
(* text became durable. Then Recall, SearchRequest, and the requests       *)
(* together.                                                               *)
(***************************************************************************)
EXTENDS MCRequests, TLAPS, FiniteSetTheorems

-----------------------------------------------------------------------------
(* Type correctness *)

LEMMA NullRowsTyped ==
    NoCandidate \in Candidate /\ NoLearning \in Learning
BY NonEmptyAssumption, BoundsAssumption
   DEF NoCandidate, NoLearning, Candidate, Learning, Statuses, Privacy

LEMMA InitTypeOK == Init => TypeOK
BY NullRowsTyped, BoundsAssumption
   DEF Init, TypeOK, PassState, IdlePass

LEMMA InsertCandidateTyped ==
    ASSUME TypeOK, NEW row \in Candidate, InsertCandidate(row)
    PROVE  cand' \in [CandIds -> Candidate] /\ nCand' \in 0..MaxCand
BY BoundsAssumption DEF TypeOK, InsertCandidate, CandIds

LEMMA InsertLearningTyped ==
    ASSUME TypeOK, NEW row \in Learning, InsertLearning(row)
    PROVE  learn' \in [LearnIds -> Learning] /\ nLearn' \in 0..MaxLearn
BY BoundsAssumption DEF TypeOK, InsertLearning, LearnIds

LEMMA NewLearningTyped ==
    ASSUME NEW a \in Agents, NEW x \in Contents, NEW h \in BOOLEAN,
           NEW c \in 0..MaxCand, NEW w \in Agents,
           NEW via \in {"force", "auto", "manual", "afm", "correct"}
    PROVE  NewLearning(a, x, h, c, w, via) \in Learning
BY BoundsAssumption DEF NewLearning, Learning

LEMMA SettleTyped ==
    ASSUME TypeOK, NEW c \in CandIds, NEW s \in Statuses, NEW f \in BOOLEAN,
           NEW by \in {"nobody", "principal", "auto", "afm"}, Settle(c, s, f, by)
    PROVE  cand' \in [CandIds -> Candidate] /\ fenced' \subseteq CandIds
BY ZenonT(30) DEF TypeOK, Settle, Candidate

LEMMA InstructionLikeBoolean ==
    ASSUME TypeOK, NEW c \in CandIds
    PROVE  InstructionLike(c) \in BOOLEAN
BY DEF TypeOK, InstructionLike, Candidate

LEMMA PassFieldsTyped ==
    ASSUME TypeOK, NEW p \in Passes
    PROVE  pass[p] \in PassState
BY DEF TypeOK

LEMMA WriteTypeOK ==
    ASSUME TypeOK, NEW a \in Agents, Write(a)
    PROVE  TypeOK'
<1>1. CASE \E x \in Contents, priv \in Privacy, flag \in BOOLEAN : Stage(a, x, priv, flag)
  <2>1. PICK x \in Contents, priv \in Privacy, flag \in BOOLEAN : Stage(a, x, priv, flag)
    BY <1>1
  <2>2. [status |-> "proposed", owner |-> a, content |-> x,
         privacy |-> StoredPrivacy(a, priv), flagged |-> flag \/ x \in Flagged,
         by |-> "nobody"] \in Candidate
    BY DEF Candidate, Statuses, StoredPrivacy, Privacy
  <2>3. cand' \in [CandIds -> Candidate] /\ nCand' \in 0..MaxCand
    BY <2>1, <2>2, InsertCandidateTyped DEF Stage
  <2> QED BY <2>1, <2>3 DEF Stage, TypeOK
<1>2. CASE \E x \in Contents, priv \in Privacy, flag \in BOOLEAN :
             StageAutoAccepted(a, x, priv, flag)
  <2>1. PICK x \in Contents, priv \in Privacy, flag \in BOOLEAN :
             StageAutoAccepted(a, x, priv, flag)
    BY <1>2
  <2>2. [status |-> "accepted", owner |-> a, content |-> x,
         privacy |-> StoredPrivacy(a, priv), flagged |-> FALSE,
         by |-> "auto"] \in Candidate
    BY DEF Candidate, Statuses, StoredPrivacy, Privacy
  <2>3. cand' \in [CandIds -> Candidate] /\ nCand' \in 0..MaxCand
    BY <2>1, <2>2, InsertCandidateTyped DEF StageAutoAccepted
  <2>4. nCand + 1 \in 0..MaxCand
    BY <2>1, BoundsAssumption DEF StageAutoAccepted, InsertCandidate, TypeOK
  <2>5. NewLearning(a, x, TRUE, nCand + 1, a, "auto") \in Learning
    BY <2>4, NewLearningTyped
  <2>6. learn' \in [LearnIds -> Learning] /\ nLearn' \in 0..MaxLearn
    BY <2>1, <2>5, InsertLearningTyped DEF StageAutoAccepted
  <2> QED BY <2>1, <2>3, <2>6 DEF StageAutoAccepted, TypeOK
<1>3. CASE \E x \in Contents, priv \in Privacy : Ingest(a, x, priv)
  <2>1. PICK x \in Contents, priv \in Privacy : Ingest(a, x, priv)
    BY <1>3
  <2>2. [status |-> "proposed", owner |-> Canon[a], content |-> x,
         privacy |-> priv, flagged |-> x \in Flagged,
         by |-> "nobody"] \in Candidate
    BY CanonAssumption DEF Candidate, Statuses
  <2>3. cand' \in [CandIds -> Candidate] /\ nCand' \in 0..MaxCand
    BY <2>1, <2>2, InsertCandidateTyped DEF Ingest
  <2> QED BY <2>1, <2>3 DEF Ingest, TypeOK
<1>4. CASE \E x \in Contents, older \in 0..MaxLearn : ForceLearn(a, x, older)
  <2>1. PICK x \in Contents, older \in 0..MaxLearn : ForceLearn(a, x, older)
    BY <1>4
  <2> DEFINE l == nLearn + 1
             row == NewLearning(a, x, FALSE, 0, a, "force")
             added == [learn EXCEPT ![l] = row]
  <2>2. l \in LearnIds /\ l \in 0..MaxLearn
    BY <2>1, BoundsAssumption DEF ForceLearn, TypeOK, LearnIds
  <2>3. row \in Learning
    BY BoundsAssumption DEF NewLearning, Learning
  <2>4. added \in [LearnIds -> Learning]
    BY <2>3 DEF TypeOK
  <2>5. CASE older = 0
    BY <2>1, <2>2, <2>4, <2>5 DEF ForceLearn, TypeOK
  <2>6. CASE older # 0
    <3>1. older \in LearnIds
      BY <2>6, BoundsAssumption DEF LearnIds
    <3>2. [added[older] EXCEPT !.sup = l] \in Learning
      BY ZenonT(30), <2>2, <2>4, <3>1 DEF Learning
    <3>3. learn' = [added EXCEPT ![older] = [added[older] EXCEPT !.sup = l]]
      BY <2>1, <2>6 DEF ForceLearn
    <3>4. learn' \in [LearnIds -> Learning]
      BY <2>4, <3>2, <3>3
    <3> QED BY <2>1, <2>2, <3>4 DEF ForceLearn, TypeOK
  <2> QED BY <2>5, <2>6
<1>5. CASE \E x \in Contents, old \in SUBSET LearnIds, h \in BOOLEAN :
             Correct(a, old, x, h)
  <2>1. PICK x \in Contents, old \in SUBSET LearnIds, h \in BOOLEAN :
             Correct(a, old, x, h)
    BY <1>5
  <2> DEFINE n == nLearn + 1
             row == NewLearning(a, x, h, 0, a, "correct")
  <2>11. nLearn < MaxLearn /\ nLearn' = nLearn + 1
    BY <2>1 DEF Correct
  <2>12. nLearn \in 0..MaxLearn
    BY DEF TypeOK
  <2>2. n \in LearnIds /\ n \in 0..MaxLearn
    BY <2>11, <2>12, BoundsAssumption DEF LearnIds
  <2>3. row \in Learning
    BY BoundsAssumption DEF NewLearning, Learning
  <2>4. ASSUME NEW l \in LearnIds
        PROVE  [learn[l] EXCEPT !.status = "superseded", !.sup = n] \in Learning
    BY <2>2 DEF TypeOK, Learning
  <2>5. learn' = [l \in LearnIds |->
                IF l = n THEN row
                ELSE IF l \in old
                     THEN [learn[l] EXCEPT !.status = "superseded", !.sup = n]
                     ELSE learn[l]]
    BY <2>1 DEF Correct
  <2>6. learn' \in [LearnIds -> Learning]
    BY <2>3, <2>4, <2>5 DEF TypeOK
  <2>13. events' = events \cup {[old |-> l, new |-> n, by |-> a] : l \in old}
    BY <2>1 DEF Correct
  <2>14. ASSUME NEW l \in old PROVE [old |-> l, new |-> n, by |-> a] \in Event
    BY <2>2 DEF Event
  <2>7. events' \subseteq Event
    BY <2>13, <2>14 DEF TypeOK
  <2> QED BY <2>1, <2>2, <2>6, <2>7 DEF Correct, TypeOK
<1> QED BY <1>1, <1>2, <1>3, <1>4, <1>5 DEF Write

LEMMA ResolveTypeOK ==
    ASSUME TypeOK, NEW a \in Agents, Resolve(a)
    PROVE  TypeOK'
<1>1. PICK c \in CandIds : \/ ResolveAccept(a, c)
                           \/ \E s \in Dispositions : ResolveOther(a, c, s)
  BY DEF Resolve
<1>2. InstructionLike(c) \in BOOLEAN
  BY InstructionLikeBoolean
<1>3. CASE ResolveAccept(a, c)
  <2>1. NewLearning(a, cand[c].content, FALSE, c, a, "manual") \in Learning
    BY BoundsAssumption DEF NewLearning, Learning, TypeOK, Candidate, CandIds
  <2>2. learn' \in [LearnIds -> Learning] /\ nLearn' \in 0..MaxLearn
    BY <1>3, <2>1, InsertLearningTyped DEF ResolveAccept
  <2>3. "accepted" \in Statuses
    BY DEF Statuses
  <2>4. cand' \in [CandIds -> Candidate] /\ fenced' \subseteq CandIds
    BY <1>2, <1>3, <2>3, SettleTyped DEF ResolveAccept
  <2> QED BY <1>3, <2>2, <2>4 DEF ResolveAccept, TypeOK
<1>4. CASE \E s \in Dispositions : ResolveOther(a, c, s)
  <2>1. PICK s \in Dispositions : ResolveOther(a, c, s)
    BY <1>4
  <2>2. s \in Statuses
    BY DEF Statuses
  <2>3. cand' \in [CandIds -> Candidate] /\ fenced' \subseteq CandIds
    BY <1>2, <2>1, <2>2, SettleTyped DEF ResolveOther
  <2> QED BY <2>1, <2>3 DEF ResolveOther, TypeOK
<1> QED BY <1>1, <1>3, <1>4

LEMMA PassStepTypeOK ==
    ASSUME TypeOK, NEW p \in Passes, PassStep(p)
    PROVE  TypeOK'
<1> USE DEF TypeOK
<1>0. pass[p] \in PassState
  OBVIOUS
<1>1. CASE EnsureDedupIndex(p)
  <2>1. learn' \in [LearnIds -> Learning]
    BY ZenonT(30), <1>1 DEF EnsureDedupIndex, Learning
  <2>2. pass' \in [Passes -> PassState]
    BY SMTT(30), <1>1 DEF EnsureDedupIndex, PassState
  <2> QED BY <1>1, <2>1, <2>2 DEF EnsureDedupIndex
<1>2. CASE SelectBatch(p)
  <2> DEFINE T == {c \in CandIds : IsProposed(c) /\ c \notin fenced}
  <2>1. T \in SUBSET CandIds
    OBVIOUS
  <2>2. pass' = [pass EXCEPT ![p] = [pass[p] EXCEPT !.phase = "examine", !.todo = T]]
    BY <1>2 DEF SelectBatch
  <2> HIDE DEF T
  <2>3. [pass[p] EXCEPT !.phase = "examine", !.todo = T] \in PassState
    BY <1>0, <2>1 DEF PassState
  <2>4. pass' \in [Passes -> PassState]
    BY <2>2, <2>3
  <2> QED BY <1>2, <2>4 DEF SelectBatch, store
<1>3. CASE FinishExamine(p)
  BY SMTT(30), <1>3 DEF FinishExamine, PassState, store
<1>4. CASE BeginApply(p)
  BY SMTT(30), <1>4 DEF BeginApply, PassState, store
<1>5. CASE PromoteCommit(p)
  <2> DEFINE c == pass[p].cur
  <2>1. c \in CandIds
    BY <1>0, <1>5, BoundsAssumption DEF PromoteCommit, PassState, CandIds
  <2>2. NewLearning(Canon[cand[c].owner], cand[c].content, TRUE, c,
                    Canon[cand[c].owner], "afm") \in Learning
    <3>1. cand[c] \in Candidate
      BY <2>1
    <3>2. cand[c].owner \in Agents /\ cand[c].content \in Contents
      BY <3>1 DEF Candidate
    <3>3. Canon[cand[c].owner] \in Agents
      BY <3>2, CanonAssumption
    <3>4. c \in 0..MaxCand /\ 0 \in 0..MaxLearn
      BY <1>0, BoundsAssumption DEF PassState
    <3> QED BY <3>2, <3>3, <3>4 DEF NewLearning, Learning
  <2>3. learn' \in [LearnIds -> Learning] /\ nLearn' \in 0..MaxLearn
    BY <1>5, <2>2, InsertLearningTyped DEF PromoteCommit
  <2>4. "accepted" \in Statuses /\ cand[c].flagged \in BOOLEAN
    BY <2>1 DEF Statuses, Candidate
  <2>5. cand' \in [CandIds -> Candidate] /\ fenced' \subseteq CandIds
    BY <1>5, <2>1, <2>4, SettleTyped DEF PromoteCommit
  <2>6. pass' \in [Passes -> PassState]
    BY <1>5, BoundsAssumption DEF PromoteCommit, PassState
  <2> QED BY <1>5, <2>3, <2>5, <2>6 DEF PromoteCommit
<1>6. CASE PromoteDrift(p)
  BY <1>6, BoundsAssumption DEF PromoteDrift, PassState, store
<1>7. CASE FinishPass(p)
  BY <1>7, BoundsAssumption DEF FinishPass, PassState, IdlePass, store
<1>8. CASE \E c \in CandIds : Examine(p, c)
  <2>1. PICK c \in CandIds : Examine(p, c)
    BY <1>8
  <2> DEFINE key == <<Canon[cand[c].owner], cand[c].content>>
  <2>2. key \in Agents \X Contents
    BY CanonAssumption DEF Candidate
  <2> DEFINE d == Decision(p, c)
             new == [pass[p] EXCEPT
                      !.todo = @ \ {c}, !.took = @ \cup {c},
                      !.promote = IF d = "promote" THEN @ \cup {c} ELSE @,
                      !.seen = IF d = "promote" THEN @ \cup {key} ELSE @,
                      !.dedup = IF d = "dedup" THEN @ \cup {c} ELSE @,
                      !.review = IF d = "review" THEN @ \cup {c} ELSE @]
  <2>4. pass' = [pass EXCEPT ![p] = new]
    BY <2>1 DEF Examine
  <2> HIDE DEF d, key
  <2>5. new \in PassState
    BY ZenonT(30), <1>0, <2>2 DEF PassState
  <2>3. pass' \in [Passes -> PassState]
    BY <2>4, <2>5
  <2> QED BY <2>1, <2>3 DEF Examine, store
<1>9. CASE \E c \in CandIds : PromoteRead(p, c)
  <2>1. PICK c \in CandIds : PromoteRead(p, c)
    BY <1>9
  <2>2. c \in 0..MaxCand /\ 0 \in 0..MaxCand
    BY BoundsAssumption DEF CandIds
  <2>3. pass' \in [Passes -> PassState]
    BY <1>0, <2>1, <2>2 DEF PromoteRead, PassState
  <2> QED BY <2>1, <2>3 DEF PromoteRead, store
<1>10. CASE \E c \in CandIds : Dedup(p, c)
  <2>1. PICK c \in CandIds : Dedup(p, c)
    BY <1>10
  <2>2. "rejected" \in Statuses /\ cand[c].flagged \in BOOLEAN
    BY DEF Statuses, Candidate
  <2>3. cand' \in [CandIds -> Candidate] /\ fenced' \subseteq CandIds
    BY <2>1, <2>2, SettleTyped DEF Dedup
  <2>4. pass' \in [Passes -> PassState]
    BY <1>0, <2>1 DEF Dedup, PassState
  <2> QED BY <2>1, <2>3, <2>4 DEF Dedup
<1>11. CASE \E c \in CandIds : Review(p, c)
  <2>1. PICK c \in CandIds : Review(p, c)
    BY <1>11
  <2>2. InstructionLike(c) \in BOOLEAN
    BY InstructionLikeBoolean
  <2>3. cand' \in [CandIds -> Candidate] /\ fenced' \subseteq CandIds
    BY <2>1, <2>2 DEF Review, Candidate
  <2>4. pass' \in [Passes -> PassState]
    BY <1>0, <2>1 DEF Review, PassState
  <2> QED BY <2>1, <2>3, <2>4 DEF Review
<1> QED BY <1>1, <1>2, <1>3, <1>4, <1>5, <1>6, <1>7, <1>8, <1>9, <1>10, <1>11
        DEF PassStep

LEMMA PassFaultTypeOK ==
    ASSUME TypeOK, NEW p \in Passes, PassFault(p)
    PROVE  TypeOK'
<1> USE DEF TypeOK
<1>1. CASE LosePass(p)
  BY <1>1, BoundsAssumption DEF LosePass, PassState, IdlePass, store
<1>2. CASE PromoteFail(p)
  BY <1>2, BoundsAssumption DEF PromoteFail, PassState, store
<1> QED BY <1>1, <1>2 DEF PassFault

\* Every reachable state is well typed: the rows of both tables, the fence,
\* the events, and the memory of every pass.
THEOREM TypeCorrect == Spec => []TypeOK
<1>1. TypeOK /\ [Next]_vars => TypeOK'
  <2> SUFFICES ASSUME TypeOK, [Next]_vars PROVE TypeOK'
    OBVIOUS
  <2>1. CASE UNCHANGED vars
    BY <2>1 DEF TypeOK, vars, store
  <2>2. CASE \E a \in Agents : Write(a) \/ Resolve(a)
    BY <2>2, WriteTypeOK, ResolveTypeOK
  <2>3. CASE \E p \in Passes : PassStep(p) \/ PassFault(p)
    BY <2>3, PassStepTypeOK, PassFaultTypeOK
  <2>4. CASE Unpark
    BY <2>4 DEF Unpark, TypeOK
  <2> QED BY <2>1, <2>2, <2>3, <2>4 DEF Next
<1> QED BY InitTypeOK, <1>1, PTL DEF Spec

-----------------------------------------------------------------------------
(***************************************************************************)
(* The ledger. Governance keeps its ledger of candidates and learnings     *)
(* consistent, and implements CandidateLedger, for every value of the      *)
(* constants. Each step of Governance is first reduced to one of five      *)
(* effects on the ledger; the invariant and the step simulation are then   *)
(* argued once per effect.                                                 *)
(***************************************************************************)
-----------------------------------------------------------------------------
(* Effects *)

CandsKeep == nCand' = nCand /\ \A d \in CandIds : cand'[d].status = cand[d].status

CandBecomes(c, status) ==
    /\ cand'[c].status = status
    /\ \A d \in CandIds \ {c} : cand'[d].status = cand[d].status

\* A learning row keeps its presence and its source.
LearnKeeps(l) ==
    (learn'[l].status = "absent" <=> learn[l].status = "absent")
      /\ learn'[l].src = learn[l].src

LearnsKeep == nLearn' = nLearn /\ \A l \in LearnIds : LearnKeeps(l)

LearnAdded(src) ==
    /\ nLearn' = nLearn + 1 /\ nLearn + 1 \in LearnIds
    /\ learn'[nLearn + 1].status # "absent" /\ learn'[nLearn + 1].src = src
    /\ \A l \in LearnIds \ {nLearn + 1} : LearnKeeps(l)

Proposing ==
    /\ nCand' = nCand + 1 /\ nCand + 1 \in CandIds
    /\ CandBecomes(nCand + 1, "proposed")
    /\ LearnsKeep /\ fenced' = fenced

Minting(c) ==
    /\ \/ c = nCand + 1 /\ nCand' = nCand + 1 /\ fenced' = fenced
       \/ IsProposed(c) /\ nCand' = nCand /\ fenced' = fenced \ {c}
    /\ CandBecomes(c, "accepted") /\ LearnAdded(c)

Learnt == CandsKeep /\ LearnAdded(0) /\ fenced' = fenced

Closing(c) ==
    /\ IsProposed(c) /\ nCand' = nCand
    /\ cand'[c].status \notin {"absent", "proposed", "accepted"}
    /\ CandBecomes(c, cand'[c].status)
    /\ LearnsKeep /\ fenced' = fenced \ {c}

Quiet ==
    /\ CandsKeep /\ LearnsKeep
    /\ fenced' \subseteq fenced \cup {c \in CandIds : IsProposed(c)}

Effect == \/ Proposing \/ Learnt \/ Quiet
          \/ \E c \in CandIds : Minting(c) \/ Closing(c)

LEMMA InsertLearningAdds ==
    ASSUME TypeOK, NEW a, NEW x, NEW h, NEW c, NEW w, NEW via,
           InsertLearning(NewLearning(a, x, h, c, w, via))
    PROVE  LearnAdded(c)
BY BoundsAssumption
   DEF TypeOK, InsertLearning, NewLearning, LearnAdded, LearnKeeps, LearnIds

LEMMA InsertCandidateBecomes ==
    ASSUME TypeOK, NEW row, InsertCandidate(row)
    PROVE  /\ nCand' = nCand + 1 /\ nCand + 1 \in CandIds
           /\ CandBecomes(nCand + 1, row.status)
BY BoundsAssumption DEF TypeOK, InsertCandidate, CandBecomes, CandIds

LEMMA SettleBecomes ==
    ASSUME TypeOK, NEW c \in CandIds, NEW s, NEW f, NEW by, Settle(c, s, f, by)
    PROVE  CandBecomes(c, s) /\ cand'[c].status = s /\ fenced' = fenced \ {c}
BY DEF TypeOK, Settle, CandBecomes, Candidate

LEMMA UnchangedKeep ==
    /\ UNCHANGED <<cand, nCand>> => CandsKeep
    /\ UNCHANGED <<learn, nLearn>> => LearnsKeep
BY DEF CandsKeep, LearnsKeep, LearnKeeps

LEMMA WriteEffect ==
    ASSUME TypeOK, NEW a \in Agents, Write(a)
    PROVE  Effect
<1>1. ASSUME NEW x \in Contents, NEW priv \in Privacy, NEW flag \in BOOLEAN,
             Stage(a, x, priv, flag)
      PROVE  Proposing
  BY <1>1, InsertCandidateBecomes, UnchangedKeep DEF Stage, Proposing
<1>2. ASSUME NEW x \in Contents, NEW priv \in Privacy, NEW flag \in BOOLEAN,
             StageAutoAccepted(a, x, priv, flag)
      PROVE  Minting(nCand + 1) /\ nCand + 1 \in CandIds
  <2>1. LearnAdded(nCand + 1)
    BY <1>2, InsertLearningAdds DEF StageAutoAccepted
  <2>2. /\ nCand' = nCand + 1 /\ nCand + 1 \in CandIds
        /\ CandBecomes(nCand + 1, "accepted")
    BY <1>2, InsertCandidateBecomes DEF StageAutoAccepted
  <2> QED BY <1>2, <2>1, <2>2 DEF StageAutoAccepted, Minting
<1>3. ASSUME NEW x \in Contents, NEW priv \in Privacy, Ingest(a, x, priv)
      PROVE  Proposing
  BY <1>3, InsertCandidateBecomes, UnchangedKeep DEF Ingest, Proposing
<1>4. ASSUME NEW x \in Contents, NEW older \in 0..MaxLearn, ForceLearn(a, x, older)
      PROVE  Learnt
  <2> DEFINE n == nLearn + 1
             row == NewLearning(a, x, FALSE, 0, a, "force")
             added == [learn EXCEPT ![n] = row]
  <2>1. nLearn < MaxLearn /\ nLearn' = n
    BY <1>4 DEF ForceLearn
  <2>2. n \in LearnIds
    BY <2>1, BoundsAssumption DEF TypeOK, LearnIds
  <2>3. learn' = IF older = 0 THEN added ELSE [added EXCEPT ![older].sup = n]
    BY <1>4 DEF ForceLearn
  <2>4. row.status = "active" /\ row.src = 0
    BY DEF NewLearning
  <2>5. \A l \in LearnIds : /\ learn'[l].status = added[l].status
                            /\ learn'[l].src = added[l].src
    <3>1. CASE older = 0
      BY <2>3, <3>1
    <3>2. CASE older # 0
      <4>1. learn' = [added EXCEPT ![older] = [added[older] EXCEPT !.sup = n]]
        BY <2>3, <3>2
      <4>2. added \in [LearnIds -> Learning]
        <5>1. row \in Learning
          BY BoundsAssumption DEF NewLearning, Learning
        <5> QED BY <5>1 DEF TypeOK
      <4>3. \A l \in LearnIds : added[l] \in Learning
        BY <4>2
      <4> HIDE DEF added, n
      <4>4. ASSUME NEW l \in LearnIds
            PROVE  learn'[l] = IF l = older THEN [added[older] EXCEPT !.sup = n]
                                            ELSE added[l]
        BY <4>1, <4>2
      <4> QED BY <4>3, <4>4 DEF Learning
    <3> QED BY <3>1, <3>2
  <2>6. LearnAdded(0)
    BY <2>1, <2>2, <2>4, <2>5 DEF LearnAdded, LearnKeeps, TypeOK
  <2> QED BY <1>4, <2>6, UnchangedKeep DEF ForceLearn, Learnt
<1>5. ASSUME NEW x \in Contents, NEW old \in SUBSET LearnIds, NEW h \in BOOLEAN,
             Correct(a, old, x, h)
      PROVE  Learnt
  <2> DEFINE n == nLearn + 1
             row == NewLearning(a, x, h, 0, a, "correct")
  <2>1. nLearn < MaxLearn /\ nLearn' = n
    BY <1>5 DEF Correct
  <2>2. n \in LearnIds
    BY <2>1, BoundsAssumption DEF TypeOK, LearnIds
  <2>3. learn' = [l \in LearnIds |->
                IF l = n THEN row
                ELSE IF l \in old
                     THEN [learn[l] EXCEPT !.status = "superseded", !.sup = n]
                     ELSE learn[l]]
    BY <1>5 DEF Correct
  <2>4. row.status = "active" /\ row.src = 0
    BY DEF NewLearning
  <2>5. \A l \in old : learn[l].status # "absent"
    BY <1>5 DEF Correct
  <2>6. ASSUME NEW l \in LearnIds, l # n PROVE LearnKeeps(l)
    <3>1. learn[l] \in Learning
      BY DEF TypeOK
    <3>2. CASE l \in old
      BY <2>3, <2>5, <2>6, <3>1, <3>2 DEF LearnKeeps, Learning
    <3>3. CASE l \notin old
      BY <2>3, <2>6, <3>3 DEF LearnKeeps
    <3> QED BY <3>2, <3>3
  <2>7. learn'[n] = row
    BY <2>2, <2>3
  <2>8. LearnAdded(0)
    BY <2>1, <2>2, <2>4, <2>6, <2>7 DEF LearnAdded
  <2> QED BY <1>5, <2>8, UnchangedKeep DEF Correct, Learnt
<1> QED BY <1>1, <1>2, <1>3, <1>4, <1>5 DEF Write, Effect

LEMMA ResolveEffect ==
    ASSUME TypeOK, NEW a \in Agents, Resolve(a)
    PROVE  Effect
<1>1. PICK c \in CandIds : \/ ResolveAccept(a, c)
                           \/ \E s \in Dispositions : ResolveOther(a, c, s)
  BY DEF Resolve
<1>2. CASE ResolveAccept(a, c)
  <2>1. LearnAdded(c)
    BY <1>2, InsertLearningAdds DEF ResolveAccept
  <2>2. CandBecomes(c, "accepted") /\ fenced' = fenced \ {c}
    BY <1>2, SettleBecomes DEF ResolveAccept
  <2>3. Minting(c)
    BY <1>2, <2>1, <2>2 DEF ResolveAccept, Minting
  <2> QED BY <2>3 DEF Effect
<1>3. CASE \E s \in Dispositions : ResolveOther(a, c, s)
  <2>1. PICK s \in Dispositions : ResolveOther(a, c, s)
    BY <1>3
  <2>2. CandBecomes(c, s) /\ cand'[c].status = s /\ fenced' = fenced \ {c}
    BY <2>1, SettleBecomes DEF ResolveOther
  <2>3. s \notin {"absent", "proposed", "accepted"}
    BY DispositionsAssumption
  <2>4. Closing(c)
    BY <2>1, <2>2, <2>3, UnchangedKeep DEF ResolveOther, Closing
  <2> QED BY <2>4 DEF Effect
<1> QED BY <1>1, <1>2, <1>3

LEMMA PassStepEffect ==
    ASSUME TypeOK, NEW p \in Passes, PassStep(p)
    PROVE  Effect
<1>1. ASSUME UNCHANGED store PROVE Quiet
  BY <1>1, UnchangedKeep DEF store, Quiet
<1>2. CASE EnsureDedupIndex(p)
  <2>1. ASSUME NEW l \in LearnIds PROVE LearnKeeps(l)
    <3>1. learn[l] \in Learning
      BY DEF TypeOK
    <3> QED BY <1>2, <3>1 DEF EnsureDedupIndex, LearnKeeps, Learning
  <2>2. Quiet
    BY <1>2, <2>1, UnchangedKeep DEF EnsureDedupIndex, Quiet, LearnsKeep
  <2> QED BY <2>2 DEF Effect
<1>3. CASE \/ SelectBatch(p) \/ FinishExamine(p) \/ BeginApply(p)
           \/ PromoteDrift(p) \/ FinishPass(p)
           \/ \E c \in CandIds : Examine(p, c) \/ PromoteRead(p, c)
  <2>1. UNCHANGED store
    BY <1>3 DEF SelectBatch, FinishExamine, BeginApply, PromoteDrift, FinishPass,
                Examine, PromoteRead
  <2> QED BY <1>1, <2>1 DEF Effect
<1>4. CASE PromoteCommit(p)
  <2> DEFINE c == pass[p].cur
  <2>1. c \in CandIds
    BY <1>4, BoundsAssumption DEF PromoteCommit, TypeOK, PassState, CandIds
  <2>2. LearnAdded(c)
    BY <1>4, InsertLearningAdds DEF PromoteCommit
  <2>3. CandBecomes(c, "accepted") /\ fenced' = fenced \ {c}
    BY <1>4, <2>1, SettleBecomes DEF PromoteCommit
  <2>4. Minting(c)
    BY <1>4, <2>2, <2>3 DEF PromoteCommit, Minting
  <2> QED BY <2>1, <2>4 DEF Effect
<1>5. CASE \E c \in CandIds : Dedup(p, c)
  <2>1. PICK c \in CandIds : Dedup(p, c)
    BY <1>5
  <2>2. CASE Settle(c, "rejected", cand[c].flagged, "afm") /\ IsProposed(c)
    <3>1. CandBecomes(c, "rejected") /\ cand'[c].status = "rejected"
            /\ fenced' = fenced \ {c}
      BY <2>2, SettleBecomes
    <3>2. Closing(c)
      BY <2>1, <2>2, <3>1, UnchangedKeep DEF Dedup, Closing
    <3> QED BY <3>2 DEF Effect
  <2>3. CASE UNCHANGED <<cand, fenced>>
    <3>1. UNCHANGED store
      BY <2>1, <2>3 DEF Dedup, store
    <3> QED BY <1>1, <3>1 DEF Effect
  <2> QED BY <2>1, <2>2, <2>3 DEF Dedup
<1>6. CASE \E c \in CandIds : Review(p, c)
  <2>1. PICK c \in CandIds : Review(p, c)
    BY <1>6
  <2>2. CASE /\ IsProposed(c) /\ fenced' = fenced \cup {c}
             /\ cand' = [cand EXCEPT ![c].flagged = InstructionLike(c)]
    <3>1. \A d \in CandIds : cand[d] \in Candidate
      BY DEF TypeOK
    <3>2. \A d \in CandIds : cand'[d].status = cand[d].status
      BY <2>2, <3>1 DEF TypeOK, Candidate
    <3>3. Quiet
      BY <2>1, <2>2, <3>2, UnchangedKeep DEF Review, Quiet, CandsKeep
    <3> QED BY <3>3 DEF Effect
  <2>3. CASE UNCHANGED <<cand, fenced>>
    <3>1. UNCHANGED store
      BY <2>1, <2>3 DEF Review, store
    <3> QED BY <1>1, <3>1 DEF Effect
  <2> QED BY <2>1, <2>2, <2>3 DEF Review
<1> QED BY <1>2, <1>3, <1>4, <1>5, <1>6 DEF PassStep

LEMMA StepEffect ==
    ASSUME TypeOK, [Next]_vars
    PROVE  Effect
<1>1. CASE UNCHANGED vars
  BY <1>1, UnchangedKeep DEF vars, store, Effect, Quiet
<1>2. CASE \E a \in Agents : Write(a) \/ Resolve(a)
  BY <1>2, WriteEffect, ResolveEffect
<1>3. CASE \E p \in Passes : PassStep(p) \/ PassFault(p)
  <2>1. PICK p \in Passes : PassStep(p) \/ PassFault(p)
    BY <1>3
  <2>2. CASE PassFault(p)
    BY <2>2, UnchangedKeep
       DEF PassFault, LosePass, PromoteFail, store, Effect, Quiet
  <2> QED BY <2>1, <2>2, PassStepEffect
<1>4. CASE Unpark
  BY <1>4, UnchangedKeep DEF Unpark, Effect, Quiet
<1> QED BY <1>1, <1>2, <1>3, <1>4 DEF Next

-----------------------------------------------------------------------------
(* The invariant: ids are issued in order, which is what makes a fresh row  *)
(* fresh, and the two ledger invariants.                                    *)

IdsIssued ==
    /\ \A c \in CandIds : cand[c].status = "absent" <=> c > nCand
    /\ \A l \in LearnIds : learn[l].status = "absent" <=> l > nLearn

LedgerInv == TypeOK /\ IdsIssued /\ AcceptedHasOneLearning /\ FenceOnlyOnQueued

LEMMA InitLedgerInv == Init => LedgerInv
<1> SUFFICES ASSUME Init PROVE LedgerInv
  OBVIOUS
<1>1. TypeOK
  BY InitTypeOK
<1>2. IdsIssued
  BY BoundsAssumption DEF Init, IdsIssued, CandIds, LearnIds, NoCandidate, NoLearning
<1>3. AcceptedHasOneLearning /\ FenceOnlyOnQueued
  BY DEF Init, AcceptedHasOneLearning, FenceOnlyOnQueued, Present, NoCandidate,
         NoLearning
<1> QED BY <1>1, <1>2, <1>3 DEF LedgerInv

LEMMA EffectIdsIssued ==
    ASSUME LedgerInv, Effect
    PROVE  IdsIssued'
<1> USE DEF LedgerInv, IdsIssued, LearnIds, CandIds, TypeOK
<1>1. CASE Proposing
  BY <1>1 DEF Proposing, CandBecomes, LearnsKeep, LearnKeeps
<1>2. CASE Learnt
  BY <1>2 DEF Learnt, CandsKeep, LearnAdded, LearnKeeps
<1>3. CASE Quiet
  BY <1>3 DEF Quiet, CandsKeep, LearnsKeep, LearnKeeps
<1>4. ASSUME NEW c \in CandIds, Minting(c) PROVE IdsIssued'
  <2>1. \A d \in CandIds : cand'[d].status = "absent" <=> d > nCand'
    BY <1>4 DEF Minting, CandBecomes, IsProposed
  <2>2. \A l \in LearnIds : learn'[l].status = "absent" <=> l > nLearn'
    BY <1>4 DEF Minting, LearnAdded, LearnKeeps
  <2> QED BY <2>1, <2>2
<1>5. ASSUME NEW c \in CandIds, Closing(c) PROVE IdsIssued'
  BY <1>5 DEF Closing, CandBecomes, LearnsKeep, LearnKeeps, IsProposed
<1> QED BY <1>1, <1>2, <1>3, <1>4, <1>5 DEF Effect

LEMMA EffectFence ==
    ASSUME LedgerInv, Effect
    PROVE  FenceOnlyOnQueued'
<1> USE DEF LedgerInv, FenceOnlyOnQueued, IsProposed
<1>0. fenced \subseteq CandIds
  BY DEF TypeOK
<1>1. CASE Proposing
  <2>1. nCand + 1 \notin fenced
    BY <1>0, <1>1 DEF Proposing, IdsIssued, TypeOK, CandIds
  <2> QED BY <1>0, <1>1, <2>1 DEF Proposing, CandBecomes
<1>2. CASE Learnt
  BY <1>0, <1>2 DEF Learnt, CandsKeep
<1>3. CASE Quiet
  BY <1>0, <1>3 DEF Quiet, CandsKeep
<1>4. ASSUME NEW c \in CandIds, Minting(c) PROVE FenceOnlyOnQueued'
  <2>1. c \notin fenced'
    BY <1>4 DEF Minting, IdsIssued, TypeOK, CandIds
  <2> QED BY <1>0, <1>4, <2>1 DEF Minting, CandBecomes
<1>5. ASSUME NEW c \in CandIds, Closing(c) PROVE FenceOnlyOnQueued'
  BY <1>0, <1>5 DEF Closing, CandBecomes
<1> QED BY <1>1, <1>2, <1>3, <1>4, <1>5 DEF Effect

\* The learnings of a candidate, as the refinement sees them.
Minted(c) == {l \in LearnIds : Present(l) /\ learn[l].src = c}

LEMMA KeptMinted ==
    ASSUME LearnsKeep, NEW c
    PROVE  Minted(c)' = Minted(c)
BY DEF LearnsKeep, LearnKeeps, Minted, Present

LEMMA AddedMinted ==
    ASSUME LedgerInv, NEW src, LearnAdded(src), NEW c
    PROVE  Minted(c)' = IF c = src THEN Minted(c) \cup {nLearn + 1} ELSE Minted(c)
<1>1. nLearn + 1 \in LearnIds /\ ~Present(nLearn + 1)
  BY DEF LearnAdded, LedgerInv, IdsIssued, TypeOK, Present, LearnIds
<1> QED BY <1>1 DEF LearnAdded, LearnKeeps, Minted, Present

\* AcceptedHasOneLearning in the terms of Minted; 0 is no candidate's id.
OneEach == \A c \in Nat \ {0} : \A l, m \in Minted(c) : l = m

AcceptedIsMinted ==
    \A c \in CandIds : cand[c].status = "accepted" <=> Minted(c) # {}

LEMMA MintedForm ==
    ASSUME TypeOK
    PROVE  AcceptedHasOneLearning <=> AcceptedIsMinted /\ OneEach
<1>1. AcceptedIsMinted <=>
        \A c \in CandIds : cand[c].status = "accepted" <=>
          \E l \in LearnIds : Present(l) /\ learn[l].src = c
  BY DEF AcceptedIsMinted, Minted
<1>2. \A l \in LearnIds : learn[l].src \in Nat
  BY BoundsAssumption DEF TypeOK, Learning
<1>3. OneEach <=>
        \A l, m \in LearnIds :
          Present(l) /\ Present(m) /\ learn[l].src = learn[m].src /\ learn[l].src # 0
            => l = m
  BY <1>2 DEF OneEach, Minted
<1> QED BY <1>1, <1>3 DEF AcceptedHasOneLearning

LEMMA UnacceptedMintsNothing ==
    ASSUME LedgerInv, NEW c \in CandIds, cand[c].status # "accepted"
    PROVE  Minted(c) = {}
BY MintedForm DEF LedgerInv, AcceptedIsMinted

LEMMA IssuedNext ==
    ASSUME LedgerInv, NEW c \in CandIds, c = nCand + 1
    PROVE  cand[c].status = "absent"
BY DEF LedgerInv, IdsIssued, TypeOK, CandIds

LEMMA EffectAccepted ==
    ASSUME LedgerInv, TypeOK', Effect
    PROVE  AcceptedHasOneLearning'
<1> SUFFICES (AcceptedIsMinted /\ OneEach)'
  <2>1. (TypeOK => (AcceptedHasOneLearning <=> AcceptedIsMinted /\ OneEach))'
    BY MintedForm, PTL
  <2> QED BY <2>1
<1>0. AcceptedIsMinted /\ OneEach
  BY MintedForm DEF LedgerInv
<1>1. ASSUME LearnsKeep,
             \A d \in CandIds : cand'[d].status = "accepted" <=> cand[d].status = "accepted"
      PROVE  (AcceptedIsMinted /\ OneEach)'
  <2>1. \A d : Minted(d)' = Minted(d)
    BY <1>1, KeptMinted
  <2> QED BY <1>0, <1>1, <2>1 DEF AcceptedIsMinted, OneEach
<1>2. CASE Proposing
  <2>1. cand[nCand + 1].status = "absent"
    BY <1>2, IssuedNext DEF Proposing
  <2> QED BY <1>1, <1>2, <2>1 DEF Proposing, CandBecomes
<1>3. CASE Learnt
  <2>1. \A d \in Nat \ {0} : Minted(d)' = Minted(d)
    BY <1>3, AddedMinted DEF Learnt
  <2>2. CandIds \subseteq Nat \ {0}
    BY DEF CandIds
  <2> QED BY <1>0, <1>3, <2>1, <2>2 DEF Learnt, CandsKeep, AcceptedIsMinted, OneEach
<1>4. CASE Quiet
  BY <1>1, <1>4 DEF Quiet, CandsKeep
<1>5. ASSUME NEW c \in CandIds, Minting(c) PROVE (AcceptedIsMinted /\ OneEach)'
  <2>1. cand[c].status # "accepted"
    BY <1>5, IssuedNext DEF Minting, IsProposed
  <2>2. Minted(c)' = {nLearn + 1}
    BY <1>5, <2>1, UnacceptedMintsNothing, AddedMinted DEF Minting
  <2>3. \A d : d # c => Minted(d)' = Minted(d)
    BY <1>5, AddedMinted DEF Minting
  <2>4. AcceptedIsMinted'
    BY <1>0, <1>5, <2>2, <2>3 DEF AcceptedIsMinted, Minting, CandBecomes
  <2>5. OneEach'
    BY <1>0, <2>2, <2>3 DEF OneEach
  <2> QED BY <2>4, <2>5
<1>6. ASSUME NEW c \in CandIds, Closing(c) PROVE (AcceptedIsMinted /\ OneEach)'
  BY <1>1, <1>6 DEF Closing, CandBecomes, IsProposed
<1> QED BY <1>2, <1>3, <1>4, <1>5, <1>6 DEF Effect

LEMMA LedgerInvariant == Spec => []LedgerInv
<1>1. LedgerInv /\ TypeOK' /\ [Next]_vars => LedgerInv'
  <2> SUFFICES ASSUME LedgerInv, TypeOK', [Next]_vars PROVE LedgerInv'
    OBVIOUS
  <2>1. Effect
    BY StepEffect DEF LedgerInv
  <2> QED BY <2>1, EffectIdsIssued, EffectFence, EffectAccepted DEF LedgerInv
<1> QED BY InitLedgerInv, TypeCorrect, <1>1, PTL DEF Spec

\* A candidate is accepted exactly when one learning came from it, whatever
\* handlers, auto-accepts and consolidation passes interleave.
THEOREM OneLearningPerAcceptance == Spec => []AcceptedHasOneLearning
BY LedgerInvariant, PTL DEF LedgerInv

\* No resolution, by any path, leaves a review fence behind.
THEOREM FenceEndsWithCandidate == Spec => []FenceOnlyOnQueued
BY LedgerInvariant, PTL DEF LedgerInv

-----------------------------------------------------------------------------
(* The refinement *)

LEMMA InitMaps == Init => Ledger!Init
<1> SUFFICES ASSUME Init PROVE Ledger!Init
  OBVIOUS
<1>1. \A c \in CandIds : LedgerState(cand[c].status) = "absent"
  BY DEF Init, NoCandidate, LedgerState
<1>2. \A c \in CandIds : {l \in LearnIds : Present(l) /\ learn[l].src = c} = {}
  BY DEF Init, NoLearning, Present
<1> QED BY <1>1, <1>2 DEF Ledger!Init

LEMMA EffectMaps ==
    ASSUME LedgerInv, Effect
    PROVE  [Ledger!Next]_<<[c \in CandIds |-> LedgerState(cand[c].status)],
                           [c \in CandIds |-> Minted(c)]>>
<1> DEFINE st == [c \in CandIds |-> LedgerState(cand[c].status)]
           mt == [c \in CandIds |-> Minted(c)]
<1>1. ASSUME CandsKeep PROVE st' = st
  BY <1>1 DEF CandsKeep
<1>2. ASSUME LearnsKeep PROVE mt' = mt
  BY <1>2, KeptMinted
<1>3. ASSUME NEW c \in CandIds, NEW s, CandBecomes(c, s)
      PROVE  st' = [st EXCEPT ![c] = LedgerState(s)]
  BY <1>3 DEF CandBecomes
<1>4. CASE Proposing
  <2> DEFINE c == nCand + 1
  <2>1. st[c] = "absent" /\ c \in CandIds
    BY <1>4, IssuedNext DEF Proposing, LedgerState
  <2>2. st' = [st EXCEPT ![c] = "proposed"] /\ mt' = mt
    BY <1>2, <1>3, <1>4 DEF Proposing, LedgerState
  <2> QED BY <2>1, <2>2 DEF Ledger!Next, Ledger!Propose, Minted
<1>5. CASE Learnt
  <2>1. \A d \in CandIds : Minted(d)' = Minted(d)
    BY <1>5, AddedMinted DEF Learnt, CandIds
  <2>2. st' = st /\ mt' = mt
    BY <1>1, <1>5, <2>1 DEF Learnt
  <2> QED BY <2>2
<1>6. CASE Quiet
  BY <1>1, <1>2, <1>6 DEF Quiet
<1>7. ASSUME NEW c \in CandIds, Minting(c) PROVE Ledger!Accept(c)
  <2> DEFINE t == nLearn + 1
  <2>1. st[c] \in {"absent", "proposed"}
    BY <1>7, IssuedNext DEF Minting, IsProposed, LedgerState
  <2>2. st' = [st EXCEPT ![c] = "accepted"]
    BY <1>3, <1>7 DEF Minting, LedgerState
  <2>3. t \in LearnIds /\ \A d \in CandIds : t \notin mt[d]
    <3>1. t \in LearnIds /\ ~Present(t)
      BY <1>7 DEF Minting, LearnAdded, LedgerInv, IdsIssued, TypeOK, Present, LearnIds
    <3> QED BY <3>1 DEF Minted
  <2>4. cand[c].status # "accepted"
    BY <1>7, IssuedNext DEF Minting, IsProposed
  <2>5. Minted(c)' = {t}
    BY <1>7, <2>4, UnacceptedMintsNothing, AddedMinted DEF Minting
  <2>6. \A d \in CandIds : d # c => Minted(d)' = Minted(d)
    BY <1>7, AddedMinted DEF Minting
  <2>7. mt' = [mt EXCEPT ![c] = {t}]
    BY <2>5, <2>6
  <2> QED BY <2>1, <2>2, <2>3, <2>7 DEF Ledger!Accept, Ledger!Fresh, Minted
<1>8. ASSUME NEW c \in CandIds, Closing(c) PROVE Ledger!Close(c)
  <2>1. st[c] = "proposed"
    BY <1>8 DEF Closing, IsProposed, LedgerState
  <2>2. st' = [st EXCEPT ![c] = "closed"] /\ mt' = mt
    BY <1>2, <1>3, <1>8 DEF Closing, LedgerState
  <2> QED BY <2>1, <2>2 DEF Ledger!Close, Minted
<1> QED BY <1>4, <1>5, <1>6, <1>7, <1>8 DEF Effect, Ledger!Next

\* The whole write path implements the abstract ledger: a candidate is settled
\* at most once, and accepting it mints one fresh learning.
THEOREM GovernanceImplementsLedger == Spec => ImplementsLedger
<1>1. LedgerInv /\ [Next]_vars =>
        [Ledger!Next]_<<[c \in CandIds |-> LedgerState(cand[c].status)],
                        [c \in CandIds |-> Minted(c)]>>
  BY StepEffect, EffectMaps DEF LedgerInv
<1> QED BY InitMaps, LedgerInvariant, <1>1, PTL
        DEF Spec, ImplementsLedger, Ledger!Spec, Minted

-----------------------------------------------------------------------------
(***************************************************************************)
(* Supersession. What the write path never undoes, for every value of the  *)
(* constants: a resolved candidate stays as it is, a learning that left    *)
(* the active set stays out of it, and what replaced it is replaced only   *)
(* by something newer that is alive. The candidates are argued action by   *)
(* action; the learnings through one relation, Succession, that every step *)
(* satisfies.                                                              *)
(***************************************************************************)
-----------------------------------------------------------------------------
(* Candidates *)

\* Every row but those in free is left as it is.
KeepsAllBut(free) == \A d \in CandIds \ free : cand'[d] = cand[d]

LEMMA InsertedRowOnly ==
    ASSUME TypeOK, NEW row, InsertCandidate(row)
    PROVE  KeepsAllBut({nCand + 1})
BY DEF TypeOK, InsertCandidate, KeepsAllBut

LEMMA SettledRowOnly ==
    ASSUME TypeOK, NEW c, NEW s, NEW f, NEW by, Settle(c, s, f, by)
    PROVE  KeepsAllBut({c})
BY DEF TypeOK, Settle, KeepsAllBut

\* A step changes no row that is neither queued nor fresh.
LEMMA StepTouchesQueued ==
    ASSUME TypeOK, [Next]_vars
    PROVE  \A d \in CandIds : d = nCand + 1 \/ IsProposed(d) \/ cand'[d] = cand[d]
<1> DEFINE Goal == \A d \in CandIds :
                     d = nCand + 1 \/ IsProposed(d) \/ cand'[d] = cand[d]
<1>1. ASSUME UNCHANGED cand PROVE Goal
  BY <1>1
<1>2. ASSUME KeepsAllBut({nCand + 1}) PROVE Goal
  BY <1>2 DEF KeepsAllBut
<1>3. ASSUME NEW c, IsProposed(c), KeepsAllBut({c}) PROVE Goal
  BY <1>3 DEF KeepsAllBut
<1>4. CASE UNCHANGED vars
  BY <1>1, <1>4 DEF vars, store
<1>5. CASE \E a \in Agents : Write(a)
  <2>1. PICK a \in Agents : Write(a)
    BY <1>5
  <2>2. CASE \E x \in Contents, priv \in Privacy, flag \in BOOLEAN :
               Stage(a, x, priv, flag) \/ StageAutoAccepted(a, x, priv, flag)
    BY <1>2, <2>2, InsertedRowOnly DEF Stage, StageAutoAccepted
  <2>3. CASE \E x \in Contents, priv \in Privacy : Ingest(a, x, priv)
    BY <1>2, <2>3, InsertedRowOnly DEF Ingest
  <2>4. CASE \/ \E x \in Contents, older \in 0..MaxLearn : ForceLearn(a, x, older)
             \/ \E x \in Contents, old \in SUBSET LearnIds, hashed \in BOOLEAN :
                   Correct(a, old, x, hashed)
    BY <1>1, <2>4 DEF ForceLearn, Correct
  <2> QED BY <2>1, <2>2, <2>3, <2>4 DEF Write
<1>6. CASE \E a \in Agents : Resolve(a)
  <2>1. PICK a \in Agents, c \in CandIds :
          \/ ResolveAccept(a, c)
          \/ \E s \in Dispositions : ResolveOther(a, c, s)
    BY <1>6 DEF Resolve
  <2>2. IsProposed(c) /\ KeepsAllBut({c})
    BY <2>1, SettledRowOnly DEF ResolveAccept, ResolveOther
  <2> QED BY <1>3, <2>2
<1>7. CASE \E p \in Passes : PassStep(p) \/ PassFault(p)
  <2>1. PICK p \in Passes : PassStep(p) \/ PassFault(p)
    BY <1>7
  <2>2. CASE PromoteCommit(p)
    <3>1. IsProposed(pass[p].cur) /\ KeepsAllBut({pass[p].cur})
      BY <2>2, SettledRowOnly DEF PromoteCommit
    <3> QED BY <1>3, <3>1
  <2>3. CASE \E c \in CandIds : Dedup(p, c)
    <3>1. PICK c \in CandIds : Dedup(p, c)
      BY <2>3
    <3>2. UNCHANGED cand \/ (IsProposed(c) /\ KeepsAllBut({c}))
      BY <3>1, SettledRowOnly DEF Dedup
    <3> QED BY <1>1, <1>3, <3>2
  <2>4. CASE \E c \in CandIds : Review(p, c)
    <3>1. PICK c \in CandIds : Review(p, c)
      BY <2>4
    <3>2. UNCHANGED cand \/ (IsProposed(c) /\ KeepsAllBut({c}))
      BY <3>1 DEF Review, KeepsAllBut, TypeOK
    <3> QED BY <1>1, <1>3, <3>2
  <2>5. CASE \/ PassFault(p)
             \/ EnsureDedupIndex(p) \/ SelectBatch(p) \/ FinishExamine(p)
             \/ BeginApply(p) \/ PromoteDrift(p) \/ FinishPass(p)
             \/ \E c \in CandIds : Examine(p, c) \/ PromoteRead(p, c)
    <3>1. UNCHANGED cand
      BY <2>5 DEF PassFault, LosePass, PromoteFail, EnsureDedupIndex, SelectBatch,
                  FinishExamine, BeginApply, PromoteDrift, FinishPass, Examine,
                  PromoteRead, store
    <3> QED BY <1>1, <3>1
  <2> QED BY <2>1, <2>2, <2>3, <2>4, <2>5 DEF PassStep
<1>8. CASE Unpark
  BY <1>1, <1>8 DEF Unpark
<1> QED BY <1>4, <1>5, <1>6, <1>7, <1>8 DEF Next

\* A candidate that was resolved is never rewritten: not by a second decision,
\* not by a pass that selected it earlier, not by a review of a stale batch.
THEOREM ResolvedStaysResolved == Spec => ResolutionIsTerminal
<1>1. LedgerInv /\ [Next]_vars =>
        [\A c \in CandIds : cand[c].status \notin {"absent", "proposed"}
            => cand'[c] = cand[c]]_vars
  <2> SUFFICES ASSUME LedgerInv, [Next]_vars,
                      NEW c \in CandIds, cand[c].status \notin {"absent", "proposed"}
               PROVE  cand'[c] = cand[c]
    OBVIOUS
  <2>1. c # nCand + 1 /\ ~IsProposed(c)
    BY IssuedNext DEF IsProposed
  <2> QED BY <2>1, StepTouchesQueued DEF LedgerInv
<1> QED BY LedgerInvariant, <1>1, PTL DEF Spec, ResolutionIsTerminal

-----------------------------------------------------------------------------
(* Learnings *)

\* A row keeps its text, its owner and its place among the successions.
SameRow(l) ==
    /\ learn'[l].status = learn[l].status /\ learn'[l].sup = learn[l].sup
    /\ learn'[l].content = learn[l].content /\ learn'[l].owner = learn[l].owner

\* The row is replaced by n: it is pointed at n, and Correct marks it too.
ReplacedBy(l, n) ==
    /\ learn'[l].status \in {learn[l].status, "superseded"} /\ learn'[l].sup = n
    /\ learn'[l].content = learn[l].content /\ learn'[l].owner = learn[l].owner

RowsKept == nLearn' = nLearn /\ \A l \in LearnIds : SameRow(l)

\* A row is added. It is live when it replaces others; a forced learning may
\* name itself as its successor, and then it replaces nothing.
RowAdded ==
    LET n == nLearn + 1 IN
    /\ nLearn' = n /\ n \in LearnIds
    /\ learn'[n].status = "active" /\ learn'[n].sup \in {0, n}
    /\ \A l \in LearnIds \ {n} :
          SameRow(l) \/ (ReplacedBy(l, n) /\ learn'[n].sup = 0)

Succession == RowsKept \/ RowAdded

LEMMA InsertedLearningSucceeds ==
    ASSUME TypeOK, NEW a, NEW x, NEW h, NEW c, NEW w, NEW via,
           InsertLearning(NewLearning(a, x, h, c, w, via))
    PROVE  Succession
<1>1. RowAdded
  BY BoundsAssumption
     DEF TypeOK, InsertLearning, NewLearning, RowAdded, SameRow, LearnIds
<1> QED BY <1>1 DEF Succession

LEMMA UnchangedSucceeds == UNCHANGED <<learn, nLearn>> => Succession
BY DEF Succession, RowsKept, SameRow

LEMMA ForceLearnSucceeds ==
    ASSUME TypeOK, NEW a \in Agents, NEW x \in Contents, NEW older,
           ForceLearn(a, x, older)
    PROVE  Succession
<1> DEFINE n == nLearn + 1
           row == NewLearning(a, x, FALSE, 0, a, "force")
           added == [learn EXCEPT ![n] = row]
<1>1. nLearn' = n /\ n \in LearnIds /\ older \in 0..n
  BY BoundsAssumption DEF ForceLearn, TypeOK, LearnIds
<1>2. learn' = IF older = 0 THEN added ELSE [added EXCEPT ![older].sup = n]
  BY DEF ForceLearn
<1>3. added \in [LearnIds -> Learning]
  <2>1. row \in Learning
    BY BoundsAssumption DEF NewLearning, Learning
  <2> QED BY <2>1 DEF TypeOK
<1>4. /\ added[n].status = "active" /\ added[n].sup = 0
      /\ \A l \in LearnIds \ {n} : added[l] = learn[l]
  BY <1>1 DEF TypeOK, NewLearning
<1>5. CASE older = 0
  <2>1. RowAdded
    BY <1>1, <1>2, <1>4, <1>5 DEF RowAdded, SameRow
  <2> QED BY <2>1 DEF Succession
<1>6. CASE older # 0
  <2>1. learn' = [added EXCEPT ![older] = [added[older] EXCEPT !.sup = n]]
    BY <1>2, <1>6
  <2>2. \A l \in LearnIds : added[l] \in Learning
    BY <1>3
  <2> HIDE DEF added
  <2>3. ASSUME NEW l \in LearnIds
        PROVE  learn'[l] = IF l = older THEN [added[older] EXCEPT !.sup = n]
                                        ELSE added[l]
    BY <1>3, <2>1
  <2>4. ASSUME NEW l \in LearnIds
        PROVE  /\ learn'[l].status = added[l].status
               /\ learn'[l].content = added[l].content
               /\ learn'[l].owner = added[l].owner
               /\ learn'[l].sup = IF l = older THEN n ELSE added[l].sup
    BY <2>2, <2>3 DEF Learning
  <2>5. RowAdded
    BY <1>1, <1>4, <2>4 DEF RowAdded, SameRow, ReplacedBy
  <2> QED BY <2>5 DEF Succession
<1> QED BY <1>5, <1>6

LEMMA CorrectSucceeds ==
    ASSUME TypeOK, NEW a \in Agents, NEW x, NEW old \in SUBSET LearnIds, NEW h,
           Correct(a, old, x, h)
    PROVE  Succession
<1> DEFINE n == nLearn + 1
           row == NewLearning(a, x, h, 0, a, "correct")
<1>1. nLearn' = n /\ n \in LearnIds
  <2>1. nLearn < MaxLearn /\ nLearn' = n
    BY DEF Correct
  <2> QED BY <2>1, BoundsAssumption DEF TypeOK, LearnIds
<1>2. learn' = [l \in LearnIds |->
              IF l = n THEN row
              ELSE IF l \in old
                   THEN [learn[l] EXCEPT !.status = "superseded", !.sup = n]
                   ELSE learn[l]]
  BY DEF Correct
<1>3. learn'[n] = row
  BY <1>1, <1>2
<1>4. ASSUME NEW l \in LearnIds, l # n PROVE SameRow(l) \/ ReplacedBy(l, n)
  <2>1. learn[l] \in Learning
    BY DEF TypeOK
  <2>2. CASE l \in old
    BY <1>2, <1>4, <2>1, <2>2 DEF ReplacedBy, Learning
  <2>3. CASE l \notin old
    BY <1>2, <1>4, <2>3 DEF SameRow
  <2> QED BY <2>2, <2>3
<1>5. RowAdded
  BY <1>1, <1>3, <1>4 DEF RowAdded, NewLearning
<1> QED BY <1>5 DEF Succession

LEMMA StepSucceeds ==
    ASSUME TypeOK, [Next]_vars
    PROVE  Succession
<1>1. CASE UNCHANGED vars
  BY <1>1, UnchangedSucceeds DEF vars, store
<1>2. CASE \E a \in Agents : Write(a)
  <2>1. PICK a \in Agents : Write(a)
    BY <1>2
  <2>2. CASE \E x \in Contents, priv \in Privacy, flag \in BOOLEAN :
               Stage(a, x, priv, flag) \/ StageAutoAccepted(a, x, priv, flag)
    BY <2>2, UnchangedSucceeds, InsertedLearningSucceeds DEF Stage, StageAutoAccepted
  <2>3. CASE \E x \in Contents, priv \in Privacy : Ingest(a, x, priv)
    BY <2>3, UnchangedSucceeds DEF Ingest
  <2>4. CASE \E x \in Contents, older \in 0..MaxLearn : ForceLearn(a, x, older)
    BY <2>4, ForceLearnSucceeds
  <2>5. CASE \E x \in Contents, old \in SUBSET LearnIds, hashed \in BOOLEAN :
               Correct(a, old, x, hashed)
    BY <2>5, CorrectSucceeds
  <2> QED BY <2>1, <2>2, <2>3, <2>4, <2>5 DEF Write
<1>3. CASE \E a \in Agents : Resolve(a)
  <2>1. PICK a \in Agents, c \in CandIds :
          \/ ResolveAccept(a, c)
          \/ \E s \in Dispositions : ResolveOther(a, c, s)
    BY <1>3 DEF Resolve
  <2> QED BY <2>1, UnchangedSucceeds, InsertedLearningSucceeds
          DEF ResolveAccept, ResolveOther
<1>4. CASE \E p \in Passes : PassStep(p) \/ PassFault(p)
  <2>1. PICK p \in Passes : PassStep(p) \/ PassFault(p)
    BY <1>4
  <2>2. CASE EnsureDedupIndex(p)
    <3>1. ASSUME NEW l \in LearnIds PROVE SameRow(l)
      <4>1. learn[l] \in Learning
        BY DEF TypeOK
      <4> QED BY <2>2, <4>1 DEF EnsureDedupIndex, SameRow, Learning
    <3> QED BY <2>2, <3>1 DEF EnsureDedupIndex, Succession, RowsKept
  <2>3. CASE PromoteCommit(p)
    BY <2>3, InsertedLearningSucceeds DEF PromoteCommit
  <2>4. CASE \/ PassFault(p)
             \/ SelectBatch(p) \/ FinishExamine(p)
             \/ BeginApply(p) \/ PromoteDrift(p) \/ FinishPass(p)
             \/ \E c \in CandIds : \/ Examine(p, c) \/ PromoteRead(p, c)
                                   \/ Dedup(p, c) \/ Review(p, c)
    <3>1. UNCHANGED <<learn, nLearn>>
      BY <2>4 DEF PassFault, LosePass, PromoteFail, SelectBatch, FinishExamine,
                  BeginApply, PromoteDrift, FinishPass, Examine, PromoteRead,
                  Dedup, Review, store
    <3> QED BY <3>1, UnchangedSucceeds
  <2> QED BY <2>1, <2>2, <2>3, <2>4 DEF PassStep
<1>5. CASE Unpark
  BY <1>5, UnchangedSucceeds DEF Unpark
<1> QED BY <1>1, <1>2, <1>3, <1>4, <1>5 DEF Next

-----------------------------------------------------------------------------
(* The invariant. No row points at one that is still to come, so a new row   *)
(* is newer than every successor; when a live row is replaced, the row that  *)
(* replaces it is live, and takes over every chain that led to the old one.  *)

SuccessorIssued == \A l \in LearnIds : learn[l].sup <= nLearn

SupersessionInv == LedgerInv /\ SuccessorIssued /\ SuccessorLives

LEMMA InitSupersessionInv == Init => SupersessionInv
BY InitLedgerInv
   DEF Init, SupersessionInv, SuccessorIssued, SuccessorLives, NoLearning

LEMMA SuccessionIssued ==
    ASSUME SupersessionInv, Succession
    PROVE  SuccessorIssued'
<1>1. \A l \in LearnIds : learn[l].sup \in Nat /\ learn[l].sup <= nLearn
  BY BoundsAssumption
     DEF SupersessionInv, LedgerInv, TypeOK, Learning, SuccessorIssued
<1>2. nLearn \in Nat
  BY BoundsAssumption DEF SupersessionInv, LedgerInv, TypeOK
<1>3. CASE RowsKept
  BY <1>1, <1>3 DEF RowsKept, SameRow, SuccessorIssued
<1>4. CASE RowAdded
  BY <1>1, <1>2, <1>4 DEF RowAdded, SameRow, ReplacedBy, SuccessorIssued
<1> QED BY <1>3, <1>4 DEF Succession

LEMMA SuccessionKeepsLife ==
    ASSUME SupersessionInv, Succession
    PROVE  SuccessorLives'
<1>1. \A l \in LearnIds : learn[l].sup \in Nat /\ learn[l].sup <= nLearn
  BY BoundsAssumption
     DEF SupersessionInv, LedgerInv, TypeOK, Learning, SuccessorIssued
<1>2. nLearn \in Nat /\ \A l \in LearnIds : l \in Nat
  BY BoundsAssumption DEF SupersessionInv, LedgerInv, TypeOK, LearnIds
<1>3. SuccessorLives
  BY DEF SupersessionInv
<1>4. CASE RowsKept
  BY <1>3, <1>4 DEF RowsKept, SameRow, SuccessorLives, Active
<1>5. CASE RowAdded
  <2>0. PICK n \in LearnIds : n = nLearn + 1
    BY <1>5 DEF RowAdded
  <2>1. CASE learn'[n].sup = 0
    <3>1. Active(n)'
      BY <1>5, <2>0, <2>1 DEF RowAdded, Active
    <3>2. \A l \in LearnIds : learn'[l].sup <= n
      BY <1>1, <1>2, <1>5, <2>0, <2>1 DEF RowAdded, SameRow, ReplacedBy
    <3> QED BY <3>1, <3>2 DEF SuccessorLives
  <2>2. CASE learn'[n].sup # 0
    <3>1. learn'[n].sup = n /\ \A l \in LearnIds \ {n} : SameRow(l)
      BY <1>5, <2>0, <2>2 DEF RowAdded
    <3>2. ASSUME NEW l \in LearnIds, learn'[l].sup \notin {0, l}
          PROVE  \E m \in LearnIds : m >= learn'[l].sup /\ Active(m)'
      <4>1. l # n /\ learn'[l].sup = learn[l].sup
        BY <3>1, <3>2 DEF SameRow
      <4>2. PICK m \in LearnIds : m >= learn[l].sup /\ Active(m)
        BY <1>3, <3>2, <4>1 DEF SuccessorLives
      <4>3. m # n
        BY <1>2, <2>0, <4>2 DEF SupersessionInv, LedgerInv, IdsIssued, Active
      <4> QED BY <3>1, <4>1, <4>2, <4>3 DEF SameRow, Active
    <3> QED BY <3>2 DEF SuccessorLives
  <2> QED BY <2>1, <2>2
<1> QED BY <1>4, <1>5 DEF Succession

LEMMA SupersessionInvariant == Spec => []SupersessionInv
<1>1. SupersessionInv /\ LedgerInv' /\ [Next]_vars => SupersessionInv'
  BY StepSucceeds, SuccessionIssued, SuccessionKeepsLife
     DEF SupersessionInv, LedgerInv
<1> QED BY InitSupersessionInv, LedgerInvariant, <1>1, PTL DEF Spec

\* Whatever is corrected, force-learned or promoted, a replaced learning has a
\* live learning at least as new as its successor.
THEOREM ReplacedHaveLiveSuccessor == Spec => []SuccessorLives
BY SupersessionInvariant, PTL DEF SupersessionInv

\* No step brings a learning back, rewrites its text or its owner, or points it
\* at an older successor.
THEOREM SupersessionOnlyAdvances == Spec => SupersessionIsMonotone
<1>1. SupersessionInv /\ [Next]_vars =>
        [\A l \in LearnIds : Present(l) =>
            /\ ~Active(l) => ~Active(l)'
            /\ learn'[l].content = learn[l].content /\ learn'[l].owner = learn[l].owner
            /\ learn'[l].sup >= learn[l].sup]_vars
  <2> SUFFICES ASSUME SupersessionInv, [Next]_vars, NEW l \in LearnIds, Present(l)
               PROVE  /\ ~Active(l) => ~Active(l)'
                      /\ learn'[l].content = learn[l].content
                      /\ learn'[l].owner = learn[l].owner
                      /\ learn'[l].sup >= learn[l].sup
    OBVIOUS
  <2>1. /\ learn[l].sup \in Nat /\ learn[l].sup <= nLearn /\ nLearn \in Nat
        /\ l \in Nat /\ l <= nLearn
    BY BoundsAssumption
       DEF SupersessionInv, SuccessorIssued, LedgerInv, IdsIssued, TypeOK, Learning,
           LearnIds, Present
  <2>2. SameRow(l) \/ ReplacedBy(l, nLearn + 1)
    <3>1. Succession
      BY StepSucceeds DEF SupersessionInv, LedgerInv
    <3> QED BY <2>1, <3>1 DEF Succession, RowsKept, RowAdded
  <2> QED BY <2>1, <2>2 DEF SameRow, ReplacedBy, Active
<1> QED BY SupersessionInvariant, <1>1, PTL DEF Spec, SupersessionIsMonotone

-----------------------------------------------------------------------------
(***************************************************************************)
(* Authority. On whose authority a text became durable, and how often it   *)
(* did, for every value of the constants. What a learning says of itself   *)
(* is never rewritten, and neither is what its candidate says once it is   *)
(* accepted; so both invariants are argued once, where a row is added. A   *)
(* promotion is made on what a pass saw earlier: the candidates that a     *)
(* pass carries stay as good as it found them.                             *)
(***************************************************************************)
-----------------------------------------------------------------------------
(* Candidates *)

\* What a candidate says is kept; its stamp may at most catch up with its text.
Faithful(c) ==
    /\ cand'[c].status # "absent"
    /\ cand'[c].privacy = cand[c].privacy /\ cand'[c].content = cand[c].content
    /\ cand'[c].owner = cand[c].owner
    /\ cand'[c].flagged \in {cand[c].flagged, InstructionLike(c)}

CandsFaithful == \A c \in CandIds : cand[c].status # "absent" => Faithful(c)

LEMMA UnchangedFaithful == UNCHANGED cand => CandsFaithful
BY DEF CandsFaithful, Faithful

LEMMA InsertedFaithful ==
    ASSUME LedgerInv, NEW row, InsertCandidate(row)
    PROVE  CandsFaithful
<1>1. \A c \in CandIds : cand[c].status # "absent" => c # nCand + 1
  BY IssuedNext
<1>2. KeepsAllBut({nCand + 1})
  BY InsertedRowOnly DEF LedgerInv
<1> QED BY <1>1, <1>2 DEF CandsFaithful, Faithful, KeepsAllBut

LEMMA SettledFaithful ==
    ASSUME TypeOK, NEW c \in CandIds, NEW s, NEW f, NEW by, Settle(c, s, f, by),
           s # "absent", f \in {cand[c].flagged, InstructionLike(c)}
    PROVE  CandsFaithful
<1>1. \A d \in CandIds : cand[d] \in Candidate
  BY DEF TypeOK
<1> QED BY <1>1 DEF TypeOK, Settle, Candidate, CandsFaithful, Faithful

LEMMA StepFaithful ==
    ASSUME LedgerInv, [Next]_vars
    PROVE  CandsFaithful
<1> USE DEF LedgerInv
<1>1. CASE UNCHANGED vars
  BY <1>1, UnchangedFaithful DEF vars, store
<1>2. CASE \E a \in Agents : Write(a)
  <2>1. PICK a \in Agents : Write(a)
    BY <1>2
  <2>2. CASE \E x \in Contents, priv \in Privacy, flag \in BOOLEAN :
               Stage(a, x, priv, flag) \/ StageAutoAccepted(a, x, priv, flag)
    BY <2>2, InsertedFaithful DEF Stage, StageAutoAccepted
  <2>3. CASE \E x \in Contents, priv \in Privacy : Ingest(a, x, priv)
    BY <2>3, InsertedFaithful DEF Ingest
  <2>4. CASE \/ \E x \in Contents, older \in 0..MaxLearn : ForceLearn(a, x, older)
             \/ \E x \in Contents, old \in SUBSET LearnIds, hashed \in BOOLEAN :
                   Correct(a, old, x, hashed)
    BY <2>4, UnchangedFaithful DEF ForceLearn, Correct
  <2> QED BY <2>1, <2>2, <2>3, <2>4 DEF Write
<1>3. CASE \E a \in Agents : Resolve(a)
  <2>1. PICK a \in Agents, c \in CandIds :
          \/ ResolveAccept(a, c)
          \/ \E s \in Dispositions : ResolveOther(a, c, s)
    BY <1>3 DEF Resolve
  <2>2. CASE ResolveAccept(a, c)
    BY <2>2, SettledFaithful DEF ResolveAccept
  <2>3. CASE \E s \in Dispositions : ResolveOther(a, c, s)
    BY <2>3, SettledFaithful, DispositionsAssumption DEF ResolveOther
  <2> QED BY <2>1, <2>2, <2>3
<1>4. CASE \E p \in Passes : PassStep(p) \/ PassFault(p)
  <2>1. PICK p \in Passes : PassStep(p) \/ PassFault(p)
    BY <1>4
  <2>2. CASE PromoteCommit(p)
    <3>1. pass[p].cur \in CandIds
      BY <2>2, BoundsAssumption DEF PromoteCommit, TypeOK, PassState, CandIds
    <3> QED BY <2>2, <3>1, SettledFaithful DEF PromoteCommit
  <2>3. CASE \E c \in CandIds : Dedup(p, c)
    <3>1. PICK c \in CandIds : Dedup(p, c)
      BY <2>3
    <3> QED BY <3>1, SettledFaithful, UnchangedFaithful DEF Dedup
  <2>4. CASE \E c \in CandIds : Review(p, c)
    <3>1. PICK c \in CandIds : Review(p, c)
      BY <2>4
    <3>2. CASE UNCHANGED cand
      BY <3>2, UnchangedFaithful
    <3>3. CASE IsProposed(c) /\ cand' = [cand EXCEPT ![c].flagged = InstructionLike(c)]
      <4>1. \A d \in CandIds : cand[d] \in Candidate
        BY DEF TypeOK
      <4>2. InstructionLike(c) \in BOOLEAN
        BY InstructionLikeBoolean
      <4> QED BY <3>3, <4>1, <4>2
              DEF TypeOK, Candidate, CandsFaithful, Faithful, IsProposed
    <3> QED BY <3>1, <3>2, <3>3 DEF Review
  <2>5. CASE \/ PassFault(p)
             \/ EnsureDedupIndex(p) \/ SelectBatch(p) \/ FinishExamine(p)
             \/ BeginApply(p) \/ PromoteDrift(p) \/ FinishPass(p)
             \/ \E c \in CandIds : Examine(p, c) \/ PromoteRead(p, c)
    <3>1. UNCHANGED cand
      BY <2>5 DEF PassFault, LosePass, PromoteFail, EnsureDedupIndex, SelectBatch,
                  FinishExamine, BeginApply, PromoteDrift, FinishPass, Examine,
                  PromoteRead, store
    <3> QED BY <3>1, UnchangedFaithful
  <2> QED BY <2>1, <2>2, <2>3, <2>4, <2>5 DEF PassStep
<1>5. CASE Unpark
  BY <1>5, UnchangedFaithful DEF Unpark
<1> QED BY <1>1, <1>2, <1>3, <1>4, <1>5 DEF Next

-----------------------------------------------------------------------------
(* What a pass carries *)

\* What run() promotes, and may still promote when its batch is applied.
Good(c) ==
    /\ cand[c].status # "absent" /\ cand[c].privacy = "safe"
    /\ ~InstructionLike(c) /\ cand[c].content \notin Short \cup Weak

\* The rows a pass has decided to promote, or is promoting, are good, and those
\* that it has still to examine are rows of the table.
PassesCarryGood ==
    \A p \in Passes :
      /\ \A c \in pass[p].todo : cand[c].status # "absent"
      /\ \A c \in pass[p].promote : Good(c)
      /\ \A c \in CandIds : pass[p].cur = c => Good(c)

LEMMA FaithfulKeepsGood ==
    ASSUME NEW c \in CandIds, Good(c), CandsFaithful
    PROVE  Good(c)'
BY DEF CandsFaithful, Faithful, Good, InstructionLike

\* What one step leaves of the memory of a pass.
CarriesOn(p) ==
    /\ pass'[p].todo \subseteq pass[p].todo
    /\ pass'[p].promote \subseteq pass[p].promote
    /\ pass'[p].cur \in {0, pass[p].cur} \cup pass[p].promote

CarriesGood(p) ==
    /\ \A c \in pass[p].todo : cand[c].status # "absent"
    /\ \A c \in pass[p].promote : Good(c)
    /\ \A c \in CandIds : pass[p].cur = c => Good(c)

LEMMA CarriesOnGood ==
    ASSUME TypeOK, CandsFaithful, PassesCarryGood, NEW p \in Passes, CarriesOn(p)
    PROVE  CarriesGood(p)'
<1>1. pass[p].todo \subseteq CandIds /\ pass[p].promote \subseteq CandIds
  BY DEF TypeOK, PassState
<1>2. ASSUME NEW c \in CandIds, Good(c) PROVE Good(c)'
  BY <1>2, FaithfulKeepsGood
<1>3. \A c \in pass'[p].todo : cand'[c].status # "absent"
  BY <1>1 DEF CarriesOn, PassesCarryGood, CandsFaithful, Faithful
<1>4. \A c \in pass'[p].promote : Good(c)'
  BY <1>1, <1>2 DEF CarriesOn, PassesCarryGood
<1>5. \A c \in CandIds : pass'[p].cur = c => Good(c)'
  <2>1. 0 \notin CandIds
    BY DEF CandIds
  <2> QED BY <1>2, <2>1 DEF CarriesOn, PassesCarryGood
<1> QED BY <1>3, <1>4, <1>5 DEF CarriesGood

LEMMA SelectCarriesGood ==
    ASSUME TypeOK, CandsFaithful, PassesCarryGood, NEW p \in Passes, SelectBatch(p)
    PROVE  CarriesGood(p)'
<1>1. pass[p] \in PassState
  BY DEF TypeOK
<1>2. /\ pass'[p].promote = pass[p].promote /\ pass'[p].cur = pass[p].cur
      /\ pass'[p].todo = {c \in CandIds : IsProposed(c) /\ c \notin fenced}
  BY <1>1 DEF SelectBatch, TypeOK, PassState
<1>3. cand' = cand
  BY DEF SelectBatch, store
<1> QED BY <1>2, <1>3 DEF CarriesGood, PassesCarryGood, Good, InstructionLike, IsProposed

LEMMA ExamineCarriesGood ==
    ASSUME TypeOK, CandsFaithful, PassesCarryGood, NEW p \in Passes,
           NEW c \in CandIds, Examine(p, c)
    PROVE  CarriesGood(p)'
<1>1. pass[p] \in PassState
  BY DEF TypeOK
<1>2. cand' = cand
  BY DEF Examine, store
<1> DEFINE d == Decision(p, c)
           key == <<Canon[cand[c].owner], cand[c].content>>
           row == [pass[p] EXCEPT
                    !.todo = @ \ {c}, !.took = @ \cup {c},
                    !.promote = IF d = "promote" THEN @ \cup {c} ELSE @,
                    !.seen = IF d = "promote" THEN @ \cup {key} ELSE @,
                    !.dedup = IF d = "dedup" THEN @ \cup {c} ELSE @,
                    !.review = IF d = "review" THEN @ \cup {c} ELSE @]
<1>3. pass' = [pass EXCEPT ![p] = row]
  BY DEF Examine
<1>4. d = "promote" => Good(c)
  BY DEF Decision, Good, PassesCarryGood, Examine
<1> HIDE DEF d, key
<1>5. /\ row.todo = pass[p].todo \ {c} /\ row.cur = pass[p].cur
      /\ row.promote = IF d = "promote" THEN pass[p].promote \cup {c}
                                        ELSE pass[p].promote
  BY <1>1 DEF PassState
<1>6. pass'[p] = row
  BY <1>3 DEF TypeOK
<1> HIDE DEF row
<1>7. Good(c)' <=> Good(c)
  BY <1>2 DEF Good, InstructionLike
<1>8. \A e : Good(e)' <=> Good(e)
  BY <1>2 DEF Good, InstructionLike
<1> QED BY <1>2, <1>4, <1>5, <1>6, <1>8 DEF CarriesGood, PassesCarryGood

LEMMA StepCarriesGood ==
    ASSUME LedgerInv, PassesCarryGood, [Next]_vars
    PROVE  PassesCarryGood'
<1>0. CandsFaithful /\ TypeOK
  BY StepFaithful DEF LedgerInv
<1> SUFFICES ASSUME NEW p \in Passes PROVE CarriesGood(p)'
  BY DEF PassesCarryGood, CarriesGood
<1>1. pass[p] \in PassState /\ pass \in [Passes -> PassState]
  BY <1>0 DEF TypeOK
<1>2. pass'[p] = pass[p] => CarriesOn(p)
  BY DEF CarriesOn
<1>3. pass' = pass => CarriesOn(p)
  BY <1>2
<1>4. CASE UNCHANGED vars
  BY <1>0, <1>3, <1>4, CarriesOnGood DEF vars
<1>5. CASE \E a \in Agents : Write(a) \/ Resolve(a)
  <2>1. pass' = pass
    BY ZenonT(30), <1>5 DEF Write, Resolve, Stage, StageAutoAccepted, Ingest, ForceLearn, Correct,
                ResolveAccept, ResolveOther
  <2> QED BY <1>0, <1>3, <2>1, CarriesOnGood
<1>6. CASE Unpark
  BY <1>0, <1>3, <1>6, CarriesOnGood DEF Unpark
<1>7. CASE \E q \in Passes : PassStep(q) \/ PassFault(q)
  <2>1. PICK q \in Passes : PassStep(q) \/ PassFault(q)
    BY <1>7
  <2>2. CASE q # p
    <3>1. pass'[p] = pass[p]
      BY <1>1, <2>1, <2>2
         DEF PassStep, PassFault, EnsureDedupIndex, SelectBatch, FinishExamine,
             BeginApply, PromoteCommit, PromoteDrift, FinishPass, Examine, PromoteRead,
             Dedup, Review, LosePass, PromoteFail
    <3> QED BY <1>0, <1>2, <3>1, CarriesOnGood
  <2>3. CASE q = p /\ SelectBatch(p)
    BY <1>0, <2>3, SelectCarriesGood
  <2>4. CASE q = p /\ \E c \in CandIds : Examine(p, c)
    BY <1>0, <2>4, ExamineCarriesGood
  <2>5. CASE q = p /\ ~SelectBatch(p) /\ ~\E c \in CandIds : Examine(p, c)
    <3>1. ASSUME EnsureDedupIndex(p) \/ FinishExamine(p) \/ BeginApply(p)
          PROVE  CarriesOn(p)
      BY <1>1, <3>1 DEF EnsureDedupIndex, FinishExamine, BeginApply, CarriesOn, PassState
    <3>2. ASSUME PromoteCommit(p) \/ PromoteDrift(p) \/ PromoteFail(p)
          PROVE  CarriesOn(p)
      <4>1. pass' = [pass EXCEPT ![p].cur = 0]
        BY <3>2 DEF PromoteCommit, PromoteDrift, PromoteFail
      <4> QED BY <1>1, <4>1 DEF CarriesOn, PassState
    <3>3. ASSUME FinishPass(p) \/ LosePass(p)
          PROVE  CarriesOn(p)
      BY <1>1, <3>3 DEF FinishPass, LosePass, IdlePass, CarriesOn
    <3>4. ASSUME \E c \in CandIds : PromoteRead(p, c)
          PROVE  CarriesOn(p)
      BY <1>1, <3>4 DEF PromoteRead, CarriesOn, PassState
    <3>5. ASSUME \E c \in CandIds : Dedup(p, c) \/ Review(p, c)
          PROVE  CarriesOn(p)
      BY <1>1, <3>5 DEF Dedup, Review, CarriesOn, PassState
    <3> QED BY <1>0, <2>1, <2>5, <3>1, <3>2, <3>3, <3>4, <3>5, CarriesOnGood
            DEF PassStep, PassFault
  <2> QED BY <2>1, <2>2, <2>3, <2>4, <2>5
<1> QED BY <1>4, <1>5, <1>6, <1>7 DEF Next

-----------------------------------------------------------------------------
(* Learnings *)

\* A row says what it said before; it may be given the hash it lacked.
Stamped(l) ==
    /\ Present(l)' <=> Present(l)
    /\ learn'[l].content = learn[l].content /\ learn'[l].owner = learn[l].owner
    /\ learn'[l].src = learn[l].src /\ learn'[l].via = learn[l].via
    /\ learn'[l].writer = learn[l].writer
    /\ learn[l].hashed => learn'[l].hashed

\* A row is added that says what row says.
Grown(row) ==
    LET n == nLearn + 1 IN
    /\ n \in LearnIds /\ nLearn' = n /\ learn'[n].status # "absent"
    /\ learn'[n].content = row.content /\ learn'[n].owner = row.owner
    /\ learn'[n].src = row.src /\ learn'[n].via = row.via
    /\ learn'[n].writer = row.writer /\ learn'[n].hashed = row.hashed
    /\ \A l \in LearnIds \ {n} : Stamped(l)

LearnsStamped == nLearn' = nLearn /\ \A l \in LearnIds : Stamped(l)

LEMMA UnchangedStamped == UNCHANGED <<learn, nLearn>> => LearnsStamped
BY DEF LearnsStamped, Stamped, Present

LEMMA InsertLearningGrows ==
    ASSUME TypeOK, NEW row, row.status # "absent", InsertLearning(row)
    PROVE  Grown(row)
BY BoundsAssumption DEF TypeOK, InsertLearning, Grown, Stamped, Present, LearnIds

LEMMA ForceLearnGrows ==
    ASSUME TypeOK, NEW a \in Agents, NEW x \in Contents, NEW older,
           ForceLearn(a, x, older)
    PROVE  Grown(NewLearning(a, x, FALSE, 0, a, "force"))
<1> DEFINE n == nLearn + 1
           row == NewLearning(a, x, FALSE, 0, a, "force")
           added == [learn EXCEPT ![n] = row]
<1>1. nLearn' = n /\ n \in LearnIds /\ older \in 0..n
  BY BoundsAssumption DEF ForceLearn, TypeOK, LearnIds
<1>2. learn' = IF older = 0 THEN added ELSE [added EXCEPT ![older].sup = n]
  BY DEF ForceLearn
<1>3. row \in Learning
  BY BoundsAssumption DEF NewLearning, Learning
<1>4. added \in [LearnIds -> Learning]
  BY <1>3 DEF TypeOK
<1>5. added[n] = row /\ \A l \in LearnIds \ {n} : added[l] = learn[l]
  BY <1>1 DEF TypeOK
<1>6. \A l \in LearnIds : added[l] \in Learning
  BY <1>4
<1> HIDE DEF added, row
<1>7. ASSUME NEW l \in LearnIds
      PROVE  /\ learn'[l].status = added[l].status
             /\ learn'[l].content = added[l].content
             /\ learn'[l].owner = added[l].owner
             /\ learn'[l].src = added[l].src /\ learn'[l].via = added[l].via
             /\ learn'[l].writer = added[l].writer
             /\ learn'[l].hashed = added[l].hashed
  <2>1. CASE older = 0
    BY <1>2, <2>1
  <2>2. CASE older # 0
    <3>1. learn'[l] = IF l = older THEN [added[l] EXCEPT !.sup = n] ELSE added[l]
      BY <1>2, <1>4, <2>2
    <3> QED BY <1>6, <3>1 DEF Learning
  <2> QED BY <2>1, <2>2
<1>8. row.status = "active"
  BY DEF row, NewLearning
<1>9. Grown(row)
  BY <1>1, <1>5, <1>7, <1>8 DEF Grown, Stamped, Present
<1> QED BY <1>9 DEF row

LEMMA CorrectGrows ==
    ASSUME TypeOK, NEW a \in Agents, NEW x, NEW old \in SUBSET LearnIds, NEW h,
           Correct(a, old, x, h)
    PROVE  Grown(NewLearning(a, x, h, 0, a, "correct"))
<1> DEFINE n == nLearn + 1
           row == NewLearning(a, x, h, 0, a, "correct")
<1>1. nLearn' = n /\ n \in LearnIds
  <2>1. nLearn < MaxLearn /\ nLearn' = n
    BY DEF Correct
  <2> QED BY <2>1, BoundsAssumption DEF TypeOK, LearnIds
<1>2. learn' = [l \in LearnIds |->
              IF l = n THEN row
              ELSE IF l \in old
                   THEN [learn[l] EXCEPT !.status = "superseded", !.sup = n]
                   ELSE learn[l]]
  BY DEF Correct
<1>3. learn'[n] = row /\ row.status = "active"
  BY <1>1, <1>2 DEF NewLearning
<1>4. \A l \in old : learn[l].status # "absent"
  BY DEF Correct
<1> HIDE DEF row
<1>5. ASSUME NEW l \in LearnIds, l # n PROVE Stamped(l)
  <2>1. learn[l] \in Learning
    BY DEF TypeOK
  <2>2. CASE l \in old
    BY <1>2, <1>4, <1>5, <2>1, <2>2 DEF Stamped, Present, Learning
  <2>3. CASE l \notin old
    BY <1>2, <1>5, <2>3 DEF Stamped, Present
  <2> QED BY <2>2, <2>3
<1>6. Grown(row)
  BY <1>1, <1>3, <1>5 DEF Grown, Present
<1> QED BY <1>6 DEF row

-----------------------------------------------------------------------------
(* What makes a row fit to be added *)

\* DurableByAuthority for one row and the candidate it came from.
Warrant(row, c) ==
    /\ row.via = "afm" => /\ c.privacy = "safe" /\ ~c.flagged
                          /\ row.content \notin Flagged \cup Short \cup Weak
    /\ row.via = "auto" => /\ row.owner \in AutoAccept
                           /\ row.content \notin Flagged \cup Short \cup Weak
    /\ row.via = "manual" =>
         /\ row.writer \in Operators \cup Explicit
         /\ c.flagged \/ row.content \in Flagged => row.writer \in FlagAcceptors
    /\ row.via = "correct" => (row.content \in Flagged => row.writer \in FlagAcceptors)
    /\ row.via = "force" => row.writer \in Operators

Warranted == \A l \in LearnIds : Present(l) => Warrant(learn[l], cand[learn[l].src])

LEMMA WarrantForm ==
    ASSUME TypeOK
    PROVE  DurableByAuthority <=> Warranted
<1>1. \A l \in LearnIds : learn[l].via \in {"force", "auto", "manual", "afm", "correct"}
  BY DEF TypeOK, Learning
<1> QED BY <1>1 DEF DurableByAuthority, Warranted, Warrant

\* A row names the candidate whose acceptance wrote it.
FromCandidate(row) == row.via \in {"afm", "auto", "manual"} => row.src \in CandIds

\* No live copy is there that the duplicate check could have seen.
FirstCopy(row) ==
    row.via = "auto" => row.hashed /\ ~HasActiveHash(row.content, row.owner)

Rightful(row) == Warrant(row, cand'[row.src]) /\ FromCandidate(row) /\ FirstCopy(row)

LEMMA StepAdds ==
    ASSUME LedgerInv, PassesCarryGood, [Next]_vars
    PROVE  LearnsStamped \/ \E row : Grown(row) /\ Rightful(row)
<1>0. TypeOK
  BY DEF LedgerInv
<1>1. CASE UNCHANGED vars
  BY <1>1, UnchangedStamped DEF vars, store
<1>2. ASSUME NEW a \in Agents, NEW x \in Contents, NEW priv \in Privacy,
             NEW flag \in BOOLEAN, StageAutoAccepted(a, x, priv, flag)
      PROVE  \E row : Grown(row) /\ Rightful(row)
  <2> DEFINE row == NewLearning(a, x, TRUE, nCand + 1, a, "auto")
  <2>1. Grown(row)
    BY <1>0, <1>2, InsertLearningGrows DEF StageAutoAccepted, NewLearning
  <2>2. nCand + 1 \in CandIds
    BY <1>0, <1>2, BoundsAssumption DEF StageAutoAccepted, InsertCandidate, TypeOK, CandIds
  <2>3. Rightful(row)
    BY <1>2, <2>2 DEF StageAutoAccepted, AutoAcceptable, Rightful, Warrant, FromCandidate,
                      FirstCopy, NewLearning
  <2> QED BY <2>1, <2>3
<1>3. ASSUME NEW a \in Agents, NEW x \in Contents, NEW older, ForceLearn(a, x, older)
      PROVE  \E row : Grown(row) /\ Rightful(row)
  <2> DEFINE row == NewLearning(a, x, FALSE, 0, a, "force")
  <2>1. Grown(row)
    BY <1>0, <1>3, ForceLearnGrows
  <2>2. Rightful(row)
    BY <1>3 DEF ForceLearn, Rightful, Warrant, FromCandidate, FirstCopy, NewLearning
  <2> QED BY <2>1, <2>2
<1>4. ASSUME NEW a \in Agents, NEW x, NEW old \in SUBSET LearnIds, NEW h,
             Correct(a, old, x, h)
      PROVE  \E row : Grown(row) /\ Rightful(row)
  <2> DEFINE row == NewLearning(a, x, h, 0, a, "correct")
  <2>1. Grown(row)
    BY <1>0, <1>4, CorrectGrows
  <2>2. x \in Flagged => a \in FlagAcceptors
    BY <1>4 DEF Correct
  <2>3. Rightful(row)
    BY <2>2 DEF Rightful, Warrant, FromCandidate, FirstCopy, NewLearning
  <2> QED BY <2>1, <2>3
<1>5. ASSUME NEW a \in Agents, NEW c \in CandIds, ResolveAccept(a, c)
      PROVE  \E row : Grown(row) /\ Rightful(row)
  <2> DEFINE row == NewLearning(a, cand[c].content, FALSE, c, a, "manual")
  <2>1. Grown(row)
    BY <1>0, <1>5, InsertLearningGrows DEF ResolveAccept, NewLearning
  <2>2. cand'[c].flagged = InstructionLike(c)
    BY <1>0, <1>5 DEF ResolveAccept, Settle, TypeOK, Candidate
  <2>3. Rightful(row)
    BY <1>5, <2>2 DEF ResolveAccept, InstructionLike, Rightful, Warrant, FromCandidate,
                      FirstCopy, NewLearning
  <2> QED BY <2>1, <2>3
<1>6. ASSUME NEW p \in Passes, PromoteCommit(p)
      PROVE  \E row : Grown(row) /\ Rightful(row)
  <2> DEFINE c == pass[p].cur
             row == NewLearning(Canon[cand[c].owner], cand[c].content, TRUE, c,
                                Canon[cand[c].owner], "afm")
  <2>1. c \in CandIds
    BY <1>0, <1>6, BoundsAssumption DEF PromoteCommit, TypeOK, PassState, CandIds
  <2>2. Grown(row)
    BY <1>0, <1>6, InsertLearningGrows DEF PromoteCommit, NewLearning
  <2>3. Good(c)
    BY <2>1 DEF PassesCarryGood
  <2>4. cand'[c].privacy = cand[c].privacy /\ cand'[c].flagged = cand[c].flagged
    BY <1>0, <1>6, <2>1 DEF PromoteCommit, Settle, TypeOK, Candidate
  <2>5. Rightful(row)
    BY <2>1, <2>3, <2>4 DEF Good, InstructionLike, Rightful, Warrant, FromCandidate,
                            FirstCopy, NewLearning
  <2> QED BY <2>2, <2>5
<1>7. CASE \E a \in Agents : Write(a)
  <2>1. PICK a \in Agents : Write(a)
    BY <1>7
  <2>2. CASE \/ \E x \in Contents, priv \in Privacy, flag \in BOOLEAN :
                   Stage(a, x, priv, flag)
             \/ \E x \in Contents, priv \in Privacy : Ingest(a, x, priv)
    BY <2>2, UnchangedStamped DEF Stage, Ingest
  <2> QED BY <1>2, <1>3, <1>4, <2>1, <2>2 DEF Write
<1>8. CASE \E a \in Agents : Resolve(a)
  <2>1. PICK a \in Agents, c \in CandIds :
          \/ ResolveAccept(a, c)
          \/ \E s \in Dispositions : ResolveOther(a, c, s)
    BY <1>8 DEF Resolve
  <2> QED BY <1>5, <2>1, UnchangedStamped DEF ResolveOther
<1>9. CASE \E p \in Passes : PassStep(p) \/ PassFault(p)
  <2>1. PICK p \in Passes : PassStep(p) \/ PassFault(p)
    BY <1>9
  <2>2. CASE EnsureDedupIndex(p)
    <3>1. ASSUME NEW l \in LearnIds PROVE Stamped(l)
      <4>1. learn[l] \in Learning
        BY <1>0 DEF TypeOK
      <4> QED BY <2>2, <4>1 DEF EnsureDedupIndex, Stamped, Present, Learning
    <3> QED BY <2>2, <3>1 DEF EnsureDedupIndex, LearnsStamped
  <2>3. CASE \/ PassFault(p)
             \/ SelectBatch(p) \/ FinishExamine(p)
             \/ BeginApply(p) \/ PromoteDrift(p) \/ FinishPass(p)
             \/ \E c \in CandIds : \/ Examine(p, c) \/ PromoteRead(p, c)
                                   \/ Dedup(p, c) \/ Review(p, c)
    <3>1. UNCHANGED <<learn, nLearn>>
      BY <2>3 DEF PassFault, LosePass, PromoteFail, SelectBatch, FinishExamine,
                  BeginApply, PromoteDrift, FinishPass, Examine, PromoteRead,
                  Dedup, Review, store
    <3> QED BY <3>1, UnchangedStamped
  <2> QED BY <1>6, <2>1, <2>2, <2>3 DEF PassStep
<1>10. CASE Unpark
  BY <1>10, UnchangedStamped DEF Unpark
<1> QED BY <1>1, <1>7, <1>8, <1>9, <1>10 DEF Next

-----------------------------------------------------------------------------
(* Authority *)

SourcesKnown == \A l \in LearnIds : Present(l) => FromCandidate(learn[l])

AuthorityInv == LedgerInv /\ PassesCarryGood /\ SourcesKnown /\ Warranted

LEMMA InitAuthorityInv == Init => AuthorityInv
<1> SUFFICES ASSUME Init PROVE AuthorityInv
  OBVIOUS
<1>1. LedgerInv
  BY InitLedgerInv
<1>2. PassesCarryGood
  BY DEF Init, PassesCarryGood, IdlePass, CandIds
<1>3. SourcesKnown /\ Warranted
  BY DEF Init, SourcesKnown, Warranted, Present, NoLearning
<1> QED BY <1>1, <1>2, <1>3 DEF AuthorityInv

\* What an accepted candidate says, a later step does not change.
LEMMA WarrantStays ==
    ASSUME AuthorityInv, [Next]_vars, NEW l \in LearnIds, Present(l), Stamped(l)
    PROVE  FromCandidate(learn'[l]) /\ Warrant(learn'[l], cand'[learn'[l].src])
<1>1. FromCandidate(learn[l]) /\ Warrant(learn[l], cand[learn[l].src])
  BY DEF AuthorityInv, SourcesKnown, Warranted
<1>2. CASE learn[l].src \in CandIds
  <2>1. cand[learn[l].src].status = "accepted"
    BY <1>2 DEF AuthorityInv, LedgerInv, AcceptedHasOneLearning
  <2>2. cand'[learn[l].src] = cand[learn[l].src]
    BY <1>2, <2>1, StepTouchesQueued, IssuedNext DEF AuthorityInv, LedgerInv, IsProposed
  <2> QED BY <1>1, <2>2 DEF Stamped, Warrant, FromCandidate
<1>3. CASE learn[l].src \notin CandIds
  BY <1>1, <1>3 DEF Stamped, Warrant, FromCandidate
<1> QED BY <1>2, <1>3

LEMMA StepWarranted ==
    ASSUME AuthorityInv, [Next]_vars
    PROVE  SourcesKnown' /\ Warranted'
<1> SUFFICES ASSUME NEW l \in LearnIds, Present(l)'
             PROVE  FromCandidate(learn'[l]) /\ Warrant(learn'[l], cand'[learn'[l].src])
  BY DEF SourcesKnown, Warranted, FromCandidate, Warrant
<1>1. LearnsStamped \/ \E row : Grown(row) /\ Rightful(row)
  BY StepAdds DEF AuthorityInv
<1>2. CASE Stamped(l)
  <2>1. Present(l)
    BY <1>2 DEF Stamped
  <2> QED BY <1>2, <2>1, WarrantStays
<1>3. CASE ~Stamped(l)
  <2>1. PICK row : Grown(row) /\ Rightful(row)
    BY <1>1, <1>3 DEF LearnsStamped
  <2>2. l = nLearn + 1
    BY <1>3, <2>1 DEF Grown
  <2> QED BY <2>1, <2>2 DEF Grown, Rightful, Warrant, FromCandidate
<1> QED BY <1>2, <1>3

LEMMA AuthorityInvariant == Spec => []AuthorityInv
<1>1. AuthorityInv /\ LedgerInv' /\ [Next]_vars => AuthorityInv'
  BY StepCarriesGood, StepWarranted DEF AuthorityInv
<1> QED BY InitAuthorityInv, LedgerInvariant, <1>1, PTL DEF Spec

\* Whoever stood behind a durable text had the authority that its path asks
\* for, whatever else was decided between the reading of a candidate, its
\* decision and its promotion.
THEOREM DurableTextHasAuthority == Spec => []DurableByAuthority
<1>1. AuthorityInv => DurableByAuthority
  BY WarrantForm DEF AuthorityInv, LedgerInv
<1> QED BY AuthorityInvariant, <1>1, PTL

-----------------------------------------------------------------------------
(* Copies *)

RejectedAsCopy(c) == cand[c].status = "rejected" /\ cand[c].by = "afm"

Kept(c) == \E l \in LearnIds : /\ Present(l) /\ learn[l].content = cand[c].content
                               /\ learn[l].owner = Canon[cand[c].owner]

\* Only Dedup rejects a row in the name of the passes, and it has the copy.
LEMMA StepRejectsCopies ==
    ASSUME LedgerInv, [Next]_vars, NEW c \in CandIds, RejectedAsCopy(c)'
    PROVE  RejectedAsCopy(c) \/ (IsProposed(c) /\ Kept(c))
<1>0. TypeOK /\ cand[c] \in Candidate
  BY DEF LedgerInv, TypeOK
<1>1. ASSUME cand' = cand PROVE RejectedAsCopy(c)
  BY <1>1 DEF RejectedAsCopy
<1>2. ASSUME NEW row, InsertCandidate(row), row.by # "afm" PROVE RejectedAsCopy(c)
  BY <1>0, <1>2 DEF TypeOK, InsertCandidate, RejectedAsCopy
<1>3. ASSUME NEW d \in CandIds, NEW s, NEW f, NEW by, Settle(d, s, f, by),
             s # "rejected" \/ by # "afm"
      PROVE  RejectedAsCopy(c)
  <2>1. d # c
    BY <1>0, <1>3 DEF TypeOK, Candidate, Settle, RejectedAsCopy
  <2> QED BY <1>0, <1>3, <2>1 DEF TypeOK, Settle, RejectedAsCopy
<1>4. CASE UNCHANGED vars
  BY <1>1, <1>4 DEF vars, store
<1>5. CASE \E a \in Agents : Write(a)
  BY ZenonT(30), <1>1, <1>2, <1>5
     DEF Write, Stage, StageAutoAccepted, Ingest, ForceLearn, Correct
<1>6. CASE \E a \in Agents : Resolve(a)
  <2>1. PICK a \in Agents, d \in CandIds :
          \/ ResolveAccept(a, d)
          \/ \E s \in Dispositions : ResolveOther(a, d, s)
    BY <1>6 DEF Resolve
  <2> QED BY <1>3, <2>1 DEF ResolveAccept, ResolveOther
<1>7. CASE \E p \in Passes : PassStep(p) \/ PassFault(p)
  <2>1. PICK p \in Passes : PassStep(p) \/ PassFault(p)
    BY <1>7
  <2>2. CASE PromoteCommit(p)
    <3>1. pass[p].cur \in CandIds
      BY <1>0, <2>2, BoundsAssumption DEF PromoteCommit, TypeOK, PassState, CandIds
    <3> QED BY <1>3, <2>2, <3>1 DEF PromoteCommit
  <2>3. CASE \E d \in CandIds : Dedup(p, d)
    <3>1. PICK d \in CandIds : Dedup(p, d)
      BY <2>3
    <3>2. CASE cand' = cand
      BY <1>1, <3>2
    <3>3. CASE /\ IsProposed(d)
               /\ HasActiveHash(cand[d].content, Canon[cand[d].owner])
               /\ Settle(d, "rejected", cand[d].flagged, "afm")
      <4>1. CASE d = c
        BY <3>3, <4>1 DEF HasActiveHash, Active, Kept, Present
      <4>2. CASE d # c
        BY <1>0, <3>3, <4>2 DEF TypeOK, Settle, RejectedAsCopy
      <4> QED BY <4>1, <4>2
    <3> QED BY <3>1, <3>2, <3>3 DEF Dedup
  <2>4. CASE \E d \in CandIds : Review(p, d)
    <3>1. PICK d \in CandIds : Review(p, d)
      BY <2>4
    <3>2. cand' = cand \/ cand' = [cand EXCEPT ![d].flagged = InstructionLike(d)]
      BY <3>1 DEF Review
    <3> QED BY <1>0, <1>1, <3>2 DEF TypeOK, Candidate, RejectedAsCopy
  <2>5. CASE \/ PassFault(p)
             \/ EnsureDedupIndex(p) \/ SelectBatch(p) \/ FinishExamine(p)
             \/ BeginApply(p) \/ PromoteDrift(p) \/ FinishPass(p)
             \/ \E d \in CandIds : Examine(p, d) \/ PromoteRead(p, d)
    <3>1. cand' = cand
      BY <2>5 DEF PassFault, LosePass, PromoteFail, EnsureDedupIndex, SelectBatch,
                  FinishExamine, BeginApply, PromoteDrift, FinishPass, Examine,
                  PromoteRead, store
    <3> QED BY <1>1, <3>1
  <2> QED BY <2>1, <2>2, <2>3, <2>4, <2>5 DEF PassStep
<1>8. CASE Unpark
  BY <1>1, <1>8 DEF Unpark
<1> QED BY <1>4, <1>5, <1>6, <1>7, <1>8 DEF Next

\* A row that was auto-accepted carries the hash that later checks look for.
AutoHashed == \A l \in LearnIds : Present(l) /\ learn[l].via = "auto" => learn[l].hashed

CopyInv == AuthorityInv /\ AutoHashed /\ CopiesYieldToOne

LEMMA InitCopyInv == Init => CopyInv
<1> SUFFICES ASSUME Init PROVE CopyInv
  OBVIOUS
<1>1. AutoHashed /\ CopiesYieldToOne
  BY DEF Init, AutoHashed, CopiesYieldToOne, RejectedCopyIsKept, AutoAcceptNeverTwins,
         Present, Active, NoLearning, NoCandidate
<1> QED BY <1>1, InitAuthorityInv DEF CopyInv

\* Every row but a new one says what it said; the new one was checked.
LEMMA StepStamps ==
    ASSUME AuthorityInv, [Next]_vars, NEW l \in LearnIds, Present(l)'
    PROVE  \/ Present(l) /\ Stamped(l)
           \/ /\ l = nLearn + 1 /\ \A m \in LearnIds \ {l} : Stamped(m)
              /\ learn'[l].via = "auto" =>
                   /\ learn'[l].hashed
                   /\ ~HasActiveHash(learn'[l].content, learn'[l].owner)
<1>1. LearnsStamped \/ \E row : Grown(row) /\ Rightful(row)
  BY StepAdds DEF AuthorityInv
<1>2. CASE Stamped(l)
  BY <1>2 DEF Stamped
<1>3. CASE ~Stamped(l)
  <2>1. PICK row : Grown(row) /\ Rightful(row)
    BY <1>1, <1>3 DEF LearnsStamped
  <2>2. l = nLearn + 1
    BY <1>3, <2>1 DEF Grown
  <2> QED BY <2>1, <2>2 DEF Grown, Rightful, FirstCopy
<1> QED BY <1>2, <1>3

\* No step brings a row back into the active set.
LEMMA StepActivatesOnlyNew ==
    ASSUME LedgerInv, [Next]_vars, NEW l \in LearnIds, Present(l), Active(l)'
    PROVE  Active(l)
<1>1. l # nLearn + 1 /\ nLearn + 1 # 0
  BY DEF LedgerInv, IdsIssued, TypeOK, LearnIds, Present
<1>2. SameRow(l) \/ ReplacedBy(l, nLearn + 1)
  <2>1. Succession
    BY StepSucceeds DEF LedgerInv
  <2> QED BY <1>1, <2>1 DEF Succession, RowsKept, RowAdded
<1> QED BY <1>1, <1>2 DEF SameRow, ReplacedBy, Active

LEMMA PresentStays ==
    ASSUME AuthorityInv, [Next]_vars, NEW l \in LearnIds, Present(l)
    PROVE  Present(l)' /\ Stamped(l)
<1>1. LearnsStamped \/ \E row : Grown(row) /\ Rightful(row)
  BY StepAdds DEF AuthorityInv
<1>2. l # nLearn + 1
  BY DEF AuthorityInv, LedgerInv, IdsIssued, TypeOK, LearnIds, Present
<1>3. Stamped(l)
  BY <1>1, <1>2 DEF LearnsStamped, Grown
<1> QED BY <1>3 DEF Stamped

LEMMA StepKeepsCopies ==
    ASSUME CopyInv, [Next]_vars
    PROVE  RejectedCopyIsKept'
<1> SUFFICES ASSUME NEW c \in CandIds, RejectedAsCopy(c)' PROVE Kept(c)'
  BY DEF RejectedCopyIsKept, RejectedAsCopy, Kept
<1>0. LedgerInv /\ AuthorityInv
  BY DEF CopyInv, AuthorityInv
<1>1. RejectedAsCopy(c) \/ (IsProposed(c) /\ Kept(c))
  BY <1>0, StepRejectsCopies
<1>2. Kept(c)
  BY <1>1 DEF CopyInv, CopiesYieldToOne, RejectedCopyIsKept, RejectedAsCopy, Kept
<1>3. PICK l \in LearnIds : /\ Present(l) /\ learn[l].content = cand[c].content
                            /\ learn[l].owner = Canon[cand[c].owner]
  BY <1>2 DEF Kept
<1>4. Present(l)' /\ Stamped(l)
  BY <1>0, <1>3, PresentStays
<1>5. cand'[c].content = cand[c].content /\ cand'[c].owner = cand[c].owner
  <2>1. cand[c].status # "absent"
    BY <1>1 DEF RejectedAsCopy, IsProposed
  <2> QED BY <1>0, <2>1, StepFaithful DEF CandsFaithful, Faithful
<1> QED BY <1>3, <1>4, <1>5 DEF Kept, Stamped

LEMMA StepTwinsNone ==
    ASSUME CopyInv, [Next]_vars
    PROVE  AutoAcceptNeverTwins' /\ AutoHashed'
<1>0. LedgerInv /\ AuthorityInv
  BY DEF CopyInv, AuthorityInv
<1>1. AutoHashed'
  BY <1>0, StepStamps DEF CopyInv, AutoHashed, Stamped
<1>2. AutoAcceptNeverTwins /\ AutoHashed
  BY DEF CopyInv, CopiesYieldToOne
<1>3. ASSUME NEW l \in LearnIds, NEW m \in LearnIds, l # m, Present(m), Stamped(m),
             Active(m)', ~Present(l), l = nLearn + 1,
             learn'[m].via = "auto",
             ~HasActiveHash(learn'[l].content, learn'[l].owner)
      PROVE  <<learn'[l].owner, learn'[l].content>> # <<learn'[m].owner, learn'[m].content>>
  <2>1. Active(m) /\ learn[m].hashed
    BY <1>0, <1>2, <1>3, StepActivatesOnlyNew DEF AutoHashed, Stamped
  <2> QED BY <1>3, <2>1 DEF HasActiveHash, Stamped
<1>4. AutoAcceptNeverTwins'
  <2> SUFFICES ASSUME NEW l \in LearnIds, NEW m \in LearnIds, Active(l)', Active(m)',
                      l # m, learn'[l].via = "auto", learn'[m].via = "auto"
               PROVE  <<learn'[l].owner, learn'[l].content>>
                        # <<learn'[m].owner, learn'[m].content>>
    BY DEF AutoAcceptNeverTwins
  <2>1. Present(l)' /\ Present(m)'
    BY DEF Active, Present
  <2>2. CASE Present(l) /\ Stamped(l) /\ Present(m) /\ Stamped(m)
    <3>1. Active(l) /\ Active(m)
      BY <1>0, <2>2, StepActivatesOnlyNew
    <3> QED BY <1>2, <2>2, <3>1 DEF AutoAcceptNeverTwins, Stamped
  <2>3. ~Present(nLearn + 1) \/ nLearn + 1 \notin LearnIds
    BY <1>0 DEF LedgerInv, IdsIssued, TypeOK, LearnIds, Present
  <2>4. CASE ~(Present(l) /\ Stamped(l))
    <3>1. /\ l = nLearn + 1 /\ \A k \in LearnIds \ {l} : Stamped(k)
          /\ ~HasActiveHash(learn'[l].content, learn'[l].owner)
      BY <1>0, <2>1, <2>4, StepStamps
    <3>2. Stamped(m) /\ Present(m) /\ ~Present(l)
      BY <2>1, <2>3, <3>1 DEF Stamped
    <3> QED BY <1>3, <3>1, <3>2
  <2>5. CASE ~(Present(m) /\ Stamped(m))
    <3>1. /\ m = nLearn + 1 /\ \A k \in LearnIds \ {m} : Stamped(k)
          /\ ~HasActiveHash(learn'[m].content, learn'[m].owner)
      BY <1>0, <2>1, <2>5, StepStamps
    <3>2. Stamped(l) /\ Present(l) /\ ~Present(m)
      BY <2>1, <2>3, <3>1 DEF Stamped
    <3> QED BY <1>3, <3>1, <3>2
  <2> QED BY <2>2, <2>4, <2>5
<1> QED BY <1>1, <1>4

\* A text that a pass rejects as a duplicate is kept in the learnings under the
\* same owner, and no two auto-accepts of one owner leave it active twice.
THEOREM OneCopyIsKept == Spec => []CopiesYieldToOne
<1>1. CopyInv /\ AuthorityInv' /\ [Next]_vars => CopyInv'
  BY StepKeepsCopies, StepTwinsNone DEF CopyInv, CopiesYieldToOne
<1>2. CopyInv => CopiesYieldToOne
  BY DEF CopyInv
<1> QED BY InitCopyInv, AuthorityInvariant, <1>1, <1>2, PTL DEF Spec

-----------------------------------------------------------------------------
(***************************************************************************)
(* A ranking. Recall keeps what it promises a search, for every number of  *)
(* variants and of invalidations. The invariant says what each verdict has *)
(* cost in time, and where a call that has a verdict may be; it is argued  *)
(* step by step, most steps by what they leave alone.                      *)
(***************************************************************************)
-----------------------------------------------------------------------------
(* The invariant *)

Places == {"expand", "variant", "lexical", "semantic", "encode", "search", "load", "again",
           "fuse", "rerank", "hyde", "gate", "settle", "join", "published", "interrupted"}
Pass == [flags : Flags, rows : BOOLEAN, lacks : BOOLEAN]

Numbers ==
    /\ remaining \in 0 .. 3 /\ start \in 0 .. 3 /\ remaining <= start
    /\ invalidations \in 0 .. MaxInvalidations
    /\ variants \in 1 .. MaxVariants /\ variant \in 0 .. variants
Words ==
    /\ ranker \in {"off", "cold", "warm", "missing"} /\ index \in {"none", "cold", "ready"}
    /\ place \in Places /\ round \in {1, 2} /\ expanded \in Marks
Rankings ==
    /\ flags \in Flags /\ before \in Pass /\ kept \in Seq(Pass)
    /\ lexical \in BOOLEAN /\ rows \in BOOLEAN /\ lacks \in BOOLEAN
Typed == Numbers /\ Words /\ Rankings

\* Where the call is goes with the query it runs and the rankings it has.
InPlace ==
    /\ round = 2 => place \in {"encode", "search", "load", "again", "fuse", "rerank", "gate"}
    /\ place = "expand" => variant = 0
    /\ variant = 0 => /\ variants = 1 /\ place \notin {"variant", "join"}
                      /\ place # "published" => kept = <<>>
    /\ variant > 0 => /\ place \notin {"expand", "interrupted"} /\ Len(kept) <= variants
                      /\ place \notin {"join", "published"} => Len(kept) = variant - 1

\* What is late has cost the time for a stage, and a call that began without it
\* skips the vector leg.
OnTime(f, time) == Poisoned(f) => time <= 2
LateIsLate ==
    /\ OnTime(flags, remaining) /\ OnTime(before.flags, remaining)
    /\ place = "interrupted" => remaining = 0 /\ ~rows
    /\ start <= 1 =>
         /\ variant = 0 /\ round = 1
         /\ place \notin {"encode", "search", "load", "again"}
         /\ place \in {"fuse", "rerank", "hyde", "gate", "settle", "published"} =>
              flags.vector = "late"

\* A first round that was in time is kept beside what follows it.
CompleteStands ==
    complete => /\ round = 1 => place \in {"hyde", "gate", "settle"} /\ ~Poisoned(flags)
                /\ round = 2 => IF place = "gate" THEN ~Poisoned(flags) ELSE ~Poisoned(before.flags)

\* A ranking that has not seen its vectors says so, unless the call began with time
\* for a rebuild.
TellsLack(f, l) == l /\ f.vector = "none" => start = 3
LacksAreTold ==
    /\ place \in {"expand", "lexical"} => ~lacks
    /\ place \in {"fuse", "rerank", "hyde", "gate", "settle"} /\ (round = 1 \/ place = "gate")
         => TellsLack(flags, lacks)
    /\ round = 2 /\ place # "gate" =>
         /\ TellsLack(before.flags, before.lacks)
         /\ before.flags.vector # "none" => flags.vector # "none"

CountsInTime ==
    counted => /\ place \in {"settle", "published"} /\ ~Poisoned(flags)
               /\ place = "settle" => variant = 0

\* The rankings that were kept.
KeptOK(ps, time, s) ==
    \A i \in DOMAIN ps : /\ OnTime(ps[i].flags, time)
                         /\ ps[i].lacks /\ ps[i].flags.vector = "none" => s = 3
KeptStand == KeptOK(kept, remaining, start) /\ (timely => HasRanking /\ InTime)

\* What is published is the one ranking, or the merge of those that were kept.
PublishedIsKept ==
    place = "published" =>
      IF variant = 0 THEN kept = <<[flags |-> flags, rows |-> rows, lacks |-> lacks]>>
      ELSE /\ flags.vector = Joined("vector") /\ flags.rerank = Joined("rerank")
           /\ Truncated => flags.expand = "late"

RecallInv == Typed /\ InPlace /\ LateIsLate /\ CompleteStands /\ LacksAreTold /\ CountsInTime
             /\ KeptStand /\ PublishedIsKept

LEMMA MarksOf ==
    ASSUME NEW f \in Flags, NEW v \in Marks
    PROVE  /\ f.vector \in Marks /\ f.rerank \in Marks /\ f.expand \in Marks /\ f.hyde \in Marks
           /\ [f EXCEPT !["vector"] = v] \in Flags /\ [f EXCEPT !["rerank"] = v] \in Flags
           /\ [f EXCEPT !["expand"] = v] \in Flags /\ [f EXCEPT !["hyde"] = v] \in Flags
BY DEF Flags

\* As the clock runs, what was kept stays as good; ...
LEMMA KeptStaysOK ==
    ASSUME NEW ps, NEW s, NEW time \in Nat, NEW l \in Nat, KeptOK(ps, time, s), l <= time
    PROVE  KeptOK(ps, l, s)
<1>1. ASSUME NEW f, OnTime(f, time) PROVE OnTime(f, l)
  BY <1>1 DEF OnTime
<1> QED BY <1>1, Zenon DEF KeptOK

\* ... and it stays so when one more ranking is kept.
LEMMA KeptGrowsOK ==
    ASSUME NEW ps \in Seq(Pass), NEW c \in Pass, NEW time, NEW s, KeptOK(ps, time, s),
           OnTime(c.flags, time), c.lacks /\ c.flags.vector = "none" => s = 3
    PROVE  KeptOK(Append(ps, c), time, s)
<1>1. \A i \in DOMAIN Append(ps, c) :
         Append(ps, c)[i] = c \/ (i \in DOMAIN ps /\ Append(ps, c)[i] = ps[i])
  OBVIOUS
<1> QED BY <1>1, Zenon DEF KeptOK

LEMMA Blank == Clean \in Flags /\ ~Poisoned(Clean) /\ NoPass \in Pass /\ NoPass.flags = Clean
<1>1. Clean \in Flags /\ ~Poisoned(Clean)
  BY DEF Clean, Flags, Marks, Poisoned
<1> QED BY <1>1 DEF NoPass, Pass

LEMMA FlagStays ==
    ASSUME flags \in Flags, NEW name \in {"vector", "rerank", "expand", "hyde"}, NEW v \in Marks,
           Flag(name, v)
    PROVE  flags' \in Flags
BY MarksOf DEF Flag

LEMMA DropStays ==
    ASSUME before \in Pass, NEW v \in Marks, DropSecond(v)
    PROVE  flags' \in Flags
<1>1. before.flags \in Flags
  BY DEF Pass
<1> QED BY <1>1, MarksOf DEF DropSecond

LEMMA RecallInitInv == RecallInit => RecallInv
<1> SUFFICES ASSUME RecallInit PROVE RecallInv
  OBVIOUS
<1>1. Typed
  <2>1. Numbers
    BY RecallAssumption DEF RecallInit, Numbers, Budgets
  <2>2. Words
    BY DEF RecallInit, Words, Places, Marks
  <2>3. Rankings
    <3>1. kept \in Seq(Pass)
      BY DEF RecallInit
    <3> QED BY <3>1, Blank DEF RecallInit, Rankings
  <2> QED BY <2>1, <2>2, <2>3 DEF Typed
<1>2. InPlace
  BY DEF RecallInit, InPlace
<1>3. LateIsLate
  BY Blank DEF RecallInit, LateIsLate, OnTime
<1>4. CompleteStands /\ CountsInTime /\ LacksAreTold /\ PublishedIsKept
  BY DEF RecallInit, CompleteStands, CountsInTime, LacksAreTold, PublishedIsKept
<1>5. KeptStand
  BY DEF RecallInit, KeptStand, KeptOK
<1> QED BY <1>1, <1>2, <1>3, <1>4, <1>5 DEF RecallInv

\* What a leg or a round leaves alone keeps its part of the invariant.
LEMMA LegLeavesCall ==
    ASSUME RecallInv, UNCHANGED <<Call, invalidations>>, remaining' \in 0 .. remaining,
           place \notin {"settle", "published"}, place' # "published"
    PROVE  Numbers' /\ kept' \in Seq(Pass) /\ CountsInTime' /\ KeptStand' /\ PublishedIsKept'
<1>1. Numbers'
  BY DEF RecallInv, Typed, Numbers, Call
<1>2. kept' \in Seq(Pass)
  BY DEF RecallInv, Typed, Rankings, Call
<1>3. CountsInTime' /\ PublishedIsKept'
  BY DEF RecallInv, CountsInTime, PublishedIsKept, Call
<1>4. KeptStand'
  <2>1. KeptOK(kept, remaining', start)
    BY KeptStaysOK DEF RecallInv, Typed, Numbers, KeptStand
  <2> QED BY <2>1 DEF RecallInv, KeptStand, HasRanking, InTime, Call
<1> QED BY <1>1, <1>2, <1>3, <1>4

\* The clock, the watch and the other requests change the world of a call only.
LEMMA WorldChanges ==
    ASSUME RecallInv, UNCHANGED Untouched, remaining' \in 0 .. remaining,
           invalidations' \in 0 .. MaxInvalidations, place \notin {"published", "interrupted"},
           ranker' \in {"off", "cold", "warm", "missing"}, index' \in {"none", "cold", "ready"}
    PROVE  RecallInv'
<1>1. Typed'
  BY DEF RecallInv, Typed, Numbers, Words, Rankings, Untouched, Call
<1>2. InPlace' /\ CompleteStands' /\ CountsInTime'
  BY DEF RecallInv, InPlace, CompleteStands, CountsInTime, Untouched, Call
<1>3. LateIsLate'
  BY DEF RecallInv, Typed, Numbers, LateIsLate, OnTime, Untouched, Call
<1>4. LacksAreTold' /\ PublishedIsKept'
  BY DEF RecallInv, LacksAreTold, TellsLack, PublishedIsKept, Untouched, Call
<1>5. KeptStand'
  <2>1. KeptOK(kept, remaining', start)
    BY KeptStaysOK DEF RecallInv, Typed, Numbers, KeptStand
  <2> QED BY <2>1 DEF RecallInv, KeptStand, HasRanking, InTime, Untouched, Call
<1> QED BY <1>1, <1>2, <1>3, <1>4, <1>5 DEF RecallInv

\* One lemma for each step of the call, in the order they are made.
LEMMA ExpandStands == ASSUME RecallInv, Expand PROVE RecallInv'
<1>1. Typed'
  <2>1. Numbers'
    BY RecallAssumption DEF RecallInv, Typed, Numbers, Expand, World
  <2>2. Words'
    BY DEF RecallInv, Typed, Words, Rankings, Places, Marks, Flags, Expand, Flag, World
  <2>3. Rankings'
    <3>1. flags' \in Flags
      <4>1. PICK expand \in BOOLEAN, v \in {"none", "fault"} :
                   Flag("expand", IF expand /\ PastDeadline THEN "late" ELSE v)
        BY DEF Expand
      <4>2. (IF expand /\ PastDeadline THEN "late" ELSE v) \in Marks
        BY DEF Marks
      <4> QED BY <4>1, <4>2, FlagStays DEF RecallInv, Typed, Rankings
    <3>2. before' \in Pass
      BY DEF RecallInv, Typed, Rankings, Expand
    <3>3. kept' \in Seq(Pass)
      BY DEF RecallInv, Typed, Rankings, Expand
    <3>4. lexical' \in BOOLEAN
      BY DEF RecallInv, Typed, Rankings, Expand
    <3>5. rows' \in BOOLEAN
      BY DEF RecallInv, Typed, Rankings, Expand
    <3>6. lacks' \in BOOLEAN
      BY DEF RecallInv, Typed, Rankings, Expand
    <3> QED BY <3>1, <3>2, <3>3, <3>4, <3>5, <3>6 DEF Rankings
  <2> QED BY <2>1, <2>2, <2>3 DEF Typed
<1>2. InPlace'
  BY DEF RecallInv, InPlace, Expand
<1>3. LateIsLate'
  BY DEF RecallInv, Typed, Numbers, LateIsLate, OnTime, Poisoned, Expand, PastDeadline, Flag
<1>4. CompleteStands'
  BY DEF RecallInv, CompleteStands, Expand
<1>5. LacksAreTold'
  BY DEF RecallInv, LacksAreTold, InPlace, Expand
<1>6. CountsInTime'
  BY DEF RecallInv, CountsInTime, Expand
<1>7. KeptStand'
  BY KeptStaysOK DEF RecallInv, KeptStand, HasRanking, InTime, Expand
<1>8. PublishedIsKept'
  BY DEF PublishedIsKept, Expand
<1> QED BY <1>1, <1>2, <1>3, <1>4, <1>5, <1>6, <1>7, <1>8 DEF RecallInv

LEMMA BeginVariantStands == ASSUME RecallInv, BeginVariant PROVE RecallInv'
<1>1. /\ UNCHANGED <<Call, invalidations>> /\ remaining' \in 0 .. remaining
      /\ place \notin {"settle", "published"} /\ place' # "published"
  BY DEF RecallInv, Typed, Numbers, BeginVariant, World
<1>2. Words'
  BY DEF RecallInv, Typed, Words, Places, BeginVariant, World, Call
<1>3. Rankings'
  <2>1. flags' \in Flags
    BY Blank DEF RecallInv, Typed, Rankings, BeginVariant
  <2>2. before' \in Pass
    BY DEF RecallInv, Typed, Rankings, BeginVariant
  <2>3. lexical' \in BOOLEAN
    BY DEF RecallInv, Typed, Rankings, BeginVariant
  <2>4. rows' \in BOOLEAN
    BY DEF RecallInv, Typed, Rankings, BeginVariant
  <2>5. lacks' \in BOOLEAN
    BY DEF RecallInv, Typed, Rankings, BeginVariant
  <2> QED BY <1>1, <2>1, <2>2, <2>3, <2>4, <2>5, LegLeavesCall DEF Rankings
<1>4. InPlace'
  BY DEF RecallInv, InPlace, BeginVariant, Call
<1>5. LateIsLate'
  BY DEF RecallInv, LateIsLate, OnTime, Poisoned, BeginVariant, Clean, Call
<1>6. CompleteStands'
  BY DEF RecallInv, CompleteStands, BeginVariant
<1>7. LacksAreTold'
  BY DEF RecallInv, LacksAreTold, InPlace, BeginVariant
<1> QED BY <1>1, <1>2, <1>3, <1>4, <1>5, <1>6, <1>7, LegLeavesCall DEF RecallInv, Typed

LEMMA LexicalStands == ASSUME RecallInv, Lexical PROVE RecallInv'
<1>1. /\ UNCHANGED <<Call, invalidations>> /\ remaining' \in 0 .. remaining
      /\ place \notin {"settle", "published"} /\ place' # "published"
  BY DEF RecallInv, Typed, Numbers, Lexical, World
<1>2. Words'
  BY DEF RecallInv, Typed, Words, Places, Lexical, World, Call
<1>3. Rankings'
  <2>1. flags' \in Flags
    BY MarksOf DEF RecallInv, Typed, Rankings, Marks, Lexical, Flag
  <2>2. before' \in Pass
    BY DEF RecallInv, Typed, Rankings, Lexical
  <2>3. lexical' \in BOOLEAN
    BY DEF Lexical
  <2>4. rows' \in BOOLEAN
    BY DEF Lexical
  <2>5. lacks' \in BOOLEAN
    BY DEF RecallInv, Typed, Rankings, Lexical
  <2> QED BY <1>1, <2>1, <2>2, <2>3, <2>4, <2>5, LegLeavesCall DEF Rankings
<1>4. InPlace'
  BY DEF RecallInv, InPlace, Lexical, Call
<1>5. LateIsLate'
  BY DEF RecallInv, Typed, Numbers, Rankings, LateIsLate, OnTime, Poisoned, Flags, Lexical, Flag, PastDeadline, Call
<1>6. CompleteStands'
  BY DEF RecallInv, CompleteStands, InPlace, Lexical
<1>7. LacksAreTold'
  BY DEF RecallInv, LacksAreTold, TellsLack, InPlace, Lexical
<1> QED BY <1>1, <1>2, <1>3, <1>4, <1>5, <1>6, <1>7, LegLeavesCall DEF RecallInv, Typed

LEMMA SemanticStands == ASSUME RecallInv, Semantic PROVE RecallInv'
<1>1. /\ UNCHANGED <<Call, invalidations>> /\ remaining' \in 0 .. remaining
      /\ place \notin {"settle", "published"} /\ place' # "published"
  BY DEF RecallInv, Typed, Numbers, Semantic, LateLeg, LegEnds, Goes, World
<1>2. Words'
  BY DEF RecallInv, Typed, Words, Places, Semantic, LateLeg, LegEnds, Goes, World, Call
<1>3. Rankings'
  <2>1. flags' \in Flags
    BY MarksOf DEF RecallInv, Typed, Rankings, Marks, Semantic, LateLeg, Goes, Flag
  <2>2. before' \in Pass
    BY DEF RecallInv, Typed, Rankings, Semantic
  <2>3. lexical' \in BOOLEAN
    BY DEF RecallInv, Typed, Rankings, Semantic
  <2>4. rows' \in BOOLEAN
    BY DEF RecallInv, Typed, Rankings, Semantic, LateLeg, LegEnds, Goes
  <2>5. lacks' \in BOOLEAN
    BY DEF RecallInv, Typed, Rankings, Semantic, LateLeg, LegEnds, Goes
  <2> QED BY <1>1, <2>1, <2>2, <2>3, <2>4, <2>5, LegLeavesCall DEF Rankings
<1>4. InPlace'
  BY DEF RecallInv, InPlace, Semantic, LateLeg, LegEnds, Goes, Call
<1>5. LateIsLate'
  BY DEF RecallInv, Typed, Numbers, Rankings, LateIsLate, OnTime, Flags, Semantic, PastDeadline, LateLeg, LegEnds, Goes, Call, Flag
<1>6. CompleteStands'
  BY DEF RecallInv, CompleteStands, InPlace, Semantic
<1>7. LacksAreTold'
  BY DEF RecallInv, Typed, Rankings, LacksAreTold, TellsLack, Flags, InPlace, Semantic, LateLeg, LegEnds, Goes, Flag
<1> QED BY <1>1, <1>2, <1>3, <1>4, <1>5, <1>6, <1>7, LegLeavesCall DEF RecallInv, Typed

LEMMA EncodeStands == ASSUME RecallInv, Encode PROVE RecallInv'
<1>1. /\ UNCHANGED <<Call, invalidations>> /\ remaining' \in 0 .. remaining
      /\ place \notin {"settle", "published"} /\ place' # "published"
  BY DEF RecallInv, Typed, Numbers, Encode, PastDeadline, LateLeg, Goes, TakesTime, LegEnds
<1>2. Words'
  BY DEF RecallInv, Typed, Words, Places, Encode, LateLeg, Goes, LegEnds, Call
<1>3. Rankings'
  <2>1. flags' \in Flags
    <3>1. flags.vector \in Marks
      BY MarksOf DEF RecallInv, Typed, Rankings, Marks
    <3>2. \/ UNCHANGED flags \/ Flag("vector", "late") \/ Flag("vector", "fault")
          \/ Flag("vector", IF remaining' = 0 THEN "late" ELSE flags.vector)
      BY DEF Encode, LateLeg, Goes
    <3>3. (IF remaining' = 0 THEN "late" ELSE flags.vector) \in Marks
      BY <3>1 DEF Marks
    <3>4. "late" \in Marks /\ "fault" \in Marks
      BY DEF Marks
    <3> QED BY <3>2, <3>3, <3>4, FlagStays DEF RecallInv, Typed, Rankings
  <2>2. before' \in Pass
    BY DEF RecallInv, Typed, Rankings, Encode
  <2>3. lexical' \in BOOLEAN
    BY DEF RecallInv, Typed, Rankings, Encode
  <2>4. rows' \in BOOLEAN
    BY DEF RecallInv, Typed, Rankings, Encode, LateLeg, Goes, LegEnds
  <2>5. lacks' \in BOOLEAN
    BY DEF RecallInv, Typed, Rankings, Encode, LateLeg, Goes, LegEnds
  <2> QED BY <1>1, <2>1, <2>2, <2>3, <2>4, <2>5, LegLeavesCall DEF Rankings
<1>4. InPlace'
  BY DEF RecallInv, InPlace, Encode, LateLeg, Goes, LegEnds, Call
<1>5. LateIsLate'
  BY DEF RecallInv, Typed, Numbers, Rankings, LateIsLate, OnTime, Poisoned, Flags, Encode, PastDeadline, TooLateToLoad, LateLeg, Goes, TakesTime, LegEnds, Flag, Call
<1>6. CompleteStands'
  BY DEF RecallInv, CompleteStands, Encode, LateLeg, LegEnds
<1>7. LacksAreTold'
  BY DEF RecallInv, Typed, Rankings, LacksAreTold, TellsLack, Flags, Encode, LateLeg, Goes, LegEnds, Flag, Call
<1> QED BY <1>1, <1>2, <1>3, <1>4, <1>5, <1>6, <1>7, LegLeavesCall DEF RecallInv, Typed

LEMMA SearchStands == ASSUME RecallInv, Search PROVE RecallInv'
<1>1. /\ UNCHANGED <<Call, invalidations>> /\ remaining' \in 0 .. remaining
      /\ place \notin {"settle", "published"} /\ place' # "published"
  BY DEF RecallInv, Typed, Numbers, Search, LateLeg, LegEnds, Goes, World
<1>2. Words'
  BY DEF RecallInv, Typed, Words, Places, Search, LateLeg, LegEnds, Goes, World, Call
<1>3. Rankings'
  <2>1. flags' \in Flags
    BY MarksOf DEF RecallInv, Typed, Rankings, Marks, Search, LateLeg, Goes, Flag
  <2>2. before' \in Pass
    BY DEF RecallInv, Typed, Rankings, Search
  <2>3. lexical' \in BOOLEAN
    BY DEF RecallInv, Typed, Rankings, Search
  <2>4. rows' \in BOOLEAN
    BY DEF RecallInv, Typed, Rankings, Search, LateLeg, LegEnds, Goes
  <2>5. lacks' \in BOOLEAN
    BY DEF RecallInv, Typed, Rankings, Search, LateLeg, LegEnds, Goes
  <2> QED BY <1>1, <2>1, <2>2, <2>3, <2>4, <2>5, LegLeavesCall DEF Rankings
<1>4. InPlace'
  BY DEF RecallInv, InPlace, Search, LateLeg, LegEnds, Goes, Call
<1>5. LateIsLate'
  BY DEF RecallInv, Typed, Numbers, LateIsLate, OnTime, Search, PastDeadline, LateLeg, LegEnds, Goes, Call
<1>6. CompleteStands'
  BY DEF RecallInv, CompleteStands, Search, LateLeg, LegEnds, Goes
<1>7. LacksAreTold'
  BY DEF RecallInv, Typed, Rankings, LacksAreTold, TellsLack, Flags, Search, LateLeg, LegEnds, Goes, Call, Flag
<1> QED BY <1>1, <1>2, <1>3, <1>4, <1>5, <1>6, <1>7, LegLeavesCall DEF RecallInv, Typed

LEMMA LoadStands == ASSUME RecallInv, Load PROVE RecallInv'
<1>1. /\ UNCHANGED <<Call, invalidations>> /\ remaining' \in 0 .. remaining
      /\ place \notin {"settle", "published"} /\ place' # "published"
  BY DEF RecallInv, Typed, Numbers, Load, TakesTime
<1>2. Words'
  BY DEF RecallInv, Typed, Words, Places, Load, Call
<1>3. Rankings'
  <2>1. flags' \in Flags
    BY MarksOf DEF RecallInv, Typed, Rankings, Marks, Load, Flag
  <2>2. before' \in Pass
    BY DEF RecallInv, Typed, Rankings, Load
  <2>3. lexical' \in BOOLEAN
    BY DEF RecallInv, Typed, Rankings, Load
  <2>4. rows' \in BOOLEAN
    BY DEF RecallInv, Typed, Rankings, Load
  <2>5. lacks' \in BOOLEAN
    BY DEF RecallInv, Typed, Rankings, Load
  <2> QED BY <1>1, <2>1, <2>2, <2>3, <2>4, <2>5, LegLeavesCall DEF Rankings
<1>4. InPlace'
  BY DEF RecallInv, InPlace, Load, Call
<1>5. LateIsLate'
  BY DEF RecallInv, Typed, Numbers, LateIsLate, OnTime, Load, PastDeadline, TooLateToLoad, Call
<1>6. CompleteStands'
  BY DEF RecallInv, CompleteStands, Load
<1>7. LacksAreTold'
  BY DEF RecallInv, Typed, Rankings, LacksAreTold, TellsLack, Flags, Load, Flag, Call
<1> QED BY <1>1, <1>2, <1>3, <1>4, <1>5, <1>6, <1>7, LegLeavesCall DEF RecallInv, Typed

LEMMA SearchAgainStands == ASSUME RecallInv, SearchAgain PROVE RecallInv'
<1>1. /\ UNCHANGED <<Call, invalidations>> /\ remaining' \in 0 .. remaining
      /\ place \notin {"settle", "published"} /\ place' # "published"
  BY DEF RecallInv, Typed, Numbers, SearchAgain, LateLeg, LegEnds, World
<1>2. Words'
  BY DEF RecallInv, Typed, Words, Places, SearchAgain, LateLeg, LegEnds, World, Call
<1>3. Rankings'
  <2>1. flags' \in Flags
    BY MarksOf DEF RecallInv, Typed, Rankings, Marks, SearchAgain, LateLeg, Flag
  <2>2. before' \in Pass
    BY DEF RecallInv, Typed, Rankings, SearchAgain
  <2>3. lexical' \in BOOLEAN
    BY DEF RecallInv, Typed, Rankings, SearchAgain
  <2>4. rows' \in BOOLEAN
    BY DEF SearchAgain, LateLeg, LegEnds
  <2>5. lacks' \in BOOLEAN
    BY DEF SearchAgain, LateLeg, LegEnds
  <2> QED BY <1>1, <2>1, <2>2, <2>3, <2>4, <2>5, LegLeavesCall DEF Rankings
<1>4. InPlace'
  BY DEF RecallInv, InPlace, SearchAgain, LateLeg, LegEnds, Call
<1>5. LateIsLate'
  BY DEF RecallInv, Typed, Numbers, LateIsLate, OnTime, SearchAgain, PastDeadline, TooLateToLoad, LateLeg, LegEnds, Call
<1>6. CompleteStands'
  BY DEF RecallInv, CompleteStands, SearchAgain, LateLeg, LegEnds
<1>7. LacksAreTold'
  <2>1. CASE LateLeg
    BY <2>1 DEF RecallInv, Typed, Rankings, Flags, LacksAreTold, TellsLack, SearchAgain, LateLeg, LegEnds, Flag, Call
  <2>2. CASE ~LateLeg
    <3>1. /\ (lacks' => index = "cold") /\ UNCHANGED <<flags, before, round, start>> /\ place' = "fuse"
          /\ place = "again" /\ (index # "ready" => ~TooLateToLoad)
      BY <2>2 DEF SearchAgain, LegEnds, Call
    <3>2. lacks' => start = 3
      BY <3>1 DEF RecallInv, Typed, Numbers, TooLateToLoad
    <3> QED BY <3>1, <3>2 DEF RecallInv, LacksAreTold, TellsLack
  <2> QED BY <2>1, <2>2
<1> QED BY <1>1, <1>2, <1>3, <1>4, <1>5, <1>6, <1>7, LegLeavesCall DEF RecallInv, Typed

LEMMA FuseStands == ASSUME RecallInv, Fuse PROVE RecallInv'
<1>1. /\ UNCHANGED <<Call, invalidations>> /\ remaining' \in 0 .. remaining
      /\ place \notin {"settle", "published"} /\ place' # "published"
  BY DEF RecallInv, Typed, Numbers, Fuse, DropSecond, Goes, World
<1>2. Words'
  BY DEF RecallInv, Typed, Words, Places, Fuse, DropSecond, Goes, World, Call
<1>3. Rankings'
  <2>1. flags' \in Flags
    <3>1. UNCHANGED flags \/ DropSecond("late")
      BY DEF Fuse, Goes
    <3> QED BY <3>1, DropStays DEF RecallInv, Typed, Rankings, Marks
  <2>2. before' \in Pass
    BY DEF RecallInv, Typed, Rankings, Fuse
  <2>3. lexical' \in BOOLEAN
    BY DEF Fuse
  <2>4. rows' \in BOOLEAN
    BY DEF RecallInv, Typed, Rankings, Pass, Fuse, DropSecond, Goes
  <2>5. lacks' \in BOOLEAN
    BY DEF RecallInv, Typed, Rankings, Pass, Fuse, DropSecond, Goes
  <2> QED BY <1>1, <2>1, <2>2, <2>3, <2>4, <2>5, LegLeavesCall DEF Rankings
<1>4. InPlace'
  BY DEF RecallInv, InPlace, Fuse, DropSecond, Goes, Call
<1>5. LateIsLate'
  BY DEF RecallInv, LateIsLate, OnTime, Poisoned, Fuse, DropSecond, Goes, Call
<1>6. CompleteStands'
  BY DEF RecallInv, Typed, Rankings, CompleteStands, Poisoned, Flags, Pass, Fuse, DropSecond, Goes
<1>7. LacksAreTold'
  BY DEF RecallInv, Typed, Rankings, LacksAreTold, TellsLack, Flags, Pass, Fuse, DropSecond, Goes, Call
<1> QED BY <1>1, <1>2, <1>3, <1>4, <1>5, <1>6, <1>7, LegLeavesCall DEF RecallInv, Typed

LEMMA RerankFirstStands == ASSUME RecallInv, RerankFirst PROVE RecallInv'
<1>1. /\ UNCHANGED <<Call, invalidations>> /\ remaining' \in 0 .. remaining
      /\ place \notin {"settle", "published"} /\ place' # "published"
  BY DEF RecallInv, Typed, Numbers, RerankFirst, Scored, PastDeadline, TakesTime
<1>2. Words'
  BY DEF RecallInv, Typed, Words, Places, RerankFirst, Scored, Call
<1>3. Rankings'
  <2>1. flags' \in Flags
    <3>1. UNCHANGED flags \/ \E v \in Marks : Flag("rerank", v)
      BY DEF RerankFirst, Marks
    <3> QED BY <3>1, FlagStays DEF RecallInv, Typed, Rankings
  <2>2. before' \in Pass
    BY DEF RecallInv, Typed, Rankings, RerankFirst
  <2>3. lexical' \in BOOLEAN
    BY DEF RecallInv, Typed, Rankings, RerankFirst
  <2>4. rows' \in BOOLEAN
    BY DEF RecallInv, Typed, Rankings, RerankFirst
  <2>5. lacks' \in BOOLEAN
    BY DEF RecallInv, Typed, Rankings, RerankFirst
  <2> QED BY <1>1, <2>1, <2>2, <2>3, <2>4, <2>5, LegLeavesCall DEF Rankings
<1>4. InPlace'
  BY DEF RecallInv, InPlace, RerankFirst, Call
<1>5. LateIsLate'
  BY DEF RecallInv, Typed, Numbers, Rankings, LateIsLate, OnTime, Poisoned, Flags, RerankFirst, Scored, Flag, Call, PastDeadline, TooLateToLoad, TakesTime
<1>6. CompleteStands'
  <2>1. place' = "hyde" /\ round' = 1 /\ (complete' => ~Poisoned(flags'))
    BY DEF RerankFirst
  <2> QED BY <2>1 DEF CompleteStands
<1>7. LacksAreTold'
  BY DEF RecallInv, Typed, Rankings, LacksAreTold, TellsLack, Flags, RerankFirst, Flag, Call
<1> QED BY <1>1, <1>2, <1>3, <1>4, <1>5, <1>6, <1>7, LegLeavesCall DEF RecallInv, Typed

LEMMA RerankSecondStands == ASSUME RecallInv, RerankSecond PROVE RecallInv'
<1>1. /\ UNCHANGED <<Call, invalidations>> /\ remaining' \in 0 .. remaining
      /\ place \notin {"settle", "published"} /\ place' # "published"
  BY DEF RecallInv, Typed, Numbers, RerankSecond, Scored, DropSecond, PastDeadline, TakesTime
<1>2. Words'
  BY DEF RecallInv, Typed, Words, Places, RerankSecond, Scored, DropSecond, Call
<1>3. Rankings'
  <2>1. flags' \in Flags
    <3>1. \/ \E v \in Marks : flags' = IF v = "none" THEN flags ELSE [flags EXCEPT !.rerank = v]
          \/ DropSecond("late")
      BY DEF RerankSecond, Marks
    <3> QED BY <3>1, MarksOf, DropStays DEF RecallInv, Typed, Rankings, Marks
  <2>2. before' \in Pass
    BY DEF RecallInv, Typed, Rankings, RerankSecond
  <2>3. lexical' \in BOOLEAN
    BY DEF RecallInv, Typed, Rankings, RerankSecond
  <2>4. rows' \in BOOLEAN
    BY DEF RecallInv, Typed, Rankings, Pass, RerankSecond, DropSecond
  <2>5. lacks' \in BOOLEAN
    BY DEF RecallInv, Typed, Rankings, Pass, RerankSecond, DropSecond
  <2> QED BY <1>1, <2>1, <2>2, <2>3, <2>4, <2>5, LegLeavesCall DEF Rankings
<1>4. InPlace'
  BY DEF RecallInv, InPlace, RerankSecond, DropSecond, Call
<1>5. LateIsLate'
  BY DEF RecallInv, Typed, Numbers, Rankings, LateIsLate, OnTime, Poisoned, Flags, Pass, RerankSecond, Scored, DropSecond, Call, TakesTime
<1>6. CompleteStands'
  BY DEF RecallInv, Typed, Rankings, CompleteStands, Poisoned, Flags, Pass, RerankSecond, DropSecond
<1>7. LacksAreTold'
  BY DEF RecallInv, Typed, Rankings, LacksAreTold, TellsLack, Flags, Pass, RerankSecond, DropSecond, Call
<1> QED BY <1>1, <1>2, <1>3, <1>4, <1>5, <1>6, <1>7, LegLeavesCall DEF RecallInv, Typed

LEMMA HydeStands == ASSUME RecallInv, Hyde PROVE RecallInv'
<1>1. /\ UNCHANGED <<Call, invalidations>> /\ remaining' \in 0 .. remaining
      /\ place \notin {"settle", "published"} /\ place' # "published"
  BY DEF RecallInv, Typed, Numbers, Hyde, TakesTime, World
<1>2. Words'
  BY DEF RecallInv, Typed, Words, Places, Hyde, World, Call
<1>3. Rankings'
  <2>1. flags' \in Flags
    <3>1. UNCHANGED flags \/ Flag("hyde", "late") \/ Flag("hyde", "fault")
      BY DEF Hyde
    <3> QED BY <3>1, FlagStays DEF RecallInv, Typed, Rankings, Marks
  <2>2. before' \in Pass
    BY DEF RecallInv, Typed, Rankings, Pass, Hyde
  <2>3. lexical' \in BOOLEAN
    BY DEF RecallInv, Typed, Rankings, Hyde
  <2>4. rows' \in BOOLEAN
    BY DEF RecallInv, Typed, Rankings, Hyde
  <2>5. lacks' \in BOOLEAN
    BY DEF RecallInv, Typed, Rankings, Hyde
  <2> QED BY <1>1, <2>1, <2>2, <2>3, <2>4, <2>5, LegLeavesCall DEF Rankings
<1>4. InPlace'
  BY DEF RecallInv, InPlace, Hyde, Call
<1>5. LateIsLate'
  BY DEF RecallInv, Typed, Numbers, Rankings, LateIsLate, OnTime, Poisoned, Flags, Hyde, Flag, TakesTime, Call
<1>6. CompleteStands'
  BY DEF RecallInv, Typed, Words, Rankings, CompleteStands, InPlace, Poisoned, Flags, Hyde, Flag
<1>7. LacksAreTold'
  BY DEF RecallInv, Typed, Words, Rankings, LacksAreTold, TellsLack, Flags, InPlace, Hyde, Flag, Call
<1> QED BY <1>1, <1>2, <1>3, <1>4, <1>5, <1>6, <1>7, LegLeavesCall DEF RecallInv, Typed

LEMMA SecondPassFailsStands == ASSUME RecallInv, SecondPassFails PROVE RecallInv'
<1>1. /\ UNCHANGED <<Call, invalidations>> /\ remaining' \in 0 .. remaining
      /\ place \notin {"settle", "published"} /\ place' # "published"
  BY DEF RecallInv, Typed, Numbers, SecondPassFails, DropSecond, World
<1>2. Words'
  BY DEF RecallInv, Typed, Words, Places, SecondPassFails, DropSecond, World, Call
<1>3. Rankings'
  <2>1. flags' \in Flags
    BY MarksOf DEF RecallInv, Typed, Rankings, Marks, Pass, SecondPassFails, DropSecond
  <2>2. before' \in Pass
    BY DEF RecallInv, Typed, Rankings, SecondPassFails
  <2>3. lexical' \in BOOLEAN
    BY DEF RecallInv, Typed, Rankings, SecondPassFails
  <2>4. rows' \in BOOLEAN
    BY DEF RecallInv, Typed, Rankings, Pass, SecondPassFails, DropSecond
  <2>5. lacks' \in BOOLEAN
    BY DEF RecallInv, Typed, Rankings, Pass, SecondPassFails, DropSecond
  <2> QED BY <1>1, <2>1, <2>2, <2>3, <2>4, <2>5, LegLeavesCall DEF Rankings
<1>4. InPlace'
  BY DEF RecallInv, InPlace, SecondPassFails, DropSecond, Call
<1>5. LateIsLate'
  BY DEF RecallInv, LateIsLate, OnTime, Poisoned, SecondPassFails, DropSecond, Call
<1>6. CompleteStands'
  BY DEF RecallInv, CompleteStands, Poisoned, SecondPassFails, DropSecond
<1>7. LacksAreTold'
  BY DEF RecallInv, LacksAreTold, TellsLack, SecondPassFails, DropSecond, Call
<1> QED BY <1>1, <1>2, <1>3, <1>4, <1>5, <1>6, <1>7, LegLeavesCall DEF RecallInv, Typed

LEMMA GateStands == ASSUME RecallInv, Gate PROVE RecallInv'
<1>1. Typed'
  <2>1. Numbers'
    BY RecallAssumption DEF RecallInv, Typed, Numbers, Gate, World
  <2>2. Words'
    BY DEF RecallInv, Typed, Words, Places, Gate, World
  <2>3. Rankings'
    <3>1. flags' \in Flags
      BY MarksOf DEF RecallInv, Typed, Rankings, Gate
    <3>2. before' \in Pass
      BY Blank DEF Gate
    <3>3. kept' \in Seq(Pass)
      BY DEF RecallInv, Typed, Rankings, Gate
    <3>4. lexical' \in BOOLEAN
      BY DEF Gate
    <3>5. rows' \in BOOLEAN
      BY DEF Gate
    <3>6. lacks' \in BOOLEAN
      BY DEF RecallInv, Typed, Rankings, Gate
    <3> QED BY <3>1, <3>2, <3>3, <3>4, <3>5, <3>6 DEF Rankings
  <2> QED BY <2>1, <2>2, <2>3 DEF Typed
<1>2. InPlace'
  BY DEF RecallInv, InPlace, Gate
<1>3. LateIsLate'
  BY DEF RecallInv, LateIsLate, OnTime, Poisoned, Gate, NoPass, Clean
<1>4. CompleteStands'
  BY DEF RecallInv, Typed, Words, CompleteStands, Gate
<1>5. LacksAreTold'
  BY DEF RecallInv, LacksAreTold, TellsLack, Gate
<1>6. CountsInTime'
  BY DEF CountsInTime, Gate
<1>7. KeptStand'
  BY KeptStaysOK DEF RecallInv, KeptStand, HasRanking, InTime, Gate
<1>8. PublishedIsKept'
  BY DEF PublishedIsKept, Gate
<1> QED BY <1>1, <1>2, <1>3, <1>4, <1>5, <1>6, <1>7, <1>8 DEF RecallInv

LEMMA SettleVariantStands == ASSUME RecallInv, SettleVariant PROVE RecallInv'
<1>1. Typed'
  <2>1. Numbers'
    BY RecallAssumption DEF RecallInv, Typed, Numbers, SettleVariant, World
  <2>2. Words'
    BY DEF RecallInv, Typed, Words, Places, SettleVariant, World
  <2>3. Rankings'
    <3>1. flags' \in Flags
      BY MarksOf DEF RecallInv, Typed, Rankings, SettleVariant
    <3>2. before' \in Pass
      BY DEF RecallInv, Typed, Rankings, SettleVariant
    <3>3. kept' \in Seq(Pass)
      <4>1. [flags |-> flags, rows |-> rows, lacks |-> lacks] \in Pass
        BY DEF RecallInv, Typed, Rankings, Pass
      <4> QED BY <4>1 DEF RecallInv, Typed, Rankings, SettleVariant
    <3>4. lexical' \in BOOLEAN
      BY DEF RecallInv, Typed, Rankings, SettleVariant
    <3>5. rows' \in BOOLEAN
      BY DEF RecallInv, Typed, Rankings, SettleVariant
    <3>6. lacks' \in BOOLEAN
      BY DEF RecallInv, Typed, Rankings, SettleVariant
    <3> QED BY <3>1, <3>2, <3>3, <3>4, <3>5, <3>6 DEF Rankings
  <2> QED BY <2>1, <2>2, <2>3 DEF Typed
<1>2. InPlace'
  BY DEF RecallInv, Typed, Numbers, InPlace, SettleVariant
<1>3. LateIsLate'
  BY DEF RecallInv, LateIsLate, SettleVariant
<1>4. CompleteStands'
  BY DEF CompleteStands, SettleVariant
<1>5. LacksAreTold'
  BY DEF RecallInv, LacksAreTold, TellsLack, SettleVariant
<1>6. CountsInTime'
  BY DEF RecallInv, CountsInTime, SettleVariant
<1>7. KeptStand'
  <2> DEFINE child == [flags |-> flags, rows |-> rows, lacks |-> lacks]
  <2>1. child \in Pass /\ kept \in Seq(Pass) /\ flags \in Flags
    BY DEF RecallInv, Typed, Rankings, Pass
  <2>2. child.flags = flags /\ child.rows = rows /\ child.lacks = lacks
    OBVIOUS
  <2>3. \/ UNCHANGED kept /\ variant > 0 /\ Drops(child)
        \/ kept' = Append(kept, child) /\ ~(variant > 0 /\ Drops(child))
    BY DEF SettleVariant
  <2>4. /\ UNCHANGED <<remaining, start>> /\ place = "settle" /\ round = 1
        /\ timely' = (timely \/ (complete /\ rows /\ InTime))
    BY DEF SettleVariant, RecallInv, Typed, Words, InPlace
  <2>5. /\ KeptOK(kept, remaining, start) /\ (timely => HasRanking /\ InTime)
        /\ OnTime(flags, remaining) /\ (lacks /\ flags.vector = "none" => start = 3)
        /\ (complete => ~Poisoned(flags)) /\ (variant = 0 => kept = <<>>) /\ variant \in Nat
    BY <2>4 DEF RecallInv, Typed, Numbers, InPlace, LateIsLate, CompleteStands, LacksAreTold, TellsLack, KeptStand
  <2> HIDE DEF child
  <2>6. KeptOK(kept', remaining', start')
    BY <2>1, <2>2, <2>3, <2>4, <2>5, KeptGrowsOK
  <2>7. CASE UNCHANGED kept /\ variant > 0 /\ Drops(child)
    BY <2>2, <2>4, <2>5, <2>6, <2>7 DEF KeptStand, Drops, HasRanking, InTime
  <2>8. CASE kept' = Append(kept, child) /\ ~(variant > 0 /\ Drops(child))
    <3>1. ASSUME timely' PROVE ~Poisoned(flags) /\ InTime /\ (HasRanking \/ rows)
      <4>1. CASE timely
        <5>1. HasRanking /\ InTime
          BY <2>5, <4>1
        <5>2. variant > 0
          BY <2>5, <5>1 DEF HasRanking
        <5> QED BY <2>2, <2>8, <5>1, <5>2 DEF Drops
      <4>2. CASE ~timely
        BY <2>4, <2>5, <3>1, <4>2
      <4> QED BY <4>1, <4>2
    <3>2. \A i \in DOMAIN kept' : kept'[i] = child \/ (i \in DOMAIN kept /\ kept'[i] = kept[i])
      BY <2>1, <2>8
    <3>3. \A i \in DOMAIN kept : i \in DOMAIN kept' /\ kept'[i] = kept[i]
      BY <2>1, <2>8
    <3>4. Len(kept) + 1 \in DOMAIN kept' /\ kept'[Len(kept) + 1] = child
      BY <2>1, <2>8
    <3>5. ASSUME timely' PROVE InTime'
      BY <2>2, <3>1, <3>2, <3>5 DEF InTime
    <3>6. ASSUME timely' PROVE HasRanking'
      BY <2>2, <3>1, <3>3, <3>4, <3>6 DEF HasRanking
    <3> QED BY <2>6, <3>5, <3>6 DEF KeptStand
  <2> QED BY <2>3, <2>7, <2>8
<1>8. PublishedIsKept'
  <2> SUFFICES ASSUME place' = "published" PROVE PublishedIsKept'
    BY DEF PublishedIsKept
  <2>1. /\ variant = 0 /\ UNCHANGED <<flags, rows, lacks, variant>>
        /\ kept' = Append(kept, [flags |-> flags, rows |-> rows, lacks |-> lacks])
    BY DEF SettleVariant
  <2>2. kept = <<>>
    BY <2>1 DEF RecallInv, InPlace, SettleVariant
  <2>3. kept' = <<[flags |-> flags, rows |-> rows, lacks |-> lacks]>>
    BY <2>1, <2>2
  <2> QED BY <2>1, <2>3 DEF PublishedIsKept
<1> QED BY <1>1, <1>2, <1>3, <1>4, <1>5, <1>6, <1>7, <1>8 DEF RecallInv

LEMMA JoinStands == ASSUME RecallInv, Join PROVE RecallInv'
<1>1. Typed'
  <2>1. Numbers'
    BY RecallAssumption DEF RecallInv, Typed, Numbers, Join, World
  <2>2. Words'
    BY DEF RecallInv, Typed, Words, Places, Join, World
  <2>3. Rankings'
    <3>1. flags' \in Flags
      <4>1. Joined("vector") \in Marks /\ Joined("rerank") \in Marks /\ Joined("hyde") \in Marks
        BY DEF Joined, Marks
      <4>2. (IF Truncated THEN "late" ELSE expanded) \in Marks
        BY DEF RecallInv, Typed, Words, Marks
      <4> QED BY <4>1, <4>2 DEF Join, Flags
    <3>2. before' \in Pass
      BY DEF RecallInv, Typed, Rankings, Join
    <3>3. kept' \in Seq(Pass)
      BY DEF RecallInv, Typed, Rankings, Join
    <3>4. lexical' \in BOOLEAN
      BY DEF RecallInv, Typed, Rankings, Join
    <3>5. rows' \in BOOLEAN
      BY DEF Join, HasRanking
    <3>6. lacks' \in BOOLEAN
      BY DEF RecallInv, Typed, Rankings, Join
    <3> QED BY <3>1, <3>2, <3>3, <3>4, <3>5, <3>6 DEF Rankings
  <2> QED BY <2>1, <2>2, <2>3 DEF Typed
<1>2. InPlace'
  BY DEF RecallInv, InPlace, Join
<1>3. LateIsLate'
  <2>1. /\ UNCHANGED <<remaining, start, before, variant, round>> /\ place = "join" /\ place' = "published"
        /\ flags'.vector = Joined("vector") /\ flags'.rerank = Joined("rerank")
    BY DEF Join
  <2>2. ASSUME Poisoned(flags') PROVE remaining <= 2
    <3>1. PICK i \in DOMAIN kept : kept[i].flags["vector"] = "late" \/ kept[i].flags["rerank"] = "late"
      BY <2>1, <2>2 DEF Poisoned, Joined
    <3>2. Poisoned(kept[i].flags)
      BY <3>1 DEF Poisoned
    <3>3. OnTime(kept[i].flags, remaining)
      BY Zenon DEF RecallInv, KeptStand, KeptOK
    <3> QED BY <3>2, <3>3 DEF OnTime
  <2>3. variant # 0
    BY <2>1 DEF RecallInv, InPlace
  <2> QED BY <2>1, <2>2, <2>3 DEF RecallInv, LateIsLate, OnTime
<1>4. CompleteStands'
  BY DEF RecallInv, CompleteStands, Join
<1>5. LacksAreTold'
  BY DEF RecallInv, LacksAreTold, InPlace, Join
<1>6. CountsInTime'
  BY DEF CountsInTime, Join
<1>7. KeptStand'
  BY KeptStaysOK DEF RecallInv, KeptStand, HasRanking, InTime, Join
<1>8. PublishedIsKept'
  <2>1. /\ UNCHANGED <<kept, variant, variants>> /\ flags'.vector = Joined("vector")
        /\ flags'.rerank = Joined("rerank") /\ (Truncated => flags'.expand = "late")
    BY DEF Join
  <2>2. variant # 0
    BY DEF RecallInv, InPlace, Join
  <2>3. (Joined("vector"))' = Joined("vector") /\ (Joined("rerank"))' = Joined("rerank")
    BY <2>1 DEF Joined
  <2>4. Truncated' = Truncated
    BY <2>1 DEF Truncated
  <2> QED BY <2>1, <2>2, <2>3, <2>4 DEF PublishedIsKept
<1> QED BY <1>1, <1>2, <1>3, <1>4, <1>5, <1>6, <1>7, <1>8 DEF RecallInv

LEMMA ClockRunsStands == ASSUME RecallInv, ClockRuns PROVE RecallInv'
BY RecallAssumption, WorldChanges DEF RecallInv, Typed, Numbers, Words, ClockRuns, World

LEMMA InvalidateStands == ASSUME RecallInv, Invalidate PROVE RecallInv'
BY RecallAssumption, WorldChanges DEF RecallInv, Typed, Numbers, Words, Invalidate

LEMMA OthersLoadStands == ASSUME RecallInv, OthersLoad PROVE RecallInv'
BY RecallAssumption, WorldChanges DEF RecallInv, Typed, Numbers, Words, OthersLoad

\* The invariant holds initially and every step leaves it standing.
LEMMA RecallAlways == RecallSpec => []RecallInv
<1>1. RecallInv /\ [RecallNext]_recallVars => RecallInv'
  <2> SUFFICES ASSUME RecallInv, [RecallNext]_recallVars PROVE RecallInv'
    OBVIOUS
  <2>1. CASE RecallNext
    BY <2>1, ExpandStands, BeginVariantStands, LexicalStands, SemanticStands, EncodeStands,
       SearchStands, LoadStands, SearchAgainStands, FuseStands, RerankFirstStands,
       RerankSecondStands, HydeStands, SecondPassFailsStands, GateStands, SettleVariantStands,
       JoinStands, ClockRunsStands, InvalidateStands, OthersLoadStands DEF RecallNext
  <2>2. CASE UNCHANGED recallVars
    <3>1. Typed' /\ InPlace' /\ CompleteStands' /\ CountsInTime'
      BY <2>2 DEF recallVars, RecallInv, Typed, Numbers, Words, Rankings, InPlace, CompleteStands,
                  CountsInTime
    <3>2. LateIsLate' /\ LacksAreTold'
      BY <2>2 DEF recallVars, RecallInv, LateIsLate, LacksAreTold, TellsLack
    <3>3. KeptStand' /\ PublishedIsKept'
      BY <2>2 DEF recallVars, RecallInv, KeptStand, HasRanking, InTime, PublishedIsKept, Joined,
                  Truncated
    <3> QED BY <3>1, <3>2, <3>3 DEF RecallInv
  <2> QED BY <2>1, <2>2
<1> QED BY RecallInitInv, <1>1, PTL DEF RecallSpec

\* The time, the places and the verdicts of a ranking are what they may be.
THEOREM RecallTypes == RecallSpec => []RecallTypeOK
<1>1. RecallInv => RecallTypeOK
  <2> SUFFICES ASSUME RecallInv PROVE RecallTypeOK
    OBVIOUS
  <2>1. Len(kept) <= variants
    <3>1. CASE variant = 0 /\ place # "published"
      BY <3>1, RecallAssumption DEF RecallInv, InPlace
    <3>2. CASE variant = 0 /\ place = "published"
      <4>1. kept = <<[flags |-> flags, rows |-> rows, lacks |-> lacks]>> /\ variants = 1
        BY <3>2 DEF RecallInv, InPlace, PublishedIsKept
      <4> QED BY <4>1
    <3>3. CASE variant # 0
      BY <3>3 DEF RecallInv, InPlace, Typed, Numbers
    <3> QED BY <3>1, <3>2, <3>3
  <2> QED BY <2>1 DEF RecallInv, Typed, Numbers, Words, Rankings, Places, RecallTypeOK, Budgets
<1> QED BY RecallAlways, <1>1, PTL

\* A ranking is honest about the time it had ...
LEMMA ContractKept == RecallInv => KeepsContract
<1> SUFFICES ASSUME RecallInv, ~Running PROVE MayAnswer(start, remaining, Verdict, rows)
  BY DEF KeepsContract
<1>1. remaining <= start /\ start \in 0 .. 3 /\ remaining \in 0 .. 3
  BY DEF RecallInv, Typed, Numbers
<1>2. CASE place = "interrupted"
  BY <1>1, <1>2 DEF RecallInv, LateIsLate, Verdict, MayAnswer
<1>3. CASE place = "published"
  <2>1. (Poisoned(flags) => remaining <= 2) /\ (start <= 1 => Poisoned(flags))
    BY <1>3 DEF RecallInv, LateIsLate, OnTime, Poisoned
  <2> QED BY <1>1, <1>3, <2>1 DEF Verdict, MayAnswer
<1> QED BY <1>2, <1>3 DEF Running

\* ... about what was in time ...
LEMMA HealthyStays == RecallInv => HealthyStaysHealthy
<1> SUFFICES ASSUME RecallInv, place = "published", timely PROVE ~Poisoned(flags)
  BY DEF HealthyStaysHealthy
<1>1. InTime /\ PublishedIsKept
  BY DEF RecallInv, KeptStand
<1>2. CASE variant = 0
  <2>1. kept = <<[flags |-> flags, rows |-> rows, lacks |-> lacks]>>
    BY <1>1, <1>2 DEF PublishedIsKept
  <2>2. 1 \in DOMAIN kept /\ kept[1].flags = flags
    BY <2>1
  <2> QED BY <1>1, <2>2 DEF InTime
<1>3. CASE variant # 0
  <2>1. Joined("vector") # "late" /\ Joined("rerank") # "late"
    BY <1>1 DEF InTime, Poisoned, Joined
  <2> QED BY <1>1, <1>3, <2>1 DEF PublishedIsKept, Poisoned
<1> QED BY <1>2, <1>3

\* ... and about what it lacks.
LEMMA LossIsTold == RecallInv => NothingIsLostSilently
<1> SUFFICES ASSUME RecallInv, place = "published" PROVE NothingIsLostSilently
  BY DEF NothingIsLostSilently
<1>1. /\ PublishedIsKept /\ KeptOK(kept, remaining, start) /\ kept \in Seq(Pass)
      /\ (variant = 0 => variants = 1) /\ (counted => ~Poisoned(flags))
  BY DEF RecallInv, KeptStand, CountsInTime, Typed, Rankings, InPlace
<1>2. CASE variant = 0
  <2>1. kept = <<[flags |-> flags, rows |-> rows, lacks |-> lacks]>>
    BY <1>1, <1>2 DEF PublishedIsKept
  <2>2. Len(kept) = 1 /\ \A i \in DOMAIN kept : kept[i].flags = flags
    BY <2>1
  <2>3. (\E i \in DOMAIN kept : kept[i].lacks) /\ flags.vector = "none" => start = 3
    BY <1>1, <2>2, Zenon DEF KeptOK
  <2> QED BY <1>1, <1>2, <2>2, <2>3 DEF NothingIsLostSilently, Truncated
<1>3. CASE variant # 0
  <2>1. /\ flags.vector = Joined("vector") /\ (Truncated => flags.expand = "late")
    BY <1>1, <1>3 DEF PublishedIsKept
  <2>2. ASSUME NEW i \in DOMAIN kept, kept[i].lacks, flags.vector = "none" PROVE start = 3
    <3>1. kept[i].flags["vector"] # "late" /\ kept[i].flags["vector"] # "fault"
      BY <2>1, <2>2 DEF Joined
    <3>2. kept[i] \in Pass
      BY <1>1
    <3>3. kept[i].flags \in Flags
      BY <3>2 DEF Pass
    <3>4. kept[i].flags.vector = "none"
      BY <3>1, <3>3 DEF Flags, Marks
    <3> QED BY <1>1, <2>2, <3>4 DEF KeptOK
  <2> QED BY <1>1, <2>1, <2>2 DEF NothingIsLostSilently
<1> QED BY <1>2, <1>3

\* Whatever becomes of the clock, of the models and of the index while a ranking
\* runs, what it publishes keeps the contract a search relies on, a ranking that was
\* in time is never called late for what followed, and what is missing is told.
THEOREM RankingsAreHonest == RecallSpec => []RecallIsHonest
<1>1. RecallInv => RecallIsHonest
  BY ContractKept, HealthyStays, LossIsTold DEF RecallIsHonest
<1> QED BY RecallAlways, <1>1, PTL

-----------------------------------------------------------------------------
(***************************************************************************)
(* A search. SearchRequest answers honestly, for every number of vaults    *)
(* and every limit and threshold. What the merge returns is argued first,  *)
(* from the order of the hits; then the invariant, with one lemma for each *)
(* part of it.                                                             *)
(***************************************************************************)
-----------------------------------------------------------------------------
(* The merge *)

SearchRow == {r \in [corpus : Corpora, src : {"p", "c"}, score : 1 .. 3, late : BOOLEAN] :
                r.late <=> r.score = 2}

\* Hits that may be merged: each has a place of its own.
HitsOK(hits) ==
    /\ IsFiniteSet(hits) /\ hits \subseteq [row : SearchRow, place : Nat]
    /\ \A g, h \in hits : g.place = h.place => g = h
Fit(hits) == \A h \in hits : ~h.row.late
OnePerCorpus(hits) == \A g, h \in hits : g.row.corpus = h.row.corpus => g = h

\* A set of numbers that is not empty has a least one.
LEMMA LeastNat ==
    ASSUME NEW S \in SUBSET Nat, S # {}
    PROVE  \E x \in S : \A y \in S : x <= y
<1> DEFINE R == StrictSubsetOrdering(Nat)
           T == {0..x : x \in S}
<1>1. IsWellFoundedOn(R, FiniteSubsetsOf(Nat))
  BY FS_StrictSubsetOrderingWellFounded
<1>2. T \subseteq FiniteSubsetsOf(Nat) /\ T # {}
  <2>1. ASSUME NEW x \in S PROVE 0..x \in FiniteSubsetsOf(Nat)
    <3>1. IsFiniteSet(0..x)
      BY FS_Interval
    <3> QED BY <3>1 DEF FiniteSubsetsOf
  <2> QED BY <2>1
<1>3. PICK t \in T : \A u \in T : <<u, t>> \notin R
  <2> HIDE DEF R, T
  <2> QED BY <1>1, <1>2, WFMin
<1>4. PICK x \in S : t = 0..x
  OBVIOUS
<1>5. ASSUME NEW y \in S, y < x PROVE FALSE
  <2>1. 0..y \in SUBSET Nat /\ 0..x \in SUBSET Nat /\ 0..y \subseteq 0..x /\ 0..y # 0..x
    <3>1. x \in 0..x /\ x \notin 0..y
      BY <1>5
    <3> QED BY <1>5, <3>1
  <2>2. IsFiniteSet(0..y) /\ IsFiniteSet(0..x)
    BY FS_Interval
  <2>3. <<0..y, t>> \in R
    BY <1>4, <2>1, <2>2 DEF StrictSubsetOrdering
  <2> QED BY <1>3, <2>3
<1> QED BY <1>5

LEMMA LeastOf ==
    ASSUME NEW S, S # {}, NEW f \in [S -> Nat]
    PROVE  \E x \in S : \A y \in S : f[x] <= f[y]
<1>1. PICK n \in {f[x] : x \in S} : \A m \in {f[x] : x \in S} : n <= m
  BY LeastNat
<1> QED BY <1>1

LEMMA RowFields ==
    ASSUME NEW r \in SearchRow
    PROVE  /\ r.score \in 1 .. 3 /\ r.corpus \in Corpora /\ r.src \in {"p", "c"} /\ r.late \in BOOLEAN
           /\ r.late <=> r.score = 2
           /\ Priority(r) \in {0, 1}
BY DEF SearchRow, Priority

LEMMA HitFields ==
    ASSUME NEW hits, HitsOK(hits), NEW h \in hits
    PROVE  /\ h.row \in SearchRow /\ h.place \in Nat /\ h = [row |-> h.row, place |-> h.place]
           /\ h.row.score \in 1 .. 3 /\ Priority(h.row) \in {0, 1}
           /\ h.row.late <=> h.row.score = 2
<1>1. h \in [row : SearchRow, place : Nat]
  BY DEF HitsOK
<1>2. h.row \in SearchRow /\ h.place \in Nat /\ h = [row |-> h.row, place |-> h.place]
  BY <1>1
<1> QED BY <1>2, RowFields

\* Ahead is a strict order of the hits, and a total one.
LEMMA AheadIsAnOrder ==
    ASSUME NEW hits, HitsOK(hits), NEW pref \in BOOLEAN
    PROVE  /\ \A h \in hits : ~Ahead(h, h, pref)
           /\ \A g, h \in hits : g # h => Ahead(g, h, pref) \/ Ahead(h, g, pref)
           /\ \A f, g, h \in hits : Ahead(f, g, pref) /\ Ahead(g, h, pref) => Ahead(f, h, pref)
<1>1. \A h \in hits : ~Ahead(h, h, pref)
  BY HitFields DEF Ahead
<1>2. ASSUME NEW g \in hits, NEW h \in hits, g # h PROVE Ahead(g, h, pref) \/ Ahead(h, g, pref)
  <2>1. g.place # h.place
    BY <1>2 DEF HitsOK
  <2> QED BY <2>1, HitFields DEF Ahead
<1>3. ASSUME NEW f \in hits, NEW g \in hits, NEW h \in hits, Ahead(f, g, pref), Ahead(g, h, pref)
      PROVE  Ahead(f, h, pref)
  <2>1. /\ f.row.score \in Int /\ g.row.score \in Int /\ h.row.score \in Int
        /\ f.place \in Int /\ g.place \in Int /\ h.place \in Int
        /\ Priority(f.row) \in Int /\ Priority(g.row) \in Int /\ Priority(h.row) \in Int
    BY HitFields
  <2> QED BY <1>3, <2>1 DEF Ahead
<1> QED BY <1>1, <1>2, <1>3

\* Of hits that are not empty one is ahead of all others.
LEMMA SomeHitIsFirst ==
    ASSUME NEW hits, HitsOK(hits), hits # {}, NEW pref \in BOOLEAN
    PROVE  \E h \in hits : \A g \in hits : ~Ahead(g, h, pref)
<1> DEFINE byScore == [h \in hits |-> 3 - h.row.score]
<1>1. byScore \in [hits -> Nat]
  BY HitFields
<1>2. PICK a \in hits : \A g \in hits : byScore[a] <= byScore[g]
  <2> HIDE DEF byScore
  <2> QED BY <1>1, LeastOf
<1>3. \A g \in hits : g.row.score <= a.row.score
  BY <1>2, HitFields
<1> DEFINE best == {h \in hits : h.row.score = a.row.score}
           byRank == [h \in best |-> IF pref THEN 1 - Priority(h.row) ELSE 0]
<1>4. byRank \in [best -> Nat] /\ best # {}
  BY HitFields
<1>5. PICK b \in best : \A g \in best : byRank[b] <= byRank[g]
  <2> HIDE DEF byRank, best
  <2> QED BY <1>4, LeastOf
<1>6. \A g \in best : pref => Priority(g.row) <= Priority(b.row)
  BY <1>5, HitFields
<1> DEFINE top == {h \in best : pref => Priority(h.row) = Priority(b.row)}
           byPlace == [h \in top |-> h.place]
<1>7. byPlace \in [top -> Nat] /\ top # {}
  BY HitFields
<1>8. PICK c \in top : \A g \in top : byPlace[c] <= byPlace[g]
  <2> HIDE DEF byPlace, top
  <2> QED BY <1>7, LeastOf
<1>9. \A g \in top : c.place <= g.place
  BY <1>8
<1>10. ASSUME NEW g \in hits, Ahead(g, c, pref) PROVE FALSE
  <2>1. /\ g.row.score \in Int /\ g.place \in Int /\ Priority(g.row) \in Int
        /\ c.row.score \in Int /\ c.place \in Int /\ Priority(c.row) \in Int
        /\ Priority(b.row) \in Int
    BY HitFields
  <2>2. c.row.score = a.row.score /\ g.row.score <= a.row.score
    BY <1>3
  <2>3. g.row.score = c.row.score
    BY <1>10, <2>1, <2>2 DEF Ahead
  <2>4. g \in best
    BY <2>2, <2>3
  <2>5. pref => Priority(g.row) <= Priority(c.row)
    BY <1>6, <2>4
  <2>6. g.place < c.place /\ (pref => Priority(g.row) = Priority(c.row))
    BY <1>10, <2>1, <2>3, <2>5 DEF Ahead
  <2>7. g \in top
    BY <2>4, <2>6
  <2> QED BY <1>9, <2>1, <2>6, <2>7
<1> QED BY <1>10

\* The first Limit hits are at most Limit, and some if there are any.
LEMMA TopOK ==
    ASSUME NEW hits, HitsOK(hits), NEW pref \in BOOLEAN
    PROVE  /\ Top(hits, pref) \subseteq hits /\ HitsOK(Top(hits, pref))
           /\ Cardinality(Top(hits, pref)) <= Limit
           /\ hits # {} => Top(hits, pref) # {}
<1> DEFINE ahead(h) == {g \in hits : Ahead(g, h, pref)}
           T == Top(hits, pref)
<1>1. T = {h \in hits : Cardinality(ahead(h)) < Limit}
  BY DEF Top
<1>2. T \subseteq hits /\ HitsOK(T)
  <2>1. T \subseteq hits
    BY <1>1
  <2>2. IsFiniteSet(T)
    BY <2>1, FS_Subset DEF HitsOK
  <2> HIDE DEF T
  <2> QED BY <2>1, <2>2 DEF HitsOK
<1>3. \A h \in hits : IsFiniteSet(ahead(h)) /\ Cardinality(ahead(h)) \in Nat
  BY FS_Subset, FS_CardinalityType DEF HitsOK
<1>4. Cardinality(T) <= Limit
  <2> DEFINE rank == [h \in T |-> Cardinality(ahead(h))]
  <2>1. rank \in [T -> 0 .. Limit - 1]
    BY <1>1, <1>3, SearchAssumption
  <2>2. ASSUME NEW g \in T, NEW h \in T, Ahead(g, h, pref) PROVE rank[g] # rank[h]
    <3>1. g \in hits /\ h \in hits
      BY <1>2
    <3>2. ahead(g) \subseteq ahead(h)
      BY <2>2, <3>1, AheadIsAnOrder
    <3>3. g \in ahead(h) /\ g \notin ahead(g)
      BY <2>2, <3>1, AheadIsAnOrder
    <3>4. IsFiniteSet(ahead(h)) /\ ahead(g) \in SUBSET ahead(h) /\ ahead(g) # ahead(h)
      BY <1>3, <3>1, <3>2, <3>3
    <3>5. Cardinality(ahead(g)) # Cardinality(ahead(h))
      <4> HIDE DEF ahead
      <4> QED BY <3>4, FS_Subset
    <3> QED BY <3>5
  <2>3. ASSUME NEW g \in T, NEW h \in T, rank[g] = rank[h] PROVE g = h
    <3>1. g # h => Ahead(g, h, pref) \/ Ahead(h, g, pref)
      BY <1>2, AheadIsAnOrder
    <3> HIDE DEF rank
    <3> QED BY <2>2, <2>3, <3>1
  <2>4. rank \in Injection(T, 0 .. Limit - 1)
    <3> HIDE DEF rank, T
    <3> QED BY <2>1, <2>3 DEF Injection, IsInjective
  <2>5. IsFiniteSet(0 .. Limit - 1) /\ Cardinality(0 .. Limit - 1) = Limit
    BY SearchAssumption, FS_Interval
  <2> HIDE DEF rank, T
  <2> QED BY <2>4, <2>5, FS_Injection
<1>5. ASSUME hits # {} PROVE T # {}
  <2>1. PICK h \in hits : \A g \in hits : ~Ahead(g, h, pref)
    BY <1>5, SomeHitIsFirst
  <2>2. ahead(h) = {}
    BY <2>1
  <2>3. Cardinality(ahead(h)) < Limit
    BY <2>2, FS_EmptySet, SearchAssumption
  <2> QED BY <1>1, <2>3
<1> QED BY <1>2, <1>4, <1>5

\* A list of rows becomes as many hits, each at its own place after the first n.
LEMMA PlacedOK ==
    ASSUME NEW got \in Seq(SearchRow), NEW n \in Nat
    PROVE  /\ HitsOK(Placed(got, n))
           /\ \A h \in Placed(got, n) : h.place \in n + 1 .. n + Len(got)
           /\ {h.row : h \in Placed(got, n)} = {got[i] : i \in DOMAIN got}
           /\ got # <<>> => Placed(got, n) # {}
           /\ Cardinality(Placed(got, n)) <= Len(got)
<1> DEFINE P == Placed(got, n)
           hit == [i \in 1 .. Len(got) |-> [row |-> got[i], place |-> n + i]]
<1>1. P = {hit[i] : i \in 1 .. Len(got)}
  BY DEF Placed
<1>2. hit \in Surjection(1 .. Len(got), P)
  <2> HIDE DEF P
  <2> QED BY <1>1 DEF Surjection
<1>3. IsFiniteSet(1 .. Len(got)) /\ Cardinality(1 .. Len(got)) = Len(got)
  <2>1. Len(got) \in Nat
    OBVIOUS
  <2>2. 1 \in Int /\ Len(got) \in Int
    BY <2>1
  <2>3. IsFiniteSet(1 .. Len(got))
    BY <2>2, FS_Interval
  <2>4. Cardinality(1 .. Len(got)) = IF 1 > Len(got) THEN 0 ELSE Len(got) - 1 + 1
    BY <2>2, FS_Interval
  <2> QED BY <2>1, <2>3, <2>4
<1>4. IsFiniteSet(P) /\ Cardinality(P) <= Len(got)
  <2> HIDE DEF P, hit
  <2> QED BY <1>2, <1>3, FS_Surjection
<1>5. P \subseteq [row : SearchRow, place : Nat] /\ \A g, h \in P : g.place = h.place => g = h
  BY DEF Placed
<1>6. \A h \in P : h.place \in n + 1 .. n + Len(got)
  BY DEF Placed
<1>7. {h.row : h \in P} = {got[i] : i \in DOMAIN got}
  <2>1. \A i \in DOMAIN got : \E h \in P : h.row = got[i]
    <3> TAKE i \in DOMAIN got
    <3>1. [row |-> got[i], place |-> n + i] \in P
      BY DEF Placed
    <3> HIDE DEF P
    <3> QED BY <3>1
  <2>2. \A h \in P : \E i \in DOMAIN got : h.row = got[i]
    BY DEF Placed
  <2> HIDE DEF P
  <2> QED BY <2>1, <2>2
<1>8. got # <<>> => P # {}
  <2> SUFFICES ASSUME got # <<>> PROVE P # {}
    OBVIOUS
  <2>1. 1 \in DOMAIN got
    OBVIOUS
  <2>2. [row |-> got[1], place |-> n + 1] \in P
    BY <2>1 DEF Placed
  <2> QED BY <2>2
<1> QED BY <1>4, <1>5, <1>6, <1>7, <1>8 DEF HitsOK

\* Hits that may be merged stay so when some are dropped.
LEMMA SomeHitsOK ==
    ASSUME NEW hits, HitsOK(hits), NEW some \in SUBSET hits
    PROVE  HitsOK(some)
<1>1. IsFiniteSet(some)
  BY FS_Subset DEF HitsOK
<1> QED BY <1>1 DEF HitsOK

\* The late are dropped if something is in time, never all.
LEMMA RankedOK ==
    ASSUME NEW hits, HitsOK(hits)
    PROVE  /\ Ranked(hits) \subseteq hits /\ HitsOK(Ranked(hits))
           /\ (hits # {} => Ranked(hits) # {})
           /\ (~\A h \in hits : h.row.late) => Fit(Ranked(hits)) /\ Ranked(hits) # {}
<1>1. Ranked(hits) \subseteq hits /\ (hits # {} => Ranked(hits) # {})
  BY DEF Ranked
<1>2. (~\A h \in hits : h.row.late) => Fit(Ranked(hits)) /\ Ranked(hits) # {}
  BY DEF Ranked, Fit
<1> QED BY <1>1, <1>2, SomeHitsOK

\* A document is left once, with one of its rows.
LEMMA DedupedOK ==
    ASSUME NEW hits, HitsOK(hits)
    PROVE  /\ HitsOK(Deduped(hits)) /\ OnePerCorpus(Deduped(hits))
           /\ \A d \in Deduped(hits) : \E h \in hits : d.row = h.row
           /\ hits # {} => Deduped(hits) # {}
<1> DEFINE twins(h) == {g \in hits : g.row.corpus = h.row.corpus}
           best(h) == CHOOSE g \in twins(h) : \A k \in twins(h) : ~Better(k.row, g.row)
           firsts == {h \in hits : \A g \in twins(h) : h.place <= g.place}
           D == Deduped(hits)
<1>1. D = {[row |-> best(h).row, place |-> h.place] : h \in firsts}
  BY DEF Deduped
<1>2. ASSUME NEW h \in hits PROVE best(h) \in twins(h)
  <2> DEFINE key == [g \in twins(h) |-> 7 - (2 * g.row.score + Priority(g.row))]
  <2>1. key \in [twins(h) -> Nat] /\ twins(h) # {}
    BY HitFields
  <2>2. PICK g \in twins(h) : \A k \in twins(h) : key[g] <= key[k]
    <3> HIDE DEF key, twins
    <3> QED BY <2>1, LeastOf
  <2>3. \A k \in twins(h) : ~Better(k.row, g.row)
    <3> TAKE k \in twins(h)
    <3>1. 7 - (2 * g.row.score + Priority(g.row)) <= 7 - (2 * k.row.score + Priority(k.row))
      BY <2>2
    <3>2. /\ g.row.score \in 1 .. 3 /\ Priority(g.row) \in {0, 1}
          /\ k.row.score \in 1 .. 3 /\ Priority(k.row) \in {0, 1}
      BY HitFields
    <3> QED BY <3>1, <3>2 DEF Better
  <2> HIDE DEF twins
  <2> QED BY <2>3
<1>3. ASSUME NEW g \in firsts, NEW h \in firsts, g.row.corpus = h.row.corpus PROVE g = h
  <2>1. g \in twins(h) /\ h \in twins(g)
    BY <1>3
  <2>2. g.place \in Nat /\ h.place \in Nat
    BY HitFields
  <2>3. g.place <= h.place /\ h.place <= g.place
    BY <2>1
  <2> QED BY <2>2, <2>3 DEF HitsOK
<1>4. \A h \in firsts : best(h) \in hits /\ best(h).row.corpus = h.row.corpus
  BY <1>2
<1>5. \A d \in D : \E h \in firsts : d.row = best(h).row /\ d.place = h.place
                                  /\ d = [row |-> best(h).row, place |-> h.place]
  <2> HIDE DEF best, firsts, D
  <2> QED BY <1>1
<1>6. D \subseteq [row : SearchRow, place : Nat]
  <2> HIDE DEF best
  <2>1. \A h \in firsts : best(h).row \in SearchRow /\ h.place \in Nat
    BY <1>4, HitFields
  <2> HIDE DEF D, firsts
  <2> QED BY <1>5, <2>1
<1>7. \A c, d \in D : c.place = d.place => c = d
  <2> HIDE DEF best, D
  <2>1. \A g, h \in firsts : g.place = h.place => g = h
    BY DEF HitsOK
  <2> HIDE DEF firsts
  <2> QED BY <1>5, <2>1
<1>8. OnePerCorpus(D)
  <2> HIDE DEF best, firsts, D
  <2> QED BY <1>3, <1>4, <1>5 DEF OnePerCorpus
<1>9. IsFiniteSet(D)
  <2> DEFINE f == [h \in firsts |-> [row |-> best(h).row, place |-> h.place]]
  <2>1. IsFiniteSet(firsts)
    BY FS_Subset DEF HitsOK
  <2> HIDE DEF best, firsts, D
  <2>2. f \in Surjection(firsts, D)
    BY <1>1 DEF Surjection
  <2> HIDE DEF f
  <2> QED BY <2>1, <2>2, FS_Surjection
<1>10. \A d \in D : \E h \in hits : d.row = h.row
  <2> HIDE DEF best, firsts, D
  <2> QED BY <1>4, <1>5
<1>11. ASSUME hits # {} PROVE D # {}
  <2> DEFINE spot == [h \in hits |-> h.place]
  <2>1. spot \in [hits -> Nat]
    BY HitFields
  <2>2. PICK h \in hits : \A g \in hits : spot[h] <= spot[g]
    <3> HIDE DEF spot
    <3> QED BY <1>11, <2>1, LeastOf
  <2>3. h \in firsts
    BY <2>2
  <2> HIDE DEF best, firsts, D
  <2> QED BY <1>1, <2>3
<1> HIDE DEF D
<1>12. HitsOK(D)
  BY <1>6, <1>7, <1>9 DEF HitsOK
<1> QED BY <1>8, <1>10, <1>11, <1>12 DEF D

\* The merge of two lists of rows: rows of theirs, a row of each document, at most
\* Limit, and where one of them is fit some and only fit ones.
RowsMerge(got, more) == {got[i] : i \in DOMAIN got} \cup {more[i] : i \in DOMAIN more}
SomeFit(got) == \E i \in DOMAIN got : ~got[i].late
Apart(got) == \A i, j \in DOMAIN got : got[i].corpus = got[j].corpus => i = j

LEMMA MergedOK ==
    ASSUME own \in Seq(SearchRow), rest \in Seq(SearchRow), Len(own) <= 1, Apart(rest),
           scope \in {"personal", "combined", "both"},
           scope = "personal" => rest = <<>>, scope = "combined" => own = <<>>
    PROVE  /\ Merged \subseteq RowsMerge(own, rest)
           /\ \A row, other \in Merged : row.corpus = other.corpus => row = other
           /\ IsFiniteSet(Merged) /\ Cardinality(Merged) <= Limit
           /\ SomeFit(own) \/ SomeFit(rest) => Merged # {} /\ \A row \in Merged : ~row.late
<1> DEFINE personal == Placed(own, 0)
           placed == Placed(rest, Len(own))
           combined == Top(Ranked(placed), FALSE)
           both == personal \cup combined
           merged == CASE scope = "personal" -> personal
                       [] scope = "combined" -> combined
                       [] OTHER -> Top(Deduped(Ranked(both)), TRUE)
<1>1. /\ HitsOK(personal) /\ \A h \in personal : h.place <= Len(own)
      /\ {h.row : h \in personal} = {own[i] : i \in DOMAIN own}
      /\ Cardinality(personal) <= Len(own)
  <2>1. own \in Seq(SearchRow) /\ 0 \in Nat
    OBVIOUS
  <2>2. \A h \in Placed(own, 0) : h.place \in 0 + 1 .. 0 + Len(own)
    BY <2>1, PlacedOK
  <2>3. \A h \in Placed(own, 0) : h.place <= Len(own)
    BY <2>2
  <2>4. /\ HitsOK(Placed(own, 0)) /\ Cardinality(Placed(own, 0)) <= Len(own)
        /\ {h.row : h \in Placed(own, 0)} = {own[i] : i \in DOMAIN own}
    BY <2>1, PlacedOK
  <2> QED BY <2>3, <2>4 DEF personal
<1>2. /\ HitsOK(placed) /\ \A h \in placed : h.place > Len(own)
      /\ {h.row : h \in placed} = {rest[i] : i \in DOMAIN rest}
  <2>1. rest \in Seq(SearchRow) /\ Len(own) \in Nat /\ Len(rest) \in Nat
    OBVIOUS
  <2>2. \A h \in Placed(rest, Len(own)) : h.place \in Len(own) + 1 .. Len(own) + Len(rest)
    BY <2>1, PlacedOK
  <2>3. \A h \in Placed(rest, Len(own)) : h.place > Len(own)
    BY <2>1, <2>2
  <2>4. /\ HitsOK(Placed(rest, Len(own)))
        /\ {h.row : h \in Placed(rest, Len(own))} = {rest[i] : i \in DOMAIN rest}
    BY <2>1, PlacedOK
  <2> QED BY <2>3, <2>4 DEF placed
<1>3. /\ combined \subseteq placed /\ HitsOK(combined) /\ Cardinality(combined) <= Limit
      /\ SomeFit(rest) => combined # {} /\ Fit(combined)
  <2> HIDE DEF placed
  <2>1. Ranked(placed) \subseteq placed /\ HitsOK(Ranked(placed))
    BY <1>2, RankedOK
  <2>2. SomeFit(rest) => Ranked(placed) # {} /\ Fit(Ranked(placed))
    BY <1>2, RankedOK DEF SomeFit
  <2>3. /\ Top(Ranked(placed), FALSE) \subseteq Ranked(placed) /\ HitsOK(Top(Ranked(placed), FALSE))
        /\ Cardinality(Top(Ranked(placed), FALSE)) <= Limit
        /\ Ranked(placed) # {} => Top(Ranked(placed), FALSE) # {}
    BY <2>1, TopOK
  <2> QED BY <2>1, <2>2, <2>3 DEF Fit
<1>4. OnePerCorpus(combined)
  <2>1. OnePerCorpus(placed)
    BY DEF OnePerCorpus, Placed, Apart
  <2> QED BY <1>3, <2>1 DEF OnePerCorpus
<1> HIDE DEF personal, placed, combined
<1>5. HitsOK(both)
  <2>1. IsFiniteSet(both)
    BY <1>1, <1>3, FS_Union DEF HitsOK
  <2>2. \A g \in personal, h \in combined : g.place # h.place
    <3> TAKE g \in personal, h \in combined
    <3>1. g.place \in Nat /\ h.place \in Nat /\ g.place <= Len(own) /\ h.place > Len(own)
      BY <1>1, <1>2, <1>3, HitFields
    <3> QED BY <3>1
  <2> QED BY <1>1, <1>3, <2>1, <2>2 DEF HitsOK
<1> DEFINE last == Top(Deduped(Ranked(both)), TRUE)
<1>6. /\ HitsOK(last) /\ OnePerCorpus(last) /\ Cardinality(last) <= Limit
      /\ \A d \in last : \E h \in both : d.row = h.row
      /\ SomeFit(own) \/ SomeFit(rest) => last # {} /\ Fit(last)
  <2>1. SomeFit(own) \/ SomeFit(rest) => ~\A h \in both : h.row.late
    BY <1>1, <1>3 DEF SomeFit, Fit
  <2> HIDE DEF both
  <2>2. /\ Ranked(both) \subseteq both /\ HitsOK(Ranked(both))
        /\ SomeFit(own) \/ SomeFit(rest) => Fit(Ranked(both)) /\ Ranked(both) # {}
    BY <1>5, <2>1, RankedOK
  <2> DEFINE ded == Deduped(Ranked(both))
  <2>3. /\ HitsOK(ded) /\ OnePerCorpus(ded) /\ \A d \in ded : \E h \in Ranked(both) : d.row = h.row
        /\ Ranked(both) # {} => ded # {}
    BY <2>2, DedupedOK
  <2> HIDE DEF ded
  <2>4. /\ Top(ded, TRUE) \subseteq ded /\ HitsOK(Top(ded, TRUE)) /\ Cardinality(Top(ded, TRUE)) <= Limit
        /\ ded # {} => Top(ded, TRUE) # {}
    BY <2>3, TopOK
  <2>5. SomeFit(own) \/ SomeFit(rest) => Fit(ded) /\ ded # {}
    BY <2>2, <2>3 DEF Fit
  <2>6. last = Top(ded, TRUE)
    BY DEF ded
  <2> HIDE DEF last
  <2> QED BY <2>2, <2>3, <2>4, <2>5, <2>6 DEF OnePerCorpus, Fit
<1>7. Merged = {h.row : h \in merged}
  BY DEF Merged, personal, placed, combined
<1> HIDE DEF last, both
<1>8. /\ HitsOK(merged) /\ Cardinality(merged) <= Limit
      /\ \A g, h \in merged : g.row.corpus = h.row.corpus => g = h
      /\ \A d \in merged : (\E h \in personal : d.row = h.row) \/ (\E h \in combined : d.row = h.row)
      /\ SomeFit(own) \/ SomeFit(rest) => merged # {} /\ Fit(merged)
  <2>1. CASE scope = "personal"
    <3>1. merged = personal
      BY <2>1
    <3>2. Cardinality(personal) <= 1 /\ Cardinality(personal) \in Nat /\ IsFiniteSet(personal)
      BY <1>1, FS_CardinalityType DEF HitsOK
    <3>3. Cardinality(personal) <= Limit
      BY <3>2, SearchAssumption
    <3>4. \A g, h \in personal : g = h
      <4>1. Cardinality(personal) = 0 => personal = {}
        BY <3>2, FS_EmptySet
      <4>2. Cardinality(personal) = 1 => \E x : personal = {x}
        BY <3>2, FS_Singleton
      <4> QED BY <3>2, <4>1, <4>2
    <3>5. ~SomeFit(rest)
      BY <2>1 DEF SomeFit
    <3>6. SomeFit(own) => personal # {} /\ Fit(personal)
      <4>1. SomeFit(own) => \E h \in personal : ~h.row.late
        BY <1>1 DEF SomeFit
      <4> QED BY <3>4, <4>1 DEF Fit
    <3> HIDE DEF merged
    <3> QED BY <1>1, <3>1, <3>3, <3>4, <3>5, <3>6
  <2>2. CASE scope = "combined"
    <3>1. merged = combined
      BY <2>2
    <3>2. ~SomeFit(own)
      BY <2>2 DEF SomeFit
    <3> HIDE DEF merged
    <3> QED BY <1>3, <1>4, <3>1, <3>2 DEF OnePerCorpus
  <2>3. CASE scope = "both"
    <3>1. merged = last
      BY <2>3 DEF last
    <3> HIDE DEF merged
    <3> QED BY <1>6, <3>1 DEF OnePerCorpus, both
  <2> QED BY <2>1, <2>2, <2>3
<1> HIDE DEF merged
<1>9. Merged \subseteq RowsMerge(own, rest)
  <2>1. \A h \in personal : h.row \in RowsMerge(own, rest)
    BY <1>1 DEF RowsMerge
  <2>2. \A h \in combined : h.row \in RowsMerge(own, rest)
    BY <1>2, <1>3 DEF RowsMerge
  <2> QED BY <1>7, <1>8, <2>1, <2>2
<1>10. IsFiniteSet(Merged) /\ Cardinality(Merged) <= Limit
  <2> DEFINE f == [h \in merged |-> h.row]
  <2>1. f \in Surjection(merged, Merged)
    BY <1>7 DEF Surjection
  <2>2. IsFiniteSet(merged) /\ Cardinality(merged) \in Nat
    BY <1>8, FS_CardinalityType DEF HitsOK
  <2> HIDE DEF f
  <2>3. IsFiniteSet(Merged) /\ Cardinality(Merged) <= Cardinality(merged)
    BY <2>1, <2>2, FS_Surjection
  <2>4. Cardinality(Merged) \in Nat
    BY <2>3, FS_CardinalityType
  <2> QED BY <1>8, <2>2, <2>3, <2>4, SearchAssumption
<1>11. \A row, other \in Merged : row.corpus = other.corpus => row = other
  BY <1>7, <1>8
<1>12. SomeFit(own) \/ SomeFit(rest) => Merged # {} /\ \A row \in Merged : ~row.late
  BY <1>7, <1>8 DEF Fit
<1> QED BY <1>9, <1>10, <1>11, <1>12

-----------------------------------------------------------------------------
(* The invariant *)

SearchLeg == [corpus : Corpora, src : {"p", "c"}, soft : BOOLEAN, engine : 0 .. 2]
Stages == {"packing", "document_access", "score_calibration", "learnings"}
SearchReport == [src : {"p", "c", "request"}, agent : Corpora \cup {None} \cup Stages,
                 verdict : Verdicts \cup {"failed"}]
LegReport == {r \in SearchReport : r.src \in {"p", "c"}}
LegRun == [corpus : Corpora, report : LegReport]
Taken == [engine : 0 .. 2, rows : Seq(SearchRow), verdict : Verdicts, poison : BOOLEAN]

Before == {"asking", "resolving", "combining"}
After == {"counting", "scoring", "learning", "answered"}

RequestTyped ==
    /\ scope \in {"personal", "combined", "both"} /\ hasOwn \in BOOLEAN
    /\ left \in Budgets /\ engines \in {1, 2} /\ at \in Before \cup After \cup {"failed"}
    /\ lateLeg \in BOOLEAN /\ healthy \in BOOLEAN
LegsTyped ==
    /\ todo \in Seq(SearchLeg) /\ snapshot \in Seq(Taken)
    /\ own \in Seq(SearchRow) /\ rest \in Seq(SearchRow)
ReportsTyped == reports \in Seq(SearchReport) /\ ran \in Seq(LegRun)
AnswerTyped ==
    /\ results \subseteq SearchRow /\ IsFiniteSet(results) /\ Cardinality(results) <= Limit
    /\ bumped \in [Corpora -> Nat] /\ scored \subseteq Corpora
    /\ confidence \in [Corpora -> {"blend", "raw", "rank"}] /\ window \in 0 .. Threshold

\* What the legs' order leaves: of the personal leg at most one row, of the combined ones at
\* most one of each corpus, and none of a corpus still to be asked.
PersonalFirst ==
    /\ Len(own) <= 1 /\ (scope = "combined" => own = <<>>) /\ (scope = "personal" => rest = <<>>)
    /\ at = "asking" => /\ scope # "combined" /\ rest = <<>> /\ Len(todo) <= 1
                        /\ todo # <<>> => own = <<>> /\ snapshot = <<>>
    /\ at = "resolving" => scope # "personal" /\ rest = <<>> /\ todo = <<>>
    /\ at = "combining" => scope # "personal"
    /\ \A i \in DOMAIN todo : todo[i].src = "p" => todo[i].corpus = "own"
CorporaOf(s) == {s[i].corpus : i \in DOMAIN s}
CorporaApart ==
    at = "combining" =>
        /\ Apart(rest) /\ Apart(todo) /\ CorporaOf(rest) \cap CorporaOf(todo) = {}
        /\ \A i \in DOMAIN todo : todo[i].src = "c"
SnapshotIsOwn ==
    snapshot # <<>> => /\ Len(snapshot[1].rows) <= 1
                       /\ \A i \in DOMAIN snapshot[1].rows : snapshot[1].rows[i].corpus = "own"

HealthyIsKept == at \in Before /\ healthy => SomeFit(own) \/ SomeFit(rest)

NothingYet ==
    at \in Before => /\ results = {} /\ \A c \in Corpora : bumped[c] = 0
                     /\ scored = {} /\ learnings = "unasked"
CountsInAnswer ==
    /\ \A row, other \in results : row.corpus = other.corpus => row = other
    /\ \A c \in Corpora :
         /\ bumped[c] <= 1
         /\ bumped[c] = 1 => \E row \in results : row.corpus = c /\ ~row.late
CountingEnds ==
    at \in {"scoring", "learning", "answered"} /\ left > 0
        => \A row \in results : row.late \/ bumped[row.corpus] = 1
NoTrace ==
    NothingCounts => (\A c \in Corpora : bumped[c] = 0) /\ scored = {} /\ learnings # "counted"

ReportsAgree(reps, runs) ==
    LET ofLegs == {i \in DOMAIN reps : reps[i].src # "request"}
        vaults == {i \in DOMAIN runs : runs[i].corpus # "shared"}
        shared == {runs[i].report : i \in {j \in DOMAIN runs : runs[j].corpus = "shared"}}
    IN  /\ {reps[i] : i \in ofLegs} = {runs[i].report : i \in DOMAIN runs}
        /\ Cardinality(ofLegs) = Cardinality(vaults) + Cardinality(shared)

Wanted == Others \cup {"shared"} \cup (IF hasOwn THEN {"own"} ELSE {})
AllAsked ==
    /\ at = "combining" => Wanted \subseteq CorporaOf(ran) \cup CorporaOf(todo)
    /\ at \in After /\ scope # "personal" =>
         Wanted \subseteq CorporaOf(ran) \/ \E i \in DOMAIN reports : reports[i].verdict # "whole"

SearchInv ==
    /\ RequestTyped /\ LegsTyped /\ ReportsTyped /\ AnswerTyped
    /\ PersonalFirst /\ CorporaApart /\ SnapshotIsOwn
    /\ HealthyIsKept /\ HealthyIsNotEvicted
    /\ NothingYet /\ CountsInAnswer /\ CountingEnds /\ NoTrace
    /\ ReportsAgree(reports, ran) /\ AllAsked

\* What becomes of lists of legs and rows as legs are taken and rows come in.
LEMMA TailOf ==
    ASSUME NEW S, NEW s \in Seq(S), s # <<>>
    PROVE  /\ Head(s) \in S /\ Head(s) = s[1] /\ 1 \in DOMAIN s
           /\ Tail(s) \in Seq(S) /\ Len(Tail(s)) = Len(s) - 1
           /\ \A i \in DOMAIN Tail(s) : i + 1 \in DOMAIN s /\ Tail(s)[i] = s[i + 1]
           /\ \A i \in DOMAIN s : i = 1 \/ (i - 1 \in DOMAIN Tail(s) /\ Tail(s)[i - 1] = s[i])
OBVIOUS

LEMMA AppendOf ==
    ASSUME NEW S, NEW s \in Seq(S), NEW x \in S
    PROVE  /\ Append(s, x) \in Seq(S) /\ DOMAIN Append(s, x) = DOMAIN s \cup {Len(s) + 1}
           /\ Len(s) \in Nat /\ Len(s) + 1 \notin DOMAIN s
           /\ Append(s, x)[Len(s) + 1] = x
           /\ \A i \in DOMAIN s : Append(s, x)[i] = s[i]
OBVIOUS

LEMMA JoinOf ==
    ASSUME NEW S, NEW s \in Seq(S), NEW t \in Seq(S)
    PROVE  /\ s \o t \in Seq(S) /\ Len(s \o t) = Len(s) + Len(t)
           /\ \A i \in DOMAIN s : i \in DOMAIN (s \o t) /\ (s \o t)[i] = s[i]
           /\ \A i \in DOMAIN t : Len(s) + i \in DOMAIN (s \o t) /\ (s \o t)[Len(s) + i] = t[i]
           /\ \A i \in DOMAIN (s \o t) : \/ i \in DOMAIN s /\ (s \o t)[i] = s[i]
                                         \/ /\ i - Len(s) \in DOMAIN t
                                            /\ (s \o t)[i] = t[i - Len(s)]
OBVIOUS

\* What a leg reports keeps the account of the reports.
Spoken(runs) == {runs[i].report : i \in {j \in DOMAIN runs : runs[j].corpus = "shared"}}

LEMMA Counted ==
    ASSUME NEW runs \in Seq(LegRun)
    PROVE  /\ IsFiniteSet(Spoken(runs)) /\ Cardinality(Spoken(runs)) \in Nat
           /\ IsFiniteSet(DOMAIN runs)
<1> DEFINE D == {j \in DOMAIN runs : runs[j].corpus = "shared"}
           f == [i \in D |-> runs[i].report]
<1>1. IsFiniteSet(DOMAIN runs)
  <2>1. DOMAIN runs = 1 .. Len(runs) /\ Len(runs) \in Int /\ 1 \in Int
    OBVIOUS
  <2> QED BY <2>1, FS_Interval
<1>2. IsFiniteSet(D)
  BY <1>1, FS_Subset
<1>3. f \in Surjection(D, Spoken(runs))
  <2>1. Spoken(runs) = {runs[i].report : i \in D}
    BY DEF Spoken
  <2> HIDE DEF D
  <2> QED BY <2>1 DEF Surjection
<1> HIDE DEF D, f
<1>4. IsFiniteSet(Spoken(runs))
  BY <1>2, <1>3, FS_Surjection
<1> QED BY <1>1, <1>4, FS_CardinalityType

LEMMA DomainIsFinite ==
    ASSUME NEW S, NEW s \in Seq(S)
    PROVE  IsFiniteSet(DOMAIN s)
<1>1. DOMAIN s = 1 .. Len(s) /\ Len(s) \in Int /\ 1 \in Int
  OBVIOUS
<1> QED BY <1>1, FS_Interval

\* The shared corpus tells a report once, and the reports go on agreeing with the runs.
LEMMA ToldAgrees ==
    ASSUME NEW reps \in Seq(SearchReport), NEW runs \in Seq(LegRun), ReportsAgree(reps, runs),
           NEW c \in Corpora, NEW r \in LegReport
    PROVE  ReportsAgree(IF c = "shared" /\ r \in Spoken(runs) THEN reps ELSE Append(reps, r),
                        Append(runs, [corpus |-> c, report |-> r]))
<1> DEFINE reps2 == IF c = "shared" /\ r \in Spoken(runs) THEN reps ELSE Append(reps, r)
           run == [corpus |-> c, report |-> r]
           runs2 == Append(runs, run)
           legs(rs) == {i \in DOMAIN rs : rs[i].src # "request"}
           vaults(rs) == {i \in DOMAIN rs : rs[i].corpus # "shared"}
           n == Len(runs) + 1
           m == Len(reps) + 1
<1>1. r \in SearchReport /\ r.src # "request" /\ run \in LegRun
  BY DEF LegReport, LegRun
<1>2. /\ DOMAIN runs2 = DOMAIN runs \cup {n} /\ n \notin DOMAIN runs
      /\ runs2[n] = run /\ \A i \in DOMAIN runs : runs2[i] = runs[i]
  BY <1>1, AppendOf
<1>3. /\ DOMAIN Append(reps, r) = DOMAIN reps \cup {m} /\ m \notin DOMAIN reps
      /\ Append(reps, r)[m] = r /\ \A i \in DOMAIN reps : Append(reps, r)[i] = reps[i]
  BY <1>1, AppendOf
<1>4. /\ {reps[i] : i \in legs(reps)} = {runs[i].report : i \in DOMAIN runs}
      /\ Cardinality(legs(reps)) = Cardinality(vaults(runs)) + Cardinality(Spoken(runs))
  BY DEF ReportsAgree, Spoken
<1>5. /\ IsFiniteSet(legs(reps)) /\ IsFiniteSet(vaults(runs))
      /\ Cardinality(legs(reps)) \in Nat /\ Cardinality(vaults(runs)) \in Nat
  <2>1. IsFiniteSet(DOMAIN reps) /\ IsFiniteSet(DOMAIN runs)
    BY DomainIsFinite
  <2> QED BY <2>1, FS_Subset, FS_CardinalityType
<1>6. IsFiniteSet(Spoken(runs)) /\ Cardinality(Spoken(runs)) \in Nat
  BY Counted
<1>7. {runs2[i].report : i \in DOMAIN runs2} = {runs[i].report : i \in DOMAIN runs} \cup {r}
  <2> HIDE DEF runs2, n
  <2> QED BY <1>2
<1>8. Spoken(runs2) = IF c = "shared" THEN Spoken(runs) \cup {r} ELSE Spoken(runs)
  <2> HIDE DEF runs2, n
  <2> QED BY <1>2 DEF Spoken
<1>9. vaults(runs2) = IF c = "shared" THEN vaults(runs) ELSE vaults(runs) \cup {n}
  <2> HIDE DEF runs2, n
  <2> QED BY <1>2
<1>10. legs(Append(reps, r)) = legs(reps) \cup {m}
  <2> HIDE DEF m
  <2> QED BY <1>1, <1>3
<1>11. {Append(reps, r)[i] : i \in legs(Append(reps, r))} = {reps[i] : i \in legs(reps)} \cup {r}
  <2>1. \A i \in legs(reps) : Append(reps, r)[i] = reps[i]
    BY <1>3
  <2>2. Append(reps, r)[m] = r
    BY <1>3
  <2> HIDE DEF m, legs
  <2> QED BY <1>10, <2>1, <2>2
<1>12. m \notin legs(reps) /\ n \notin vaults(runs)
  BY <1>2, <1>3
<1> HIDE DEF legs, vaults, runs2, n, m
<1>13. CASE c = "shared" /\ r \in Spoken(runs)
  <2>1. reps2 = reps /\ Spoken(runs2) = Spoken(runs) /\ vaults(runs2) = vaults(runs)
    BY <1>8, <1>9, <1>13
  <2>2. r \in {runs[i].report : i \in DOMAIN runs}
    BY <1>13 DEF Spoken
  <2>3. {reps2[i] : i \in legs(reps2)} = {runs2[i].report : i \in DOMAIN runs2}
    BY <1>4, <1>7, <2>1, <2>2
  <2> HIDE DEF reps2
  <2>4. ReportsAgree(reps2, runs2)
    BY <1>4, <2>1, <2>3 DEF ReportsAgree, Spoken, legs, vaults
  <2> QED BY <2>4 DEF reps2, runs2
<1>14. CASE ~(c = "shared" /\ r \in Spoken(runs))
  <2>1. reps2 = Append(reps, r)
    BY <1>14
  <2>2. Cardinality(legs(reps) \cup {m}) = Cardinality(legs(reps)) + 1
    BY <1>5, <1>12, FS_AddElement
  <2>3. Cardinality(vaults(runs) \cup {n}) = Cardinality(vaults(runs)) + 1
    BY <1>5, <1>12, FS_AddElement
  <2>4. r \notin Spoken(runs) => Cardinality(Spoken(runs) \cup {r}) = Cardinality(Spoken(runs)) + 1
    BY <1>6, FS_AddElement
  <2>5. Cardinality(legs(reps2)) = Cardinality(vaults(runs2)) + Cardinality(Spoken(runs2))
    <3>1. CASE c = "shared"
      <4>1. Cardinality(Spoken(runs2)) = Cardinality(Spoken(runs)) + 1
        BY <1>8, <1>14, <2>4, <3>1
      <4>2. Cardinality(vaults(runs2)) = Cardinality(vaults(runs))
        BY <1>9, <3>1
      <4>3. Cardinality(legs(reps2)) = Cardinality(legs(reps)) + 1
        BY <1>10, <2>1, <2>2
      <4> QED BY <1>4, <1>5, <1>6, <4>1, <4>2, <4>3
    <3>2. CASE c # "shared"
      <4>1. Cardinality(Spoken(runs2)) = Cardinality(Spoken(runs))
        BY <1>8, <3>2
      <4>2. Cardinality(vaults(runs2)) = Cardinality(vaults(runs)) + 1
        BY <1>9, <2>3, <3>2
      <4>3. Cardinality(legs(reps2)) = Cardinality(legs(reps)) + 1
        BY <1>10, <2>1, <2>2
      <4> QED BY <1>4, <1>5, <1>6, <4>1, <4>2, <4>3
    <3> QED BY <3>1, <3>2
  <2>6. {reps2[i] : i \in legs(reps2)} = {runs2[i].report : i \in DOMAIN runs2}
    BY <1>4, <1>7, <1>11, <2>1
  <2> HIDE DEF reps2
  <2>7. ReportsAgree(reps2, runs2)
    BY <2>5, <2>6 DEF ReportsAgree, Spoken, legs, vaults
  <2> QED BY <2>7 DEF reps2, runs2
<1> QED BY <1>13, <1>14

\* What the request says of itself is no leg's report.
LEMMA OtherReportsAgree ==
    ASSUME NEW reps \in Seq(SearchReport), NEW runs, ReportsAgree(reps, runs),
           NEW r \in SearchReport, r.src = "request"
    PROVE  ReportsAgree(Append(reps, r), runs)
<1> DEFINE legs(rs) == {i \in DOMAIN rs : rs[i].src # "request"}
<1>1. legs(Append(reps, r)) = legs(reps)
  BY AppendOf
<1>2. {Append(reps, r)[i] : i \in legs(Append(reps, r))} = {reps[i] : i \in legs(reps)}
  <2>1. \A i \in legs(reps) : Append(reps, r)[i] = reps[i]
    BY AppendOf
  <2> HIDE DEF legs
  <2> QED BY <1>1, <2>1
<1> HIDE DEF legs
<1>3. QED
  BY <1>1, <1>2 DEF ReportsAgree, legs

-----------------------------------------------------------------------------
(* The steps of a leg *)

LEMMA VaultNames ==
    /\ "own" \in Corpora /\ "shared" \in Corpora /\ Others \subseteq Corpora
    /\ "own" \notin Others /\ "shared" \notin Others
BY SearchAssumption DEF Corpora, Vaults

LEMMA AgentIsKnown ==
    ASSUME NEW l \in SearchLeg, NEW v \in Verdicts \cup {"failed"}
    PROVE  Report(l.src, AgentOf(l, v), v) \in LegReport
<1>1. l.src \in {"p", "c"} /\ l.corpus \in Corpora
  BY DEF SearchLeg
<1>2. AgentOf(l, v) \in Corpora \cup {None}
  BY <1>1 DEF AgentOf
<1> QED BY <1>1, <1>2 DEF Report, LegReport, SearchReport

\* What a leg that answers does.
LegAnswers(l, got, r) ==
    /\ at \in {"asking", "combining"} /\ todo # <<>> /\ l = Head(todo) /\ todo' = Tail(todo)
    /\ got \in Seq(SearchRow) /\ Len(got) <= 1 /\ \A i \in DOMAIN got : got[i].corpus = l.corpus
    /\ Keep(got) /\ r \in LegReport /\ Told(l, r)
    /\ left' \in Budgets /\ left' <= left
    /\ lateLeg' \in BOOLEAN /\ healthy' \in BOOLEAN /\ (healthy' => healthy \/ SomeFit(got))
    /\ \/ snapshot' = snapshot
       \/ /\ l.corpus = "own" /\ Len(snapshot') = 1 /\ snapshot' \in Seq(Taken)
          /\ snapshot'[1].rows = got /\ l.src = "p"
    /\ UNCHANGED <<Request, engines, at, results, Counts>>

\* Whether it is run or answers from the snapshot: what a leg adds to rows and reports.
LEMMA LegStep ==
    ASSUME RequestTyped, LegsTyped, PersonalFirst, SnapshotIsOwn, RunLeg \/ ReuseSnapshot
    PROVE  \E l \in SearchLeg, got \in Seq(SearchRow), r \in LegReport : LegAnswers(l, got, r)
<1> DEFINE l == Head(todo)
<1>1. at \in {"asking", "combining"} /\ todo # <<>> /\ todo' = Tail(todo)
  BY DEF RunLeg, ReuseSnapshot
<1>2. l \in SearchLeg /\ l = todo[1] /\ 1 \in DOMAIN todo
  BY <1>1, TailOf DEF LegsTyped
<1>3. /\ l.corpus \in Corpora /\ l.src \in {"p", "c"} /\ l.engine \in 0 .. 2
      /\ l.src = "p" => l.corpus = "own"
  BY <1>2 DEF SearchLeg, PersonalFirst
<1>4. CASE RunLeg
  <2>a. PICK e \in 0 .. left, v \in Verdicts, hit \in BOOLEAN, poison \in BOOLEAN :
          /\ \E score \in Scores(v) :
               LET got == IF hit THEN <<Row(l, score, v = "late")>> ELSE <<>> IN
                 /\ Keep(got)
                 /\ snapshot' = IF l.src = "p" /\ scope = "both"
                                THEN <<[engine |-> l.engine, rows |-> got, verdict |-> v,
                                        poison |-> poison]>>
                                ELSE snapshot
          /\ left' = e /\ lateLeg' = (lateLeg \/ poison)
          /\ healthy' = (healthy \/ (hit /\ v # "late"))
          /\ Told(l, Report(l.src, AgentOf(l, v), v))
    BY <1>4 DEF RunLeg
  <2>1. PICK score \in Scores(v) :
          LET got == IF hit THEN <<Row(l, score, v = "late")>> ELSE <<>> IN
            /\ Keep(got)
            /\ snapshot' = IF l.src = "p" /\ scope = "both"
                           THEN <<[engine |-> l.engine, rows |-> got, verdict |-> v,
                                   poison |-> poison]>>
                           ELSE snapshot
    BY <2>a
  <2> DEFINE row == Row(l, score, v = "late")
             got == IF hit THEN <<row>> ELSE <<>>
  <2>2. row \in SearchRow /\ row.corpus = l.corpus /\ (row.late <=> v = "late")
    <3>1. score \in 1 .. 3 /\ (v = "late" <=> score = 2) /\ (v = "late") \in BOOLEAN
      BY DEF Scores
    <3> QED BY <1>3, <3>1 DEF Row, SearchRow
  <2>3. /\ got \in Seq(SearchRow) /\ Len(got) <= 1 /\ \A i \in DOMAIN got : got[i].corpus = l.corpus
    <3> HIDE DEF row
    <3> QED BY <2>2
  <2>4. hit /\ v # "late" => SomeFit(got)
    <3> SUFFICES ASSUME hit, v # "late" PROVE SomeFit(got)
      OBVIOUS
    <3>1. 1 \in DOMAIN <<row>> /\ <<row>>[1] = row
      OBVIOUS
    <3> HIDE DEF row
    <3> QED BY <2>2, <3>1 DEF SomeFit
  <2>5. left' \in Budgets /\ left' <= left
    BY <2>a DEF Budgets, RequestTyped
  <2>6. Report(l.src, AgentOf(l, v), v) \in LegReport
    BY <1>2, AgentIsKnown
  <2> DEFINE taken == [engine |-> l.engine, rows |-> got, verdict |-> v, poison |-> poison]
  <2>7. taken \in Taken /\ taken.rows = got
    BY <1>3, <2>3 DEF Taken
  <2>8. snapshot' = snapshot \/ (l.src = "p" /\ snapshot' = <<taken>>)
    BY <2>1
  <2>9. Keep(got) /\ lateLeg' = (lateLeg \/ poison) /\ healthy' = (healthy \/ (hit /\ v # "late"))
        /\ Told(l, Report(l.src, AgentOf(l, v), v))
    BY <2>1, <2>a
  <2> HIDE DEF taken, got
  <2>10. lateLeg' \in BOOLEAN /\ healthy' \in BOOLEAN /\ (healthy' => healthy \/ SomeFit(got))
    BY <2>4, <2>9 DEF RequestTyped
  <2>11. \/ snapshot' = snapshot
         \/ /\ l.corpus = "own" /\ Len(snapshot') = 1 /\ snapshot' \in Seq(Taken)
            /\ snapshot'[1].rows = got /\ l.src = "p"
    <3>1. Len(<<taken>>) = 1 /\ <<taken>> \in Seq(Taken) /\ <<taken>>[1] = taken
      BY <2>7
    <3> QED BY <1>3, <2>7, <2>8, <3>1
  <2>12. UNCHANGED <<Request, engines, at, results, Counts>>
    BY <1>4 DEF RunLeg
  <2>13. LegAnswers(l, got, Report(l.src, AgentOf(l, v), v))
    BY <1>1, <2>3, <2>5, <2>6, <2>9, <2>10, <2>11, <2>12 DEF LegAnswers
  <2> HIDE DEF l
  <2> QED BY <1>2, <2>3, <2>6, <2>13
<1>5. CASE ReuseSnapshot
  <2> DEFINE old == snapshot[1].rows
             got == [i \in DOMAIN old |-> [old[i] EXCEPT !.src = "c"]]
             r == Report("c", l.corpus, snapshot[1].verdict)
  <2>1. /\ snapshot # <<>> /\ l.corpus = "own" /\ Keep(got) /\ Told(l, r)
        /\ lateLeg' = (lateLeg \/ snapshot[1].poison)
        /\ UNCHANGED <<Request, left, engines, at, snapshot, results, Counts, healthy>>
    BY <1>5 DEF ReuseSnapshot, Reusable
  <2>2. snapshot[1] \in Taken
    BY <2>1 DEF LegsTyped
  <2>3. /\ old \in Seq(SearchRow) /\ snapshot[1].verdict \in Verdicts /\ snapshot[1].poison \in BOOLEAN
        /\ Len(old) <= 1 /\ \A i \in DOMAIN old : old[i].corpus = "own"
    BY <2>1, <2>2 DEF Taken, SnapshotIsOwn
  <2> HIDE DEF old
  <2>4. ASSUME NEW i \in DOMAIN old
        PROVE  [old[i] EXCEPT !.src = "c"] \in SearchRow /\ [old[i] EXCEPT !.src = "c"].corpus = "own"
    <3>a. old \in Seq(SearchRow)
      BY <2>3
    <3>b. old[i] \in SearchRow
      BY <3>a
    <3>1. old[i] \in SearchRow /\ old[i].corpus = "own"
      BY <2>3, <3>b
    <3>2. old[i] \in [corpus : Corpora, src : {"p", "c"}, score : 1 .. 3, late : BOOLEAN]
          /\ (old[i].late <=> old[i].score = 2)
      BY <3>1 DEF SearchRow
    <3> QED BY <3>1, <3>2 DEF SearchRow
  <2>5. got \in Seq(SearchRow) /\ Len(got) = Len(old) /\ \A i \in DOMAIN got : got[i].corpus = "own"
    <3>1. DOMAIN old = 1 .. Len(old) /\ Len(old) \in Nat
      BY <2>3
    <3> DEFINE turned(i) == [old[i] EXCEPT !.src = "c"]
    <3>2. \A i \in 1 .. Len(old) : turned(i) \in SearchRow /\ turned(i).corpus = "own"
      BY <2>4, <3>1
    <3> DEFINE f == [i \in 1 .. Len(old) |-> turned(i)]
    <3>3. got = f
      BY <3>1
    <3> HIDE DEF turned, got
    <3>4. f \in [1 .. Len(old) -> SearchRow]
      BY <3>2
    <3>5. f \in Seq(SearchRow) /\ Len(f) = Len(old)
      <4> HIDE DEF f
      <4> QED BY <3>1, <3>4
    <3>6. \A i \in DOMAIN f : f[i].corpus = "own"
      BY <3>2
    <3> HIDE DEF f
    <3> QED BY <3>3, <3>5, <3>6
  <2>6. r \in LegReport
    BY <1>3, <2>3 DEF Report, LegReport, SearchReport
  <2>7. lateLeg' \in BOOLEAN /\ healthy' \in BOOLEAN /\ healthy' = healthy
        /\ left' \in Budgets /\ left' <= left
    BY <2>1, <2>3 DEF RequestTyped, Budgets
  <2> HIDE DEF got, r
  <2>8. LegAnswers(l, got, r)
    BY <1>1, <2>1, <2>3, <2>5, <2>6, <2>7 DEF LegAnswers
  <2> HIDE DEF l
  <2> QED BY <1>2, <2>5, <2>6, <2>8
<1> QED BY <1>4, <1>5

\* What a leg that fails does, short of failing the request.
LegFailed(l, r) ==
    /\ at \in {"asking", "combining"} /\ todo # <<>> /\ l = Head(todo)
    /\ r \in LegReport /\ Told(l, r)
    /\ todo' = (IF l.src = "p" THEN <<SharedLeg(TRUE)>> ELSE <<>>) \o Tail(todo)
    /\ UNCHANGED <<Request, left, engines, at, snapshot, Rows, lateLeg, results, Counts, healthy>>

\* A leg that fails takes the request with it, or is reported and left out.
LEMMA FailStep ==
    ASSUME LegsTyped, LegFails
    PROVE  \/ /\ at' = "failed"
              /\ UNCHANGED <<Request, left, engines, todo, snapshot, Rows, reports, lateLeg, results,
                             Counts, ran, healthy>>
           \/ \E l \in SearchLeg, r \in LegReport : LegFailed(l, r)
<1> DEFINE l == Head(todo)
           r == Report(l.src, AgentOf(l, "failed"), "failed")
<1>1. todo # <<>> /\ l \in SearchLeg
  BY TailOf DEF LegsTyped, LegFails
<1>2. r \in LegReport
  BY <1>1, AgentIsKnown
<1>3. CASE l.src = "c" /\ ~l.soft
  BY <1>3 DEF LegFails
<1>4. CASE ~(l.src = "c" /\ ~l.soft)
  <2>1. /\ at \in {"asking", "combining"} /\ Told(l, r)
        /\ todo' = (IF l.src = "p" THEN <<SharedLeg(TRUE)>> ELSE <<>>) \o Tail(todo)
        /\ UNCHANGED <<Request, left, engines, at, snapshot, Rows, lateLeg, results, Counts, healthy>>
    BY <1>4 DEF LegFails
  <2>2. LegFailed(l, r)
    BY <1>1, <1>2, <2>1 DEF LegFailed
  <2> HIDE DEF l, r
  <2> QED BY <1>1, <1>2, <2>2
<1> QED BY <1>3, <1>4

LEMMA CorporaOfTail ==
    ASSUME NEW S, NEW s \in Seq(S), s # <<>>
    PROVE  /\ CorporaOf(s) = {Head(s).corpus} \cup CorporaOf(Tail(s))
           /\ Apart(s) => Apart(Tail(s)) /\ Head(s).corpus \notin CorporaOf(Tail(s))
<1>1. /\ Head(s) = s[1] /\ 1 \in DOMAIN s
      /\ \A i \in DOMAIN Tail(s) : i \in Nat /\ i >= 1 /\ i + 1 \in DOMAIN s /\ Tail(s)[i] = s[i + 1]
      /\ \A i \in DOMAIN s : i = 1 \/ (i - 1 \in DOMAIN Tail(s) /\ Tail(s)[i - 1] = s[i])
  BY TailOf
<1>2. CorporaOf(s) = {Head(s).corpus} \cup CorporaOf(Tail(s))
  BY <1>1 DEF CorporaOf
<1>3. ASSUME Apart(s) PROVE Apart(Tail(s)) /\ Head(s).corpus \notin CorporaOf(Tail(s))
  <2>1. ASSUME NEW i \in DOMAIN Tail(s), NEW j \in DOMAIN Tail(s),
               Tail(s)[i].corpus = Tail(s)[j].corpus
        PROVE  i = j
    <3>1. i + 1 \in DOMAIN s /\ j + 1 \in DOMAIN s /\ s[i + 1].corpus = s[j + 1].corpus
      BY <1>1, <2>1
    <3>2. i + 1 = j + 1
      BY <1>3, <3>1 DEF Apart
    <3> QED BY <1>1, <3>2
  <2>2. ASSUME NEW i \in DOMAIN Tail(s), Tail(s)[i].corpus = Head(s).corpus PROVE FALSE
    <3>1. i + 1 \in DOMAIN s /\ s[i + 1].corpus = s[1].corpus
      BY <1>1, <2>2
    <3>2. i + 1 = 1
      BY <1>1, <1>3, <3>1 DEF Apart
    <3> QED BY <1>1, <3>2
  <2> QED BY <2>1, <2>2 DEF Apart, CorporaOf
<1> QED BY <1>2, <1>3

LEMMA CorporaOfJoin ==
    ASSUME NEW S, NEW s \in Seq(S), NEW t \in Seq(S)
    PROVE  /\ CorporaOf(s \o t) = CorporaOf(s) \cup CorporaOf(t)
           /\ Apart(s) /\ Apart(t) /\ CorporaOf(s) \cap CorporaOf(t) = {} => Apart(s \o t)
<1>1. /\ \A i \in DOMAIN s : i \in DOMAIN (s \o t) /\ (s \o t)[i] = s[i]
      /\ \A i \in DOMAIN t : Len(s) + i \in DOMAIN (s \o t) /\ (s \o t)[Len(s) + i] = t[i]
      /\ \A i \in DOMAIN (s \o t) : \/ i \in DOMAIN s /\ (s \o t)[i] = s[i]
                                    \/ i - Len(s) \in DOMAIN t /\ (s \o t)[i] = t[i - Len(s)]
      /\ \A i \in DOMAIN (s \o t) : i \in Int
      /\ Len(s) \in Int
  BY JoinOf
<1>2. CorporaOf(s \o t) = CorporaOf(s) \cup CorporaOf(t)
  <2> DEFINE u == s \o t
  <2>1. \A x \in CorporaOf(u) : x \in CorporaOf(s) \cup CorporaOf(t)
    BY <1>1 DEF CorporaOf
  <2>2. \A x \in CorporaOf(s) : x \in CorporaOf(u)
    BY <1>1 DEF CorporaOf
  <2>3. \A x \in CorporaOf(t) : x \in CorporaOf(u)
    <3> TAKE x \in CorporaOf(t)
    <3>1. PICK i \in DOMAIN t : x = t[i].corpus
      BY DEF CorporaOf
    <3>2. Len(s) + i \in DOMAIN u /\ u[Len(s) + i] = t[i]
      BY <1>1
    <3> HIDE DEF u
    <3> QED BY <3>1, <3>2 DEF CorporaOf
  <2> HIDE DEF u
  <2>4. CorporaOf(u) = CorporaOf(s) \cup CorporaOf(t)
    BY <2>1, <2>2, <2>3
  <2> QED BY <2>4 DEF u
<1>3. ASSUME Apart(s), Apart(t), CorporaOf(s) \cap CorporaOf(t) = {},
             NEW i \in DOMAIN (s \o t), NEW j \in DOMAIN (s \o t),
             (s \o t)[i].corpus = (s \o t)[j].corpus
      PROVE  i = j
  <2> DEFINE u == s \o t
  <2>1. i \in Int /\ j \in Int /\ Len(s) \in Int
    BY <1>1
  <2>2. \A k \in DOMAIN s, m \in DOMAIN t : s[k].corpus # t[m].corpus
    BY <1>3 DEF CorporaOf
  <2>3. CASE i \in DOMAIN s /\ u[i] = s[i] /\ j \in DOMAIN s /\ u[j] = s[j]
    BY <1>3, <2>3 DEF Apart
  <2>4. CASE i - Len(s) \in DOMAIN t /\ u[i] = t[i - Len(s)] /\ j - Len(s) \in DOMAIN t /\ u[j] = t[j - Len(s)]
    <3>1. i - Len(s) = j - Len(s)
      BY <1>3, <2>4 DEF Apart
    <3> QED BY <2>1, <3>1
  <2>5. CASE i \in DOMAIN s /\ u[i] = s[i] /\ j - Len(s) \in DOMAIN t /\ u[j] = t[j - Len(s)]
    BY <1>3, <2>2, <2>5
  <2>6. CASE i - Len(s) \in DOMAIN t /\ u[i] = t[i - Len(s)] /\ j \in DOMAIN s /\ u[j] = s[j]
    BY <1>3, <2>2, <2>6
  <2> QED BY <1>1, <2>3, <2>4, <2>5, <2>6
<1> QED BY <1>2, <1>3 DEF Apart

LEMMA CorporaOfAppend ==
    ASSUME NEW S, NEW s \in Seq(S), NEW x \in S
    PROVE  CorporaOf(Append(s, x)) = CorporaOf(s) \cup {x.corpus}
BY AppendOf DEF CorporaOf

\* The legs of the combined corpora: each of them once.
LEMMA VaultLegs ==
    ASSUME RequestTyped, NEW order \in Orders
    PROVE  LET mine == IF hasOwn THEN <<Leg("own", "c", TRUE)>> ELSE <<>>
               others == [i \in 1 .. Cardinality(Others) |-> Leg(order[i], "c", TRUE)]
               legs == mine \o others \o <<SharedLeg(TRUE)>>
           IN  /\ legs \in Seq(SearchLeg) /\ Apart(legs) /\ CorporaOf(legs) = Wanted
               /\ \A i \in DOMAIN legs : legs[i].src = "c"
<1> DEFINE n == Cardinality(Others)
           mine == IF hasOwn THEN <<Leg("own", "c", TRUE)>> ELSE <<>>
           others == [i \in 1 .. n |-> Leg(order[i], "c", TRUE)]
           last == <<SharedLeg(TRUE)>>
           Shared(s) == \A i \in DOMAIN s : s[i].src = "c"
<1>1. n \in Nat
  BY SearchAssumption, FS_CardinalityType
<1>2. /\ order \in [1 .. n -> Others] /\ \A x \in Others : \E i \in 1 .. n : order[i] = x
      /\ \A i, j \in 1 .. n : order[i] = order[j] => i = j
  BY DEF Orders, Bijection, Injection, Surjection, IsInjective
<1>3. engines \in 0 .. 2 /\ hasOwn \in BOOLEAN
  BY DEF RequestTyped
<1>4. /\ mine \in Seq(SearchLeg) /\ Apart(mine) /\ Shared(mine)
      /\ CorporaOf(mine) = IF hasOwn THEN {"own"} ELSE {}
  <2> DEFINE leg == Leg("own", "c", TRUE)
  <2>1. leg \in SearchLeg /\ leg.src = "c" /\ leg.corpus = "own"
    BY <1>3, VaultNames DEF Leg, SearchLeg
  <2> HIDE DEF leg
  <2>2. DOMAIN <<leg>> = {1} /\ <<leg>>[1] = leg /\ <<leg>> \in Seq(SearchLeg)
    BY <2>1
  <2>3. DOMAIN <<>> = {} /\ <<>> \in Seq(SearchLeg)
    OBVIOUS
  <2>4. CASE hasOwn
    <3>1. mine = <<leg>>
      BY <2>4 DEF leg
    <3> HIDE DEF mine
    <3>2. CorporaOf(mine) = {"own"}
      BY <2>1, <2>2, <3>1 DEF CorporaOf
    <3>3. Apart(mine) /\ Shared(mine)
      BY <2>1, <2>2, <3>1 DEF Apart
    <3> QED BY <2>2, <2>4, <3>1, <3>2, <3>3
  <2>5. CASE ~hasOwn
    <3>1. mine = <<>>
      BY <2>5
    <3> QED BY <2>3, <2>5, <3>1 DEF Apart, CorporaOf
  <2> QED BY <2>4, <2>5
<1>5. /\ last \in Seq(SearchLeg) /\ Apart(last) /\ Shared(last) /\ CorporaOf(last) = {"shared"}
  <2> DEFINE leg == SharedLeg(TRUE)
  <2>1. leg \in SearchLeg /\ leg.src = "c" /\ leg.corpus = "shared"
    BY VaultNames DEF SharedLeg, SearchLeg
  <2> HIDE DEF leg
  <2>2. DOMAIN <<leg>> = {1} /\ <<leg>>[1] = leg /\ <<leg>> \in Seq(SearchLeg)
    BY <2>1
  <2>3. last = <<leg>>
    BY DEF leg
  <2> HIDE DEF last
  <2> QED BY <2>1, <2>2, <2>3 DEF Apart, CorporaOf
<1>6. /\ others \in Seq(SearchLeg) /\ Apart(others) /\ Shared(others) /\ CorporaOf(others) = Others
  <2>1. \A i \in 1 .. n : Leg(order[i], "c", TRUE) \in SearchLeg
                          /\ Leg(order[i], "c", TRUE).corpus = order[i]
                          /\ Leg(order[i], "c", TRUE).src = "c"
    <3> TAKE i \in 1 .. n
    <3>1. order[i] \in Corpora
      BY <1>2, VaultNames
    <3> QED BY <1>3, <3>1 DEF Leg, SearchLeg
  <2> HIDE DEF n
  <2>2. others \in [1 .. n -> SearchLeg] /\ DOMAIN others = 1 .. n
    BY <2>1
  <2>3. \A i \in 1 .. n : others[i].corpus = order[i] /\ others[i].src = "c"
    BY <2>1
  <2> HIDE DEF others
  <2>4. others \in Seq(SearchLeg)
    BY <1>1, <2>2
  <2> QED BY <1>2, <2>2, <2>3, <2>4 DEF Apart, CorporaOf
<1> HIDE DEF n, mine, others, last
<1> DEFINE both == mine \o others
<1>7. both \in Seq(SearchLeg) /\ Apart(both) /\ CorporaOf(both) = CorporaOf(mine) \cup Others /\ Shared(both)
  <2>1. CorporaOf(mine) \cap CorporaOf(others) = {}
    BY <1>4, <1>6, VaultNames
  <2>2. both \in Seq(SearchLeg)
    BY <1>4, <1>6
  <2>3. Apart(both) /\ CorporaOf(both) = CorporaOf(mine) \cup CorporaOf(others)
    BY <1>4, <1>6, <2>1, CorporaOfJoin
  <2>4. Shared(both)
    <3>1. \A i \in DOMAIN both : \/ i \in DOMAIN mine /\ both[i] = mine[i]
                                 \/ i - Len(mine) \in DOMAIN others /\ both[i] = others[i - Len(mine)]
      BY <1>4, <1>6, JoinOf
    <3> QED BY <1>4, <1>6, <3>1
  <2> QED BY <1>6, <2>2, <2>3, <2>4
<1> HIDE DEF both
<1> DEFINE legs == both \o last
<1>8. legs \in Seq(SearchLeg) /\ Apart(legs) /\ CorporaOf(legs) = Wanted /\ Shared(legs)
  <2>1. CorporaOf(both) \cap CorporaOf(last) = {}
    BY <1>4, <1>5, <1>7, VaultNames
  <2>2. legs \in Seq(SearchLeg)
    BY <1>5, <1>7
  <2>3. Apart(legs) /\ CorporaOf(legs) = CorporaOf(both) \cup CorporaOf(last)
    BY <1>5, <1>7, <2>1, CorporaOfJoin
  <2>4. Shared(legs)
    <3>1. \A i \in DOMAIN legs : \/ i \in DOMAIN both /\ legs[i] = both[i]
                                 \/ i - Len(both) \in DOMAIN last /\ legs[i] = last[i - Len(both)]
      BY <1>5, <1>7, JoinOf
    <3> QED BY <1>5, <1>7, <3>1
  <2> QED BY <1>4, <1>5, <1>7, <2>2, <2>3, <2>4 DEF Wanted
<1> QED BY <1>8 DEF legs, both, mine, others, last, n

-----------------------------------------------------------------------------
(* The invariant stands *)

\* The other steps: none of them has to do with a leg's rows before the merge.
Stays == UNCHANGED <<scope, hasOwn, todo, snapshot, own, rest, lateLeg, ran, healthy>>
Later ==
    \/ BumpRow \/ EndCounting \/ RecordRow \/ CalibrateRow \/ EndScoring \/ LookUpLearnings
    \/ TimePasses \/ Hangup \/ OthersRecord

LEMMA LaterStays ==
    ASSUME Later
    PROVE  /\ Stays /\ results' = results
           /\ at \in Before => at' = at
           /\ at \in After => at' \in After \cup {"failed"}
           /\ at \in Before \cup After
BY Zenon DEF Later, Stays, Request, Rows, Counts, Before, After, BumpRow, EndCounting, RecordRow, CalibrateRow,
      EndScoring, LookUpLearnings, TimePasses, Hangup, OthersRecord

\* Every step is a leg's, of the request's course, or one of the later stages.
LEMMA StepKinds ==
    ASSUME SearchNext
    PROVE  \/ RunLeg \/ ReuseSnapshot
           \/ LegFails \/ ResolveVaults \/ ResolveExpires \/ Merge \/ Later
BY DEF SearchNext, Later

\* A row that is merged is a row of a leg.
LEMMA MergedRows ==
    ASSUME LegsTyped, RequestTyped, PersonalFirst, CorporaApart, at \in {"asking", "combining"}
    PROVE  /\ Merged \subseteq SearchRow
           /\ \A row, other \in Merged : row.corpus = other.corpus => row = other
           /\ IsFiniteSet(Merged) /\ Cardinality(Merged) <= Limit
           /\ SomeFit(own) \/ SomeFit(rest) => Merged # {} /\ \A row \in Merged : ~row.late
<1>1. own \in Seq(SearchRow) /\ rest \in Seq(SearchRow)
  BY DEF LegsTyped
<1>2. Apart(rest)
  <2>1. CASE at = "asking"
    BY <2>1 DEF PersonalFirst, Apart
  <2>2. CASE at = "combining"
    BY <2>2 DEF CorporaApart
  <2> QED BY <2>1, <2>2
<1>3. /\ Merged \subseteq RowsMerge(own, rest)
      /\ \A row, other \in Merged : row.corpus = other.corpus => row = other
      /\ IsFiniteSet(Merged) /\ Cardinality(Merged) <= Limit
      /\ SomeFit(own) \/ SomeFit(rest) => Merged # {} /\ \A row \in Merged : ~row.late
  BY <1>1, <1>2, MergedOK DEF PersonalFirst, RequestTyped
<1>4. RowsMerge(own, rest) \subseteq SearchRow
  BY <1>1 DEF RowsMerge
<1> QED BY <1>3, <1>4

LEMMA MergeStep ==
    ASSUME Merge
    PROVE  /\ at \in {"asking", "combining"} /\ todo = <<>>
           /\ UNCHANGED <<scope, hasOwn, left, todo, lateLeg, bumped, scored, confidence, window,
                          learnings, ran, healthy>>
           /\ \/ /\ at = "asking" /\ scope = "both" /\ at' = "resolving"
                 /\ UNCHANGED <<results, reports, own, rest, snapshot, engines>>
              \/ /\ ~(at = "asking" /\ scope = "both")
                 /\ at' = "counting" /\ own' = <<>> /\ rest' = <<>> /\ snapshot' = <<>> /\ engines' = 1
                 /\ results' \subseteq Merged /\ (Merged # {} => results' # {})
                 /\ reports' = reports \/ reports' = Append(reports, Report("request", "packing", "interrupted"))
<1>1. CASE at = "asking" /\ scope = "both"
  BY <1>1 DEF Merge, Request, Rows, Counts
<1>2. CASE ~(at = "asking" /\ scope = "both")
  <2>1. /\ UNCHANGED <<Request, left, todo, lateLeg, Counts, ran, healthy>>
        /\ at' = "counting" /\ own' = <<>> /\ rest' = <<>> /\ snapshot' = <<>> /\ engines' = 1
        /\ at \in {"asking", "combining"} /\ todo = <<>>
    BY <1>2 DEF Merge
  <2>2. /\ results' \subseteq Merged /\ (Merged # {} => results' # {})
        /\ reports' = reports \/ reports' = Append(reports, Report("request", "packing", "interrupted"))
    BY <1>2 DEF Merge
  <2> QED BY <1>2, <2>1, <2>2 DEF Request, Counts
<1> QED BY <1>1, <1>2

LEMMA SkippedIsKnown ==
    ASSUME NEW stage \in Stages \cup {None}
    PROVE  LET r == Report("request", stage, "interrupted")
           IN  r \in SearchReport /\ r.src = "request" /\ r.verdict = "interrupted"
BY DEF Report, SearchReport, Verdicts

\* One lemma for each part of the invariant.
LEMMA RequestTypedStands ==
    ASSUME SearchInv, SearchNext
    PROVE  RequestTyped'
<1> USE DEF SearchInv
<1>1. CASE RunLeg \/ ReuseSnapshot
  <2>1. PICK l \in SearchLeg, got \in Seq(SearchRow), r \in LegReport : LegAnswers(l, got, r)
    BY <1>1, LegStep
  <2> QED BY <2>1 DEF LegAnswers, RequestTyped, Request
<1>2. CASE LegFails
  <2>1. UNCHANGED <<scope, hasOwn, left, engines, lateLeg, healthy>> /\ at' \in {at, "failed"}
    BY <1>2 DEF LegFails, Request, Rows
  <2> QED BY <2>1 DEF RequestTyped
<1>3. CASE ResolveVaults \/ ResolveExpires
  <2>1. UNCHANGED <<scope, hasOwn, left, engines, lateLeg, healthy>> /\ at' \in {"combining", "failed", "answered"}
    BY <1>3 DEF ResolveVaults, ResolveExpires, Request, Rows
  <2> QED BY <2>1 DEF RequestTyped, Before, After
<1>4. CASE Merge
  <2>1. UNCHANGED <<scope, hasOwn, left, lateLeg, healthy>> /\ at' \in {"resolving", "counting"}
        /\ engines' \in {1, engines}
    BY <1>4, MergeStep
  <2> QED BY <2>1 DEF RequestTyped, Before, After
<1>5. CASE Later
  <2>1. Stays /\ at' \in Before \cup After \cup {"failed"}
    BY <1>5, LaterStays
  <2>2. left' \in {left, left - 1} /\ (left' = left \/ left > 0) /\ engines' \in {engines, 2}
    BY <1>5 DEF Later, BumpRow, EndCounting, RecordRow, CalibrateRow, EndScoring, LookUpLearnings,
                TimePasses, Hangup, OthersRecord
  <2> QED BY <2>1, <2>2 DEF Stays, RequestTyped, Budgets
<1> QED BY <1>1, <1>2, <1>3, <1>4, <1>5, StepKinds

LEMMA LegsTypedStands ==
    ASSUME SearchInv, SearchNext
    PROVE  LegsTyped'
<1> USE DEF SearchInv
<1>0. todo \in Seq(SearchLeg) /\ own \in Seq(SearchRow) /\ rest \in Seq(SearchRow) /\ snapshot \in Seq(Taken)
  BY DEF LegsTyped
<1>1. CASE RunLeg \/ ReuseSnapshot
  <2>1. PICK l \in SearchLeg, got \in Seq(SearchRow), r \in LegReport : LegAnswers(l, got, r)
    BY <1>1, LegStep
  <2>2. todo' \in Seq(SearchLeg)
    BY <1>0, <2>1, TailOf DEF LegAnswers
  <2>3. own' \in Seq(SearchRow) /\ rest' \in Seq(SearchRow)
    <3>1. /\ own' = own \/ own' = own \o got
          /\ rest' = rest \/ rest' = rest \o got
      BY <2>1 DEF LegAnswers, Keep
    <3>2. own \o got \in Seq(SearchRow) /\ rest \o got \in Seq(SearchRow)
      BY <1>0
    <3> QED BY <1>0, <3>1, <3>2
  <2>4. snapshot' \in Seq(Taken)
    BY <1>0, <2>1 DEF LegAnswers
  <2> QED BY <2>2, <2>3, <2>4 DEF LegsTyped
<1>2. CASE LegFails
  <2>1. CASE \E l \in SearchLeg, r \in LegReport : LegFailed(l, r)
    <3>1. PICK l \in SearchLeg, r \in LegReport : LegFailed(l, r)
      BY <2>1
    <3>2. Tail(todo) \in Seq(SearchLeg)
      BY <1>0, <3>1, TailOf DEF LegFailed
    <3> DEFINE shared == SharedLeg(TRUE)
    <3>3. shared \in SearchLeg
      BY VaultNames DEF SharedLeg, SearchLeg
    <3>4. todo' = (IF l.src = "p" THEN <<shared>> ELSE <<>>) \o Tail(todo)
      BY <3>1 DEF LegFailed
    <3> HIDE DEF shared
    <3>5. <<shared>> \o Tail(todo) \in Seq(SearchLeg) /\ <<>> \o Tail(todo) \in Seq(SearchLeg)
      BY <3>2, <3>3
    <3>6. todo' \in Seq(SearchLeg)
      BY <3>4, <3>5
    <3> QED BY <1>0, <3>1, <3>6 DEF LegFailed, LegsTyped, Rows
  <2>2. CASE UNCHANGED <<todo, snapshot, Rows>>
    BY <1>0, <2>2 DEF LegsTyped, Rows
  <2> QED BY <1>2, <2>1, <2>2, FailStep
<1>3. CASE ResolveVaults
  <2>1. todo' = todo \/ \E order \in Orders :
           todo' = (IF hasOwn THEN <<Leg("own", "c", TRUE)>> ELSE <<>>)
                   \o [i \in 1 .. Cardinality(Others) |-> Leg(order[i], "c", TRUE)]
                   \o <<SharedLeg(TRUE)>>
    BY <1>3 DEF ResolveVaults
  <2>2. todo' \in Seq(SearchLeg)
    BY <1>0, <2>1, VaultLegs
  <2> QED BY <1>0, <1>3, <2>2 DEF ResolveVaults, LegsTyped, Rows
<1>4. CASE ResolveExpires
  BY <1>0, <1>4 DEF ResolveExpires, LegsTyped, Rows
<1>5. CASE Merge
  <2>1. todo' = todo /\ own' \in {own, <<>>} /\ rest' \in {rest, <<>>} /\ snapshot' \in {snapshot, <<>>}
    BY <1>5, MergeStep
  <2>2. <<>> \in Seq(SearchRow) /\ <<>> \in Seq(Taken)
    OBVIOUS
  <2> QED BY <1>0, <2>1, <2>2 DEF LegsTyped
<1>6. CASE Later
  BY <1>0, <1>6, LaterStays DEF Stays, LegsTyped
<1> QED BY <1>1, <1>2, <1>3, <1>4, <1>5, <1>6, StepKinds

\* The reports only grow, by what a leg says of itself or the request of its own.
Says(r) == reports' = Append(reports, r) /\ ran' = ran /\ r \in SearchReport /\ r.src = "request"
           /\ r.verdict = "interrupted"
Silent == reports' = reports /\ ran' = ran

LEMMA ReportsGrow ==
    ASSUME SearchInv, SearchNext
    PROVE  \/ \E l \in SearchLeg, r \in LegReport : Told(l, r) /\ todo # <<>> /\ l = Head(todo)
           \/ \E r \in SearchReport : Says(r)
           \/ Silent
<1> USE DEF SearchInv
<1>1. CASE RunLeg \/ ReuseSnapshot
  <2>1. PICK l \in SearchLeg, got \in Seq(SearchRow), r \in LegReport : LegAnswers(l, got, r)
    BY <1>1, LegStep
  <2> QED BY <2>1 DEF LegAnswers
<1>2. CASE LegFails
  <2>1. CASE \E l \in SearchLeg, r \in LegReport : LegFailed(l, r)
    BY <2>1 DEF LegFailed
  <2>2. CASE UNCHANGED <<reports, ran>>
    BY <2>2 DEF Silent
  <2> QED BY <1>2, <2>1, <2>2, FailStep
<1>3. CASE ResolveVaults
  BY <1>3 DEF ResolveVaults, Silent
<1> DEFINE said(stage) == Report("request", stage, "interrupted")
<1>4. \A stage \in Stages \cup {None} : reports' = Append(reports, said(stage)) /\ ran' = ran
                                        => Says(said(stage)) /\ said(stage) \in SearchReport
  BY SkippedIsKnown DEF Says
<1>5. CASE ResolveExpires
  <2>1. reports' = Append(reports, said(None)) /\ ran' = ran
    BY <1>5 DEF ResolveExpires
  <2> HIDE DEF said
  <2> QED BY <1>4, <2>1
<1>6. CASE Merge
  <2>1. (reports' = reports \/ reports' = Append(reports, said("packing"))) /\ ran' = ran
    BY <1>6, MergeStep
  <2>2. "packing" \in Stages
    BY DEF Stages
  <2> HIDE DEF said
  <2> QED BY <1>4, <2>1, <2>2 DEF Silent
<1>7. CASE Later
  <2>1. ran' = ran
    BY <1>7, LaterStays DEF Stays
  <2>2. reports' = reports \/ \E stage \in Stages : reports' = Append(reports, said(stage))
    BY <1>7 DEF Later, BumpRow, EndCounting, RecordRow, CalibrateRow, EndScoring, LookUpLearnings,
                TimePasses, Hangup, OthersRecord, Skipped, Stages
  <2> HIDE DEF said
  <2> QED BY <1>4, <2>1, <2>2 DEF Silent
<1> QED BY <1>1, <1>2, <1>3, <1>5, <1>6, <1>7, StepKinds

LEMMA ReportsStand ==
    ASSUME SearchInv, SearchNext
    PROVE  ReportsTyped' /\ ReportsAgree(reports', ran')
<1>0. reports \in Seq(SearchReport) /\ ran \in Seq(LegRun) /\ ReportsAgree(reports, ran)
  BY DEF SearchInv, ReportsTyped
<1>1. ASSUME NEW l \in SearchLeg, NEW r \in LegReport, Told(l, r)
      PROVE  ReportsTyped' /\ ReportsAgree(reports', ran')
  <2>1. l.corpus \in Corpora
    BY DEF SearchLeg
  <2>2. r \in SearchReport /\ [corpus |-> l.corpus, report |-> r] \in LegRun
    BY <2>1 DEF LegReport, LegRun
  <2>3. /\ reports' = IF l.corpus = "shared" /\ r \in Spoken(ran) THEN reports ELSE Append(reports, r)
        /\ ran' = Append(ran, [corpus |-> l.corpus, report |-> r])
    BY <1>1 DEF Told, SharedReports, Spoken
  <2>4. ReportsAgree(reports', ran')
    BY <1>0, <2>1, <2>3, ToldAgrees
  <2>5. Append(reports, r) \in Seq(SearchReport) /\ Append(ran, [corpus |-> l.corpus, report |-> r]) \in Seq(LegRun)
    BY <1>0, <2>2, AppendOf
  <2> QED BY <1>0, <2>3, <2>4, <2>5 DEF ReportsTyped
<1>2. ASSUME NEW r \in SearchReport, Says(r)
      PROVE  ReportsTyped' /\ ReportsAgree(reports', ran')
  <2>1. ReportsAgree(reports', ran')
    BY <1>0, <1>2, OtherReportsAgree DEF Says
  <2>2. Append(reports, r) \in Seq(SearchReport)
    BY <1>0, AppendOf
  <2> QED BY <1>0, <1>2, <2>1, <2>2 DEF Says, ReportsTyped
<1>3. ASSUME Silent
      PROVE  ReportsTyped' /\ ReportsAgree(reports', ran')
  BY <1>0, <1>3 DEF Silent, ReportsTyped
<1> QED BY <1>1, <1>2, <1>3, ReportsGrow

LEMMA PersonalFirstStands ==
    ASSUME SearchInv, SearchNext
    PROVE  PersonalFirst'
<1> USE DEF SearchInv
<1>0. /\ todo \in Seq(SearchLeg) /\ own \in Seq(SearchRow) /\ rest \in Seq(SearchRow)
      /\ snapshot \in Seq(Taken)
  BY DEF LegsTyped
<1>1. CASE RunLeg \/ ReuseSnapshot
  <2>1. PICK l \in SearchLeg, got \in Seq(SearchRow), r \in LegReport : LegAnswers(l, got, r)
    BY <1>1, LegStep
  <2>2. /\ at \in {"asking", "combining"} /\ todo # <<>> /\ l = Head(todo) /\ todo' = Tail(todo)
        /\ Len(got) <= 1 /\ Keep(got) /\ at' = at /\ scope' = scope
    BY <2>1 DEF LegAnswers, Request
  <2>3. /\ todo' \in Seq(SearchLeg) /\ Len(todo') = Len(todo) - 1
        /\ \A i \in DOMAIN todo' : i + 1 \in DOMAIN todo /\ todo'[i] = todo[i + 1]
    BY <1>0, <2>2, TailOf
  <2>4. \A i \in DOMAIN todo' : todo'[i].src = "p" => todo'[i].corpus = "own"
    BY <2>3 DEF PersonalFirst
  <2>5. CASE at = "asking"
    <3>1. own = <<>> /\ Len(todo) <= 1 /\ rest = <<>> /\ scope # "combined"
      BY <2>2, <2>5 DEF PersonalFirst
    <3>2. own' = own \o got /\ rest' = rest
      BY <2>2, <2>5 DEF Keep
    <3>3. own' = got
      BY <3>1, <3>2
    <3>4. Len(todo') = 0 /\ todo' = <<>>
      BY <1>0, <2>2, <2>3, <3>1
    <3> QED BY <2>2, <2>4, <2>5, <3>1, <3>2, <3>3, <3>4 DEF PersonalFirst
  <2>6. CASE at = "combining"
    <3>1. own' = own /\ scope # "personal"
      BY <2>2, <2>6 DEF Keep, PersonalFirst
    <3> QED BY <2>2, <2>4, <2>6, <3>1 DEF PersonalFirst
  <2> QED BY <2>2, <2>5, <2>6
<1>2. CASE LegFails
  <2>1. CASE \E l \in SearchLeg, r \in LegReport : LegFailed(l, r)
    <3>1. PICK l \in SearchLeg, r \in LegReport : LegFailed(l, r)
      BY <2>1
    <3> DEFINE shared == SharedLeg(TRUE)
    <3>2. /\ at \in {"asking", "combining"} /\ todo # <<>> /\ l = Head(todo)
          /\ todo' = (IF l.src = "p" THEN <<shared>> ELSE <<>>) \o Tail(todo)
          /\ UNCHANGED <<at, scope, own, rest, snapshot>>
      BY <3>1 DEF LegFailed, Request, Rows
    <3>3. /\ Tail(todo) \in Seq(SearchLeg) /\ Len(Tail(todo)) = Len(todo) - 1
          /\ \A i \in DOMAIN Tail(todo) : i + 1 \in DOMAIN todo /\ Tail(todo)[i] = todo[i + 1]
          /\ Head(todo) = todo[1] /\ 1 \in DOMAIN todo
      BY <1>0, <3>2, TailOf
    <3>4. shared.src = "c" /\ shared \in SearchLeg
      BY VaultNames DEF SharedLeg, SearchLeg
    <3> HIDE DEF shared
    <3> DEFINE first == IF l.src = "p" THEN <<shared>> ELSE <<>>
    <3>5. first \in Seq(SearchLeg) /\ Len(first) <= 1 /\ \A i \in DOMAIN first : first[i].src = "c"
      BY <3>4
    <3>6. todo' = first \o Tail(todo)
      BY <3>2
    <3> HIDE DEF first
    <3>7. \A i \in DOMAIN todo' : \/ i \in DOMAIN first /\ todo'[i] = first[i]
                                  \/ /\ i - Len(first) \in DOMAIN Tail(todo)
                                     /\ todo'[i] = Tail(todo)[i - Len(first)]
      BY <3>3, <3>5, <3>6, JoinOf
    <3>8. \A i \in DOMAIN todo' : todo'[i].src = "p" => todo'[i].corpus = "own"
      <4>1. \A i \in DOMAIN Tail(todo) : Tail(todo)[i].src = "p" => Tail(todo)[i].corpus = "own"
        BY <3>3 DEF PersonalFirst
      <4> QED BY <3>5, <3>7, <4>1
    <3>9. at = "asking" => Len(todo') <= 1
      <4>1. at = "asking" => Len(Tail(todo)) = 0
        BY <1>0, <3>2, <3>3 DEF PersonalFirst
      <4>2. Len(todo') = Len(first) + Len(Tail(todo))
        BY <3>3, <3>5, <3>6
      <4>3. Len(first) \in Nat /\ Len(first) <= 1
        BY <3>5
      <4>4. at = "asking" => Len(todo') = Len(first) + 0
        BY <4>1, <4>2
      <4> QED BY <4>3, <4>4
    <3> QED BY <3>2, <3>8, <3>9 DEF PersonalFirst
  <2>2. CASE at' = "failed" /\ UNCHANGED <<Request, todo, Rows>>
    BY <2>2 DEF PersonalFirst, Request, Rows
  <2> QED BY <1>2, <2>1, <2>2, FailStep
<1>3. CASE ResolveVaults
  <2>1. /\ at = "resolving" /\ UNCHANGED <<scope, own, rest>>
        /\ \/ at' = "failed" /\ todo' = todo
           \/ at' = "combining" /\ \E order \in Orders :
                todo' = (IF hasOwn THEN <<Leg("own", "c", TRUE)>> ELSE <<>>)
                        \o [i \in 1 .. Cardinality(Others) |-> Leg(order[i], "c", TRUE)]
                        \o <<SharedLeg(TRUE)>>
    BY <1>3 DEF ResolveVaults, Request, Rows
  <2>2. CASE at' = "failed" /\ todo' = todo
    BY <2>1, <2>2 DEF PersonalFirst
  <2>3. CASE at' = "combining" /\ \E order \in Orders :
                todo' = (IF hasOwn THEN <<Leg("own", "c", TRUE)>> ELSE <<>>)
                        \o [i \in 1 .. Cardinality(Others) |-> Leg(order[i], "c", TRUE)]
                        \o <<SharedLeg(TRUE)>>
    <3>1. \A i \in DOMAIN todo' : todo'[i].src = "c"
      BY <2>3, VaultLegs
    <3> QED BY <2>1, <2>3, <3>1 DEF PersonalFirst
  <2> QED BY <2>1, <2>2, <2>3
<1>4. CASE ResolveExpires
  <2>1. at' = "answered" /\ UNCHANGED <<scope, todo, own, rest>>
    BY <1>4 DEF ResolveExpires, Request, Rows
  <2> QED BY <2>1 DEF PersonalFirst
<1>5. CASE Merge
  <2>1. CASE at = "asking" /\ scope = "both"
    <3>1. /\ todo = <<>> /\ at' = "resolving" /\ UNCHANGED <<scope, todo, own, rest>>
      BY <1>5, <2>1, MergeStep
    <3> QED BY <2>1, <3>1 DEF PersonalFirst
  <2>2. CASE ~(at = "asking" /\ scope = "both")
    <3>1. todo = <<>> /\ at' = "counting" /\ UNCHANGED <<scope, todo>> /\ own' = <<>> /\ rest' = <<>>
      BY <1>5, <2>2, MergeStep
    <3> QED BY <3>1 DEF PersonalFirst
  <2> QED BY <2>1, <2>2
<1>6. CASE Later
  <2>1. Stays /\ (at \in Before => at' = at) /\ at \in Before \cup After
        /\ (at \in After => at' \in After \cup {"failed"})
    BY <1>6, LaterStays
  <2>2. at' \in Before => at' = at
    BY <2>1 DEF Before, After
  <2> QED BY <2>1, <2>2 DEF Stays, PersonalFirst, Before
<1> QED BY <1>1, <1>2, <1>3, <1>4, <1>5, <1>6, StepKinds

LEMMA CorporaApartStands ==
    ASSUME SearchInv, SearchNext
    PROVE  CorporaApart'
<1> USE DEF SearchInv
<1>0. todo \in Seq(SearchLeg) /\ rest \in Seq(SearchRow)
  BY DEF LegsTyped
<1>1. CASE RunLeg \/ ReuseSnapshot
  <2>1. PICK l \in SearchLeg, got \in Seq(SearchRow), r \in LegReport : LegAnswers(l, got, r)
    BY <1>1, LegStep
  <2> SUFFICES ASSUME at' = "combining" PROVE CorporaApart'
    BY DEF CorporaApart
  <2>2. /\ at = "combining" /\ todo # <<>> /\ l = Head(todo) /\ todo' = Tail(todo)
        /\ Len(got) <= 1 /\ rest' = rest \o got /\ \A i \in DOMAIN got : got[i].corpus = l.corpus
    BY <2>1 DEF LegAnswers, Keep
  <2>3. /\ CorporaOf(todo) = {l.corpus} \cup CorporaOf(todo')
        /\ Apart(todo') /\ l.corpus \notin CorporaOf(todo')
    BY <1>0, <2>2, CorporaOfTail DEF CorporaApart
  <2>4. CorporaOf(got) \subseteq {l.corpus} /\ Apart(got)
    <3>1. \A i, j \in DOMAIN got : i = j
      BY <2>2
    <3> QED BY <2>2, <3>1 DEF CorporaOf, Apart
  <2>5. Apart(rest) /\ CorporaOf(rest) \cap CorporaOf(todo) = {}
    BY <2>2 DEF CorporaApart
  <2>6. CorporaOf(rest') = CorporaOf(rest) \cup CorporaOf(got) /\ Apart(rest')
    <3>1. CorporaOf(rest) \cap CorporaOf(got) = {}
      BY <2>3, <2>4, <2>5
    <3> QED BY <1>0, <2>2, <2>4, <2>5, <3>1, CorporaOfJoin
  <2>7. \A i \in DOMAIN todo' : todo'[i].src = "c"
    <3>1. \A i \in DOMAIN todo' : i + 1 \in DOMAIN todo /\ todo'[i] = todo[i + 1]
      BY <1>0, <2>2, TailOf
    <3> QED BY <2>2, <3>1 DEF CorporaApart
  <2>8. CorporaOf(rest') \cap CorporaOf(todo') = {}
    BY <2>3, <2>4, <2>5, <2>6
  <2> QED BY <2>3, <2>6, <2>7, <2>8 DEF CorporaApart
<1>2. CASE LegFails
  <2>1. CASE \E l \in SearchLeg, r \in LegReport : LegFailed(l, r)
    <3>1. PICK l \in SearchLeg, r \in LegReport : LegFailed(l, r)
      BY <2>1
    <3> SUFFICES ASSUME at' = "combining" PROVE CorporaApart'
      BY DEF CorporaApart
    <3>2. /\ at = "combining" /\ todo # <<>> /\ l = Head(todo) /\ rest' = rest
          /\ todo' = (IF l.src = "p" THEN <<SharedLeg(TRUE)>> ELSE <<>>) \o Tail(todo)
      BY <3>1 DEF LegFailed, Rows
    <3>3. /\ Tail(todo) \in Seq(SearchLeg) /\ Head(todo) = todo[1] /\ 1 \in DOMAIN todo
          /\ \A i \in DOMAIN Tail(todo) : i + 1 \in DOMAIN todo /\ Tail(todo)[i] = todo[i + 1]
      BY <1>0, <3>2, TailOf
    <3>4. l.src = "c"
      BY <3>2, <3>3 DEF CorporaApart
    <3>5. todo' = Tail(todo)
      <4>1. todo' = <<>> \o Tail(todo)
        BY <3>2, <3>4
      <4> QED BY <3>3, <4>1
    <3>6. CorporaOf(todo) = {l.corpus} \cup CorporaOf(todo') /\ Apart(todo')
      <4>1. at = "combining" /\ todo # <<>> /\ l = Head(todo)
        BY <3>2
      <4>2. CorporaOf(todo) = {l.corpus} \cup CorporaOf(Tail(todo)) /\ Apart(Tail(todo))
        BY <1>0, <4>1, CorporaOfTail DEF CorporaApart
      <4> QED BY <3>5, <4>2
    <3>7. Apart(rest) /\ CorporaOf(rest) \cap CorporaOf(todo') = {}
      BY <3>2, <3>6 DEF CorporaApart
    <3>8. \A i \in DOMAIN todo' : todo'[i].src = "c"
      BY <3>2, <3>3, <3>5 DEF CorporaApart
    <3> QED BY <3>2, <3>6, <3>7, <3>8 DEF CorporaApart
  <2>2. CASE at' = "failed"
    BY <2>2 DEF CorporaApart
  <2> QED BY <1>2, <2>1, <2>2, FailStep
<1>3. CASE ResolveVaults
  <2> SUFFICES ASSUME at' = "combining" PROVE CorporaApart'
    BY DEF CorporaApart
  <2>1. /\ at = "resolving" /\ rest' = rest
        /\ \E order \in Orders :
                todo' = (IF hasOwn THEN <<Leg("own", "c", TRUE)>> ELSE <<>>)
                        \o [i \in 1 .. Cardinality(Others) |-> Leg(order[i], "c", TRUE)]
                        \o <<SharedLeg(TRUE)>>
    BY <1>3 DEF ResolveVaults, Rows
  <2>2. Apart(todo') /\ \A i \in DOMAIN todo' : todo'[i].src = "c"
    BY <2>1, VaultLegs
  <2>3. rest' = <<>>
    BY <2>1 DEF PersonalFirst
  <2>4. Apart(rest') /\ CorporaOf(rest') = {}
    BY <2>3 DEF Apart, CorporaOf
  <2> QED BY <2>2, <2>4 DEF CorporaApart
<1>4. CASE ResolveExpires
  BY <1>4 DEF ResolveExpires, CorporaApart
<1>5. CASE Merge
  <2>1. at' # "combining"
    BY <1>5, MergeStep
  <2> QED BY <2>1 DEF CorporaApart
<1>6. CASE Later
  <2>1. Stays /\ (at \in Before => at' = at) /\ at \in Before \cup After
        /\ (at \in After => at' \in After \cup {"failed"})
    BY <1>6, LaterStays
  <2>2. at' = "combining" => at = "combining"
    BY <2>1 DEF Before, After
  <2> QED BY <2>1, <2>2 DEF Stays, CorporaApart
<1> QED BY <1>1, <1>2, <1>3, <1>4, <1>5, <1>6, StepKinds

LEMMA SnapshotStands ==
    ASSUME SearchInv, SearchNext
    PROVE  SnapshotIsOwn'
<1> USE DEF SearchInv
<1>1. CASE RunLeg \/ ReuseSnapshot
  <2>1. PICK l \in SearchLeg, got \in Seq(SearchRow), r \in LegReport : LegAnswers(l, got, r)
    BY <1>1, LegStep
  <2>2. /\ Len(got) <= 1 /\ \A i \in DOMAIN got : got[i].corpus = l.corpus
        /\ snapshot' = snapshot \/ (l.corpus = "own" /\ snapshot'[1].rows = got)
    BY <2>1 DEF LegAnswers
  <2> QED BY <2>2 DEF SnapshotIsOwn
<1>2. CASE ~(RunLeg \/ ReuseSnapshot)
  <2>1. snapshot' = snapshot \/ snapshot' = <<>>
    BY <1>2, StepKinds, MergeStep, LaterStays
       DEF LegFails, ResolveVaults, ResolveExpires, Stays
  <2> QED BY <2>1 DEF SnapshotIsOwn
<1> QED BY <1>1, <1>2

LEMMA HealthyStands ==
    ASSUME SearchInv, SearchNext
    PROVE  HealthyIsKept' /\ HealthyIsNotEvicted'
<1> USE DEF SearchInv
<1>0. own \in Seq(SearchRow) /\ rest \in Seq(SearchRow)
  BY DEF LegsTyped
<1>1. CASE RunLeg \/ ReuseSnapshot
  <2>1. PICK l \in SearchLeg, got \in Seq(SearchRow), r \in LegReport : LegAnswers(l, got, r)
    BY <1>1, LegStep
  <2>2. /\ at \in {"asking", "combining"} /\ at' = at /\ Keep(got)
        /\ healthy' => healthy \/ SomeFit(got)
    BY <2>1 DEF LegAnswers
  <2>3. ASSUME NEW some \in Seq(SearchRow), SomeFit(some) \/ SomeFit(got) PROVE SomeFit(some \o got)
    <3>1. /\ \A i \in DOMAIN some : i \in DOMAIN (some \o got) /\ (some \o got)[i] = some[i]
          /\ \A i \in DOMAIN got : Len(some) + i \in DOMAIN (some \o got)
                                    /\ (some \o got)[Len(some) + i] = got[i]
      BY JoinOf
    <3> DEFINE all == some \o got
    <3>2. CASE SomeFit(some)
      BY <3>1, <3>2 DEF SomeFit
    <3>3. CASE SomeFit(got)
      <4>1. PICK i \in DOMAIN got : ~got[i].late
        BY <3>3 DEF SomeFit
      <4>2. Len(some) + i \in DOMAIN all /\ all[Len(some) + i] = got[i]
        BY <3>1
      <4> HIDE DEF all
      <4>3. SomeFit(all)
        BY <4>1, <4>2 DEF SomeFit
      <4> QED BY <4>3 DEF all
    <3> QED BY <2>3, <3>2, <3>3
  <2>4. at \in Before
    BY <2>2 DEF Before
  <2>5. HealthyIsKept'
    <3> SUFFICES ASSUME healthy' PROVE SomeFit(own') \/ SomeFit(rest')
      BY DEF HealthyIsKept, SomeFit
    <3>1. SomeFit(own) \/ SomeFit(rest) \/ SomeFit(got)
      BY <2>2, <2>4 DEF HealthyIsKept
    <3>2. CASE at = "asking"
      <4>1. own' = own \o got /\ rest' = rest
        BY <2>2, <3>2 DEF Keep
      <4>2. SomeFit(own) \/ SomeFit(got) => SomeFit(own')
        BY <1>0, <2>3, <4>1
      <4> QED BY <3>1, <4>1, <4>2
    <3>3. CASE at # "asking"
      <4>1. rest' = rest \o got /\ own' = own
        BY <2>2, <3>3 DEF Keep
      <4>2. SomeFit(rest) \/ SomeFit(got) => SomeFit(rest')
        BY <1>0, <2>3, <4>1
      <4> QED BY <3>1, <4>1, <4>2
    <3> QED BY <3>2, <3>3
  <2>6. HealthyIsNotEvicted'
    BY <2>2 DEF HealthyIsNotEvicted
  <2> QED BY <2>5, <2>6
<1>2. CASE Merge
  <2>1. CASE at = "asking" /\ scope = "both"
    <3>1. at' = "resolving" /\ at \in Before /\ UNCHANGED <<own, rest, healthy>>
      BY <1>2, <2>1, MergeStep DEF Before
    <3> QED BY <3>1 DEF HealthyIsKept, HealthyIsNotEvicted, SomeFit
  <2>2. CASE ~(at = "asking" /\ scope = "both")
    <3>1. /\ at \in {"asking", "combining"} /\ at \in Before /\ at' = "counting" /\ healthy' = healthy
          /\ results' \subseteq Merged /\ (Merged # {} => results' # {})
      BY <1>2, <2>2, MergeStep DEF Before
    <3>2. healthy => Merged # {} /\ \A row \in Merged : ~row.late
      BY <3>1, MergedRows DEF HealthyIsKept
    <3>3. HealthyIsNotEvicted'
      BY <3>1, <3>2 DEF HealthyIsNotEvicted
    <3>4. HealthyIsKept'
      BY <3>1 DEF HealthyIsKept, Before
    <3> QED BY <3>3, <3>4
  <2> QED BY <2>1, <2>2
<1>3. CASE LegFails \/ ResolveVaults \/ ResolveExpires
  <2>1. /\ UNCHANGED <<own, rest, healthy>> /\ at \in Before
        /\ at' \notin {"counting", "scoring", "learning"}
    BY <1>3 DEF LegFails, ResolveVaults, ResolveExpires, Rows, Before
  <2> QED BY <2>1 DEF HealthyIsKept, HealthyIsNotEvicted, SomeFit
<1>4. CASE Later
  <2>1. /\ Stays /\ results' = results /\ (at \in Before => at' = at) /\ at \in Before \cup After
        /\ (at \in After => at' \in After \cup {"failed"})
    BY <1>4, LaterStays
  <2>2. at' \in Before => at \in Before
    BY <2>1 DEF Before, After
  <2>3. at' \in {"counting", "scoring", "learning"} => at \in {"counting", "scoring", "learning"}
    BY <1>4 DEF Later, BumpRow, EndCounting, RecordRow, CalibrateRow, EndScoring, LookUpLearnings,
                TimePasses, Hangup, OthersRecord
  <2> QED BY <2>1, <2>2, <2>3 DEF Stays, HealthyIsKept, HealthyIsNotEvicted, SomeFit
<1> QED BY <1>1, <1>2, <1>3, <1>4, StepKinds

\* Until the rows are merged nothing is counted.
LEMMA CountsWait ==
    ASSUME SearchNext, ~Later
    PROVE  /\ UNCHANGED <<bumped, scored, confidence, window, learnings>>
           /\ at \in Before
           /\ \/ results' = results /\ at' \in Before \cup {"failed"}
              \/ results' = results /\ at' = "answered" /\ left' = 0
              \/ Merge /\ at' = "counting"
<1>1. CASE RunLeg \/ ReuseSnapshot
  <2>1. at \in {"asking", "combining"} /\ UNCHANGED <<at, results, Counts>>
    BY <1>1 DEF RunLeg, ReuseSnapshot
  <2> QED BY <2>1 DEF Counts, Before
<1>2. CASE LegFails
  <2>1. at \in {"asking", "combining"} /\ UNCHANGED <<results, Counts>> /\ at' \in {at, "failed"}
    BY <1>2 DEF LegFails
  <2> QED BY <2>1 DEF Counts, Before
<1>3. CASE ResolveVaults
  <2>1. at = "resolving" /\ UNCHANGED <<results, Counts>> /\ at' \in {"combining", "failed"}
    BY <1>3 DEF ResolveVaults
  <2> QED BY <2>1 DEF Counts, Before
<1>4. CASE ResolveExpires
  <2>1. at = "resolving" /\ UNCHANGED <<left, results, Counts>> /\ at' = "answered" /\ left = 0
    BY <1>4 DEF ResolveExpires
  <2> QED BY <2>1 DEF Counts, Before
<1>5. CASE Merge
  <2>1. /\ at \in {"asking", "combining"} /\ UNCHANGED <<bumped, scored, confidence, window, learnings>>
        /\ at' = "counting" \/ (at' = "resolving" /\ results' = results)
    BY <1>5, MergeStep
  <2> QED BY <1>5, <2>1 DEF Before
<1> QED BY <1>1, <1>2, <1>3, <1>4, <1>5, StepKinds

LEMMA AnswerTypedStands ==
    ASSUME SearchInv, SearchNext
    PROVE  AnswerTyped'
<1> USE DEF SearchInv
<1>0. /\ results \subseteq SearchRow /\ IsFiniteSet(results) /\ Cardinality(results) <= Limit
      /\ bumped \in [Corpora -> Nat] /\ scored \subseteq Corpora
      /\ confidence \in [Corpora -> {"blend", "raw", "rank"}] /\ window \in 0 .. Threshold
  BY DEF AnswerTyped
<1>1. CASE Later
  <2>1. results' = results
    BY <1>1, LaterStays
  <2>2. bumped' \in [Corpora -> Nat]
    <3>1. bumped' = bumped \/ \E c \in Corpora : bumped' = [bumped EXCEPT ![c] = @ + 1]
      <4>1. ASSUME NEW row \in results PROVE row.corpus \in Corpora
        BY <1>0, RowFields
      <4> QED BY <1>1, <4>1 DEF Later, BumpRow, EndCounting, RecordRow, CalibrateRow, EndScoring,
                LookUpLearnings, TimePasses, Hangup, OthersRecord, Counts, Countable
    <3> QED BY <1>0, <3>1
  <2>3. scored' \subseteq Corpora
    <3>1. scored' = scored \/ \E c \in Corpora : scored' = scored \cup {c}
      <4>1. ASSUME NEW row \in results PROVE row.corpus \in Corpora
        BY <1>0, RowFields
      <4> QED BY <1>1, <4>1 DEF Later, BumpRow, EndCounting, RecordRow, CalibrateRow, EndScoring,
                LookUpLearnings, TimePasses, Hangup, OthersRecord, Counts, Scorable
    <3> QED BY <1>0, <3>1
  <2>4. confidence' \in [Corpora -> {"blend", "raw", "rank"}]
    <3>1. \/ confidence' = confidence \/ confidence' = [c \in Corpora |-> "blend"]
          \/ \E c \in Corpora, k \in {"raw", "rank"} : confidence' = [confidence EXCEPT ![c] = k]
      <4>1. ASSUME NEW row \in results PROVE row.corpus \in Corpora
        BY <1>0, RowFields
      <4> QED BY <1>1, <4>1 DEF Later, BumpRow, EndCounting, RecordRow, CalibrateRow, EndScoring,
                LookUpLearnings, TimePasses, Hangup, OthersRecord, Counts, Scorable
    <3> QED BY <1>0, <3>1
  <2>5. window' \in 0 .. Threshold
    <3>1. window' = window \/ (window < Threshold /\ window' = window + 1)
      BY <1>1 DEF Later, BumpRow, EndCounting, RecordRow, CalibrateRow, EndScoring,
                LookUpLearnings, TimePasses, Hangup, OthersRecord, Counts
    <3> QED BY <1>0, <3>1, SearchAssumption
  <2> QED BY <1>0, <2>1, <2>2, <2>3, <2>4, <2>5 DEF AnswerTyped
<1>2. CASE ~Later
  <2>1. UNCHANGED <<bumped, scored, confidence, window>> /\ (results' = results \/ (Merge /\ at' = "counting"))
    BY <1>2, CountsWait
  <2>2. ASSUME Merge, at' = "counting"
        PROVE  results' \subseteq SearchRow /\ IsFiniteSet(results') /\ Cardinality(results') <= Limit
    <3>1. at \in {"asking", "combining"} /\ results' \subseteq Merged
      BY <2>2, MergeStep
    <3>2. Merged \subseteq SearchRow /\ IsFiniteSet(Merged) /\ Cardinality(Merged) <= Limit
      BY <3>1, MergedRows
    <3>3. IsFiniteSet(results') /\ Cardinality(results') <= Cardinality(Merged)
      BY <3>1, <3>2, FS_Subset
    <3>4. Cardinality(results') \in Nat /\ Cardinality(Merged) \in Nat
      BY <3>2, <3>3, FS_CardinalityType
    <3> QED BY <3>1, <3>2, <3>3, <3>4, SearchAssumption
  <2> QED BY <1>0, <2>1, <2>2 DEF AnswerTyped
<1> QED BY <1>1, <1>2

LEMMA NothingYetStands ==
    ASSUME SearchInv, SearchNext
    PROVE  NothingYet'
<1>1. CASE ~Later
  <2>1. /\ UNCHANGED <<bumped, scored, learnings>> /\ at \in Before
        /\ at' \in Before => results' = results
    BY <1>1, CountsWait DEF Before
  <2> QED BY <2>1 DEF SearchInv, NothingYet
<1>2. CASE Later
  <2>1. results' = results /\ (at \in Before => at' = at) /\ at \in Before \cup After
        /\ (at \in After => at' \in After \cup {"failed"})
    BY <1>2, LaterStays
  <2>2. at' \in Before => at \in Before
    BY <2>1 DEF Before, After
  <2>3. at \in Before => UNCHANGED <<bumped, scored, learnings>>
    BY <1>2 DEF Before, Later, BumpRow, EndCounting, RecordRow, CalibrateRow, EndScoring, LookUpLearnings,
                TimePasses, Hangup, OthersRecord, Counts
  <2> QED BY <2>1, <2>2, <2>3 DEF SearchInv, NothingYet
<1> QED BY <1>1, <1>2

LEMMA CountsStand ==
    ASSUME SearchInv, SearchNext
    PROVE  CountsInAnswer'
<1> USE DEF SearchInv
<1>0. results \subseteq SearchRow /\ bumped \in [Corpora -> Nat]
  BY DEF AnswerTyped
<1>1. CASE ~Later
  <2>1. /\ UNCHANGED bumped /\ at \in Before
        /\ results' = results \/ (Merge /\ at' = "counting")
    BY <1>1, CountsWait
  <2>2. \A c \in Corpora : bumped[c] = 0
    BY <2>1 DEF NothingYet
  <2>3. \A row, other \in results' : row.corpus = other.corpus => row = other
    <3>1. CASE results' = results
      BY <3>1 DEF CountsInAnswer
    <3>2. CASE Merge /\ at' = "counting"
      <4>1. at \in {"asking", "combining"} /\ results' \subseteq Merged
        BY <3>2, MergeStep
      <4> QED BY <4>1, MergedRows
    <3> QED BY <2>1, <3>1, <3>2
  <2> QED BY <2>1, <2>2, <2>3 DEF CountsInAnswer
<1>2. CASE BumpRow
  <2>1. PICK row \in Countable : bumped' = [bumped EXCEPT ![row.corpus] = @ + 1]
    BY <1>2 DEF BumpRow
  <2>2. row \in results /\ ~row.late /\ bumped[row.corpus] = 0 /\ results' = results
    BY <1>2 DEF Countable, BumpRow
  <2>3. row.corpus \in Corpora
    BY <1>0, <2>2, RowFields
  <2>4. bumped'[row.corpus] = 1 /\ \A c \in Corpora \ {row.corpus} : bumped'[c] = bumped[c]
    BY <1>0, <2>1, <2>2, <2>3
  <2> QED BY <2>2, <2>3, <2>4 DEF CountsInAnswer
<1>3. CASE Later /\ ~BumpRow
  <2>1. bumped' = bumped
    BY <1>3 DEF Later, EndCounting, RecordRow, CalibrateRow, EndScoring, LookUpLearnings,
                TimePasses, Hangup, OthersRecord, Counts
  <2>2. results' = results
    BY <1>3, LaterStays
  <2> QED BY <2>1, <2>2 DEF CountsInAnswer
<1> QED BY <1>1, <1>2, <1>3

LEMMA CountingStands ==
    ASSUME SearchInv, SearchNext
    PROVE  CountingEnds'
<1> USE DEF SearchInv
<1>0. results \subseteq SearchRow /\ bumped \in [Corpora -> Nat] /\ left \in 0 .. 3
  BY DEF AnswerTyped, RequestTyped, Budgets
<1>1. CASE ~Later
  <2>1. at' \notin {"scoring", "learning"} /\ (at' = "answered" => left' = 0)
    BY <1>1, CountsWait DEF Before
  <2> QED BY <2>1 DEF CountingEnds
<1>2. CASE EndCounting
  <2>1. /\ results' = results /\ bumped' = bumped /\ left' = left
        /\ NothingCounts \/ Countable = {} \/ left = 0 \/ at' = "failed"
    BY <1>2 DEF EndCounting, Counts
  <2>2. CASE NothingCounts \/ Countable = {}
    <3>1. \A row \in results : row.corpus \in Corpora
      BY <1>0, RowFields
    <3>2. NothingCounts => \A row \in results : row.late
      BY DEF NothingCounts
    <3>3. Countable = {} => \A row \in results : row.late \/ bumped[row.corpus] # 0
      BY DEF Countable
    <3>4. \A row \in results : bumped[row.corpus] # 0 => bumped[row.corpus] = 1
      <4>1. \A c \in Corpora : bumped[c] \in Nat /\ bumped[c] <= 1
        BY <1>0 DEF CountsInAnswer
      <4> QED BY <3>1, <4>1
    <3> QED BY <2>1, <2>2, <3>2, <3>3, <3>4 DEF CountingEnds
  <2>3. CASE left = 0 \/ at' = "failed"
    BY <2>1, <2>3 DEF CountingEnds
  <2> QED BY <2>1, <2>2, <2>3
<1>3. CASE Later /\ ~EndCounting
  <2>1. results' = results
    BY <1>3, LaterStays
  <2>2. /\ bumped' = bumped \/ at' = "counting"
        /\ at' \in {"scoring", "learning", "answered"} => at \in {"scoring", "learning", "answered"}
    BY <1>3 DEF Later, BumpRow, RecordRow, CalibrateRow, EndScoring, LookUpLearnings,
                TimePasses, Hangup, OthersRecord, Counts
  <2>3. left' > 0 => left > 0
    BY <1>0, <1>3 DEF Later, BumpRow, RecordRow, CalibrateRow, EndScoring, LookUpLearnings,
                TimePasses, Hangup, OthersRecord
  <2> QED BY <2>1, <2>2, <2>3 DEF CountingEnds
<1> QED BY <1>1, <1>2, <1>3

LEMMA NoTraceStands ==
    ASSUME SearchInv, SearchNext
    PROVE  NoTrace'
<1> USE DEF SearchInv
<1>0. bumped \in [Corpora -> Nat]
  BY DEF AnswerTyped
<1>1. CASE ~Later
  <2>1. UNCHANGED <<bumped, scored, learnings>> /\ at \in Before
    BY <1>1, CountsWait
  <2> QED BY <2>1 DEF NothingYet, NoTrace
<1>2. CASE Later
  <2>1. results' = results /\ lateLeg' = lateLeg
    BY <1>2, LaterStays DEF Stays
  <2>2. NothingCounts' <=> NothingCounts
    BY <2>1 DEF NothingCounts
  <2>3. NothingCounts => UNCHANGED <<bumped, scored>>
    BY <1>2 DEF Later, BumpRow, EndCounting, RecordRow, CalibrateRow, EndScoring, LookUpLearnings,
                TimePasses, Hangup, OthersRecord, Counts, Scorable
  <2>4. NothingCounts => learnings' = learnings \/ learnings' = "read"
    BY <1>2 DEF Later, BumpRow, EndCounting, RecordRow, CalibrateRow, EndScoring, LookUpLearnings,
                TimePasses, Hangup, OthersRecord, Counts
  <2> QED BY <2>2, <2>3, <2>4 DEF NoTrace
<1> QED BY <1>1, <1>2

LEMMA AskedStands ==
    ASSUME SearchInv, SearchNext
    PROVE  AllAsked'
<1> USE DEF SearchInv
<1>0. /\ todo \in Seq(SearchLeg) /\ ran \in Seq(LegRun) /\ reports \in Seq(SearchReport)
      /\ rest \in Seq(SearchRow) /\ own \in Seq(SearchRow)
  BY DEF LegsTyped, ReportsTyped
<1>1. ASSUME NEW l \in SearchLeg, NEW r \in LegReport, Told(l, r)
      PROVE  CorporaOf(ran') = CorporaOf(ran) \cup {l.corpus}
  <2>1. [corpus |-> l.corpus, report |-> r] \in LegRun
    BY DEF SearchLeg, LegRun
  <2>2. ran' = Append(ran, [corpus |-> l.corpus, report |-> r])
    BY <1>1 DEF Told
  <2> QED BY <1>0, <2>1, <2>2, CorporaOfAppend
<1>2. CASE RunLeg \/ ReuseSnapshot
  <2>1. PICK l \in SearchLeg, got \in Seq(SearchRow), r \in LegReport : LegAnswers(l, got, r)
    BY <1>2, LegStep
  <2>2. /\ at \in {"asking", "combining"} /\ at' = at /\ todo # <<>> /\ l = Head(todo) /\ todo' = Tail(todo)
        /\ Told(l, r) /\ hasOwn' = hasOwn
    BY <2>1 DEF LegAnswers, Request
  <2>3. CorporaOf(todo) = {l.corpus} \cup CorporaOf(todo')
    BY <1>0, <2>2, CorporaOfTail
  <2>4. CorporaOf(ran') = CorporaOf(ran) \cup {l.corpus}
    BY <1>1, <2>2
  <2>5. Wanted' = Wanted
    BY <2>2 DEF Wanted
  <2> QED BY <2>2, <2>3, <2>4, <2>5 DEF AllAsked, After
<1>3. CASE LegFails
  <2>1. CASE \E l \in SearchLeg, r \in LegReport : LegFailed(l, r)
    <3>1. PICK l \in SearchLeg, r \in LegReport : LegFailed(l, r)
      BY <2>1
    <3>2. /\ at \in {"asking", "combining"} /\ at' = at /\ todo # <<>> /\ l = Head(todo)
          /\ Told(l, r) /\ hasOwn' = hasOwn
      BY <3>1 DEF LegFailed, Request
    <3>3. at = "combining" => todo' = Tail(todo)
      <4>1. l = todo[1] /\ 1 \in DOMAIN todo /\ Tail(todo) \in Seq(SearchLeg)
        BY <1>0, <3>2, TailOf
      <4>2. at = "combining" => l.src = "c"
        BY <4>1 DEF CorporaApart
      <4>3. at = "combining" => todo' = <<>> \o Tail(todo)
        BY <3>1, <4>2 DEF LegFailed
      <4>4. <<>> \o Tail(todo) = Tail(todo)
        BY <4>1
      <4> QED BY <4>3, <4>4
    <3>4. CorporaOf(todo) = {l.corpus} \cup CorporaOf(Tail(todo))
      BY <1>0, <3>2, CorporaOfTail
    <3>5. CorporaOf(ran') = CorporaOf(ran) \cup {l.corpus}
      BY <1>1, <3>2
    <3>6. Wanted' = Wanted
      BY <3>2 DEF Wanted
    <3>7. at = "combining" => CorporaOf(todo) = {l.corpus} \cup CorporaOf(todo')
      BY <3>3, <3>4
    <3> QED BY <3>2, <3>5, <3>6, <3>7 DEF AllAsked, After
  <2>2. CASE at' = "failed"
    BY <2>2 DEF AllAsked, After
  <2> QED BY <1>3, <2>1, <2>2, FailStep
<1>4. CASE ResolveVaults
  <2>1. /\ hasOwn' = hasOwn /\ ran' = ran
        /\ \/ at' = "failed"
           \/ at' = "combining" /\ \E order \in Orders :
                todo' = (IF hasOwn THEN <<Leg("own", "c", TRUE)>> ELSE <<>>)
                        \o [i \in 1 .. Cardinality(Others) |-> Leg(order[i], "c", TRUE)]
                        \o <<SharedLeg(TRUE)>>
    BY <1>4 DEF ResolveVaults, Request
  <2>2. at' = "combining" => CorporaOf(todo') = Wanted
    BY <2>1, VaultLegs
  <2>3. Wanted' = Wanted
    BY <2>1 DEF Wanted
  <2> QED BY <2>1, <2>2, <2>3 DEF AllAsked, After
<1>5. CASE ResolveExpires
  <2> DEFINE r == Report("request", None, "interrupted")
  <2>1. reports' = Append(reports, r) /\ at' = "answered"
    BY <1>5 DEF ResolveExpires
  <2>2. r \in SearchReport /\ r.verdict = "interrupted"
    BY SkippedIsKnown
  <2> HIDE DEF r
  <2>3. Len(reports) + 1 \in DOMAIN reports' /\ reports'[Len(reports) + 1] = r
    BY <1>0, <2>1, <2>2, AppendOf
  <2> QED BY <2>1, <2>2, <2>3 DEF AllAsked
<1>6. CASE Merge
  <2>1. /\ at \in {"asking", "combining"} /\ todo = <<>> /\ at' \in {"resolving", "counting"}
        /\ UNCHANGED <<scope, hasOwn, ran>>
    BY <1>6, MergeStep
  <2>2. at = "combining" => Wanted \subseteq CorporaOf(ran)
    <3>1. CorporaOf(todo) = {}
      BY <2>1 DEF CorporaOf
    <3> QED BY <3>1 DEF AllAsked
  <2>3. at = "asking" => at' = "resolving" \/ scope = "personal"
    BY <1>6, MergeStep DEF PersonalFirst, RequestTyped
  <2>4. Wanted' = Wanted
    BY <2>1 DEF Wanted
  <2> QED BY <2>1, <2>2, <2>3, <2>4 DEF AllAsked, After
<1>7. CASE Later
  <2>1. Stays /\ (at \in Before => at' = at) /\ at \in Before \cup After
        /\ (at \in After => at' \in After \cup {"failed"})
    BY <1>7, LaterStays
  <2>2. Wanted' = Wanted /\ CorporaOf(ran') = CorporaOf(ran) /\ CorporaOf(todo') = CorporaOf(todo)
    BY <2>1 DEF Stays, Wanted
  <2>3. (\E i \in DOMAIN reports : reports[i].verdict # "whole")
        => \E i \in DOMAIN reports' : reports'[i].verdict # "whole"
    <3>1. Silent \/ \E r \in SearchReport : Says(r)
      <4>1. ran' = ran
        BY <2>1 DEF Stays
      <4>2. ASSUME NEW l \in SearchLeg, NEW r \in LegReport, Told(l, r) PROVE FALSE
        <5>1. [corpus |-> l.corpus, report |-> r] \in LegRun
          BY DEF SearchLeg, LegRun
        <5>2. ran' = Append(ran, [corpus |-> l.corpus, report |-> r])
          BY <4>2 DEF Told
        <5>3. Len(Append(ran, [corpus |-> l.corpus, report |-> r])) = Len(ran) + 1 /\ Len(ran) \in Nat
          BY <1>0, <5>1
        <5> QED BY <4>1, <5>2, <5>3
      <4> QED BY <4>2, ReportsGrow
    <3>2. CASE Silent
      BY <3>2 DEF Silent
    <3>3. ASSUME NEW r \in SearchReport, Says(r)
          PROVE  Len(reports) + 1 \in DOMAIN reports' /\ reports'[Len(reports) + 1].verdict # "whole"
      BY <1>0, <3>3, AppendOf DEF Says
    <3> QED BY <3>1, <3>2, <3>3
  <2>4. /\ at' = "combining" => at = "combining"
        /\ at' \in After => at \in After
    BY <2>1 DEF Before, After
  <2> QED BY <2>1, <2>2, <2>3, <2>4 DEF Stays, AllAsked
<1> QED BY <1>2, <1>3, <1>4, <1>5, <1>6, <1>7, StepKinds

\* The invariant holds initially and every step leaves it standing.
LEMMA SearchInitInv ==
    ASSUME SearchInit
    PROVE  SearchInv
<1> DEFINE leg == Leg("own", "p", FALSE)
           shared == SharedLeg(scope = "both")
<1>1. /\ scope \in {"personal", "combined", "both"} /\ hasOwn \in BOOLEAN
      /\ left \in {0, 1, 2} /\ engines = 1 /\ snapshot = <<>>
      /\ own = <<>> /\ rest = <<>> /\ reports = <<>> /\ lateLeg = FALSE
      /\ results = {} /\ bumped = [c \in Corpora |-> 0]
      /\ scored = {} /\ confidence = [c \in Corpora |-> "blend"]
      /\ window = 0 /\ learnings = "unasked" /\ ran = <<>> /\ healthy = FALSE
  BY DEF SearchInit
<1>0. \/ scope = "combined" /\ at = "resolving" /\ todo = <<>>
      \/ scope # "combined" /\ at = "asking" /\ (todo = <<leg>> \/ todo = <<shared>>)
  <2>1. at = IF scope = "combined" THEN "resolving" ELSE "asking"
    BY DEF SearchInit
  <2>2. todo = CASE scope = "combined" -> <<>> [] scope # "combined" /\ hasOwn -> <<leg>> [] OTHER -> <<shared>>
    BY DEF SearchInit
  <2> HIDE DEF leg, shared
  <2>3. scope # "combined" => todo = <<leg>> \/ todo = <<shared>>
    <3>1. CASE hasOwn
      BY <2>2, <3>1
    <3>2. CASE ~hasOwn
      BY <2>2, <3>2
    <3> QED BY <3>1, <3>2
  <2>4. scope = "combined" => todo = <<>>
    BY <2>2
  <2> QED BY <2>1, <2>3, <2>4
<1>2. leg \in SearchLeg /\ leg.corpus = "own"
  BY <1>1, VaultNames DEF Leg, SearchLeg
<1>3. shared \in SearchLeg /\ shared.src = "c"
  BY VaultNames DEF SharedLeg, SearchLeg
<1> HIDE DEF leg, shared
<1>4. RequestTyped
  <2>1. /\ scope \in {"personal", "combined", "both"} /\ hasOwn \in BOOLEAN
        /\ left \in {0, 1, 2} /\ engines = 1 /\ lateLeg = FALSE /\ healthy = FALSE
    BY <1>1
  <2>2. at \in {"asking", "resolving"}
    BY <1>0
  <2>3. at \in Before \cup After \cup {"failed"}
    BY <2>2 DEF Before
  <2>4. left \in Budgets /\ engines \in {1, 2}
    BY <2>1 DEF Budgets
  <2>5. lateLeg \in BOOLEAN /\ healthy \in BOOLEAN
    BY <2>1
  <2> QED BY <2>1, <2>3, <2>4, <2>5 DEF RequestTyped
<1>5. LegsTyped
  <2>1. <<leg>> \in Seq(SearchLeg) /\ <<shared>> \in Seq(SearchLeg) /\ <<>> \in Seq(SearchLeg)
    BY <1>2, <1>3
  <2>2. <<>> \in Seq(SearchRow) /\ <<>> \in Seq(Taken)
    OBVIOUS
  <2>3. todo \in Seq(SearchLeg)
    BY <1>0, <2>1
  <2>4. snapshot = <<>> /\ own = <<>> /\ rest = <<>>
    BY <1>1
  <2> QED BY <2>2, <2>3, <2>4 DEF LegsTyped
<1>6. ReportsTyped
  BY <1>1 DEF ReportsTyped
<1>7. AnswerTyped
  <2>1. IsFiniteSet(results) /\ Cardinality(results) = 0
    BY <1>1, FS_EmptySet
  <2>2. bumped \in [Corpora -> Nat] /\ confidence \in [Corpora -> {"blend", "raw", "rank"}]
    BY <1>1
  <2> QED BY <1>1, <2>1, <2>2, SearchAssumption DEF AnswerTyped
<1>8. PersonalFirst
  <2>1. Len(todo) <= 1 /\ \A i \in DOMAIN todo : todo[i].src = "p" => todo[i].corpus = "own"
    <3>1. ASSUME NEW x, x.src = "p" => x.corpus = "own", todo = <<x>>
          PROVE  Len(todo) <= 1 /\ \A i \in DOMAIN todo : todo[i].src = "p" => todo[i].corpus = "own"
      BY <3>1
    <3>2. CASE todo = <<>>
      BY <3>2
    <3> QED BY <1>0, <1>2, <1>3, <3>1, <3>2
  <2> QED BY <1>0, <1>1, <2>1 DEF PersonalFirst
<1>9. CorporaApart /\ SnapshotIsOwn /\ HealthyIsKept /\ HealthyIsNotEvicted
  BY <1>0, <1>1 DEF CorporaApart, SnapshotIsOwn, HealthyIsKept, HealthyIsNotEvicted
<1>10. NothingYet /\ CountsInAnswer
  BY <1>1 DEF NothingYet, CountsInAnswer
<1>11. CountingEnds /\ NoTrace /\ AllAsked
  BY <1>0, <1>1 DEF CountingEnds, NoTrace, AllAsked, After
<1>12. ReportsAgree(reports, ran)
  <2> DEFINE ofLegs == {i \in DOMAIN reports : reports[i].src # "request"}
             vaults == {i \in DOMAIN ran : ran[i].corpus # "shared"}
             said == {ran[i].report : i \in {j \in DOMAIN ran : ran[j].corpus = "shared"}}
  <2>1. ofLegs = {} /\ vaults = {} /\ said = {} /\ {ran[i].report : i \in DOMAIN ran} = {}
        /\ {reports[i] : i \in ofLegs} = {}
    BY <1>1
  <2>2. Cardinality(ofLegs) = 0 /\ Cardinality(vaults) = 0 /\ Cardinality(said) = 0
    BY <2>1, FS_EmptySet
  <2>3. Cardinality(ofLegs) = Cardinality(vaults) + Cardinality(said)
    BY <2>2
  <2> HIDE DEF ofLegs, vaults, said
  <2> QED BY <2>1, <2>3 DEF ReportsAgree, ofLegs, vaults, said
<1> QED BY <1>4, <1>5, <1>6, <1>7, <1>8, <1>9, <1>10, <1>11, <1>12 DEF SearchInv

LEMMA SearchInvStands ==
    ASSUME SearchInv, [SearchNext]_searchVars
    PROVE  SearchInv'
<1>1. CASE SearchNext
  BY <1>1, RequestTypedStands, LegsTypedStands, ReportsStand, AnswerTypedStands, PersonalFirstStands,
     CorporaApartStands, SnapshotStands, HealthyStands, NothingYetStands, CountsStand, CountingStands,
     NoTraceStands, AskedStands DEF SearchInv
<1>2. CASE UNCHANGED searchVars
  <2> USE <1>2 DEF searchVars, SearchInv
  <2>1. RequestTyped' /\ LegsTyped' /\ ReportsTyped' /\ AnswerTyped'
    BY DEF RequestTyped, LegsTyped, ReportsTyped, AnswerTyped
  <2>2. PersonalFirst' /\ SnapshotIsOwn'
    BY DEF PersonalFirst, SnapshotIsOwn
  <2>3. CorporaApart'
    BY DEF CorporaApart
  <2>4. HealthyIsKept' /\ HealthyIsNotEvicted'
    BY DEF HealthyIsKept, HealthyIsNotEvicted
  <2>5. NothingYet' /\ CountsInAnswer' /\ CountingEnds'
    BY DEF NothingYet, CountsInAnswer, CountingEnds
  <2>6. NoTrace'
    BY DEF NoTrace, NothingCounts
  <2>7. AllAsked' /\ ReportsAgree(reports', ran')
    BY DEF AllAsked, Wanted
  <2> QED BY <2>1, <2>2, <2>3, <2>4, <2>5, <2>6, <2>7
<1> QED BY <1>1, <1>2

LEMMA SearchInvTypes ==
    ASSUME SearchInv
    PROVE  SearchTypeOK
<1>1. \A row \in results : row.corpus \in Corpora /\ row.src \in {"p", "c"}
  BY RowFields DEF SearchInv, AnswerTyped
<1> QED BY <1>1 DEF SearchInv, AnswerTyped, RequestTyped, SearchTypeOK, Before, After

LEMMA SearchInvHonest ==
    ASSUME SearchInv
    PROVE  SearchIsHonest
<1> USE DEF SearchInv
<1>1. CountsFollowAnswer
  BY DEF CountsInAnswer, CountingEnds, CountsFollowAnswer
<1>2. LateAnswerLeavesNoTrace
  BY DEF NoTrace, NothingCounts, LateAnswerLeavesNoTrace
<1>3. EveryCorpusIsReported
  <2> SUFFICES ASSUME at \in After PROVE EveryCorpusIsReported
    BY DEF EveryCorpusIsReported, After
  <2> DEFINE ofLegs == {i \in DOMAIN reports : reports[i].src # "request"}
             vaultRuns == {i \in DOMAIN ran : ran[i].corpus # "shared"}
  <2>1. /\ {reports[i] : i \in ofLegs} = {ran[i].report : i \in DOMAIN ran}
        /\ Cardinality(ofLegs) = Cardinality(vaultRuns) + Cardinality(SharedReports)
    BY DEF ReportsAgree, SharedReports
  <2>2. ASSUME \A i \in DOMAIN reports : reports[i].verdict = "whole"
        PROVE  /\ \A i \in DOMAIN ran : ran[i].report.verdict = "whole"
               /\ scope # "personal" => Wanted \subseteq CorporaOf(ran)
    <3>1. \A i \in DOMAIN ran : \E j \in DOMAIN reports : ran[i].report = reports[j]
      BY <2>1
    <3> QED BY <2>2, <3>1 DEF AllAsked
  <2> QED BY <2>1, <2>2 DEF EveryCorpusIsReported, Wanted, CorporaOf
<1> QED BY <1>1, <1>2, <1>3 DEF SearchIsHonest

\* The legs, reports, hits and counts of a search are what they may be.
THEOREM SearchTypes == SearchSpec => []SearchTypeOK
<1>1. SearchSpec => []SearchInv
  BY SearchInitInv, SearchInvStands, PTL DEF SearchSpec
<1>2. SearchInv => SearchTypeOK
  BY SearchInvTypes
<1> QED BY <1>1, <1>2, PTL

\* For every number of other vaults, every limit and threshold: no late row displaces a
\* healthy one, an access is counted once and only for what the answer shows, an answer
\* that was late throughout leaves no trace, and what the answer says of its corpora is
\* what they did.
THEOREM SearchHonest == SearchSpec => []SearchIsHonest
<1>1. SearchSpec => []SearchInv
  BY SearchInitInv, SearchInvStands, PTL DEF SearchSpec
<1>2. SearchInv => SearchIsHonest
  BY SearchInvHonest
<1> QED BY <1>1, <1>2, PTL

-----------------------------------------------------------------------------
(* The requests together *)

\* A part that stands still takes no step of its own, so what is proved of each part
\* holds when they are checked side by side.
LEMMA RequestsAreTheirParts == RequestSpec => Spec /\ SearchSpec /\ RecallSpec
<1>1. RequestInit => Init /\ SearchInit /\ RecallInit
  BY Zenon DEF RequestInit
<1>2. [RequestNext]_requestVars => [Next]_vars /\ [SearchNext]_searchVars /\ [RecallNext]_recallVars
  <2> SUFFICES ASSUME [RequestNext]_requestVars
               PROVE  [Next]_vars /\ [SearchNext]_searchVars /\ [RecallNext]_recallVars
    OBVIOUS
  <2>1. CASE UNCHANGED requestVars
    BY <2>1 DEF requestVars
  <2>2. CASE RequestNext
    BY <2>2, Zenon DEF RequestNext
  <2> QED BY <2>1, <2>2
<1> QED BY <1>1, <1>2, PTL DEF RequestSpec, Spec, SearchSpec, RecallSpec

\* The state of every part of the requests' run is well typed.
THEOREM RequestTypes == RequestSpec => []PartsTypeOK
<1>1. TypeOK /\ SearchTypeOK /\ RecallTypeOK => PartsTypeOK
  BY DEF PartsTypeOK
<1> QED BY RequestsAreTheirParts, TypeCorrect, SearchTypes, RecallTypes, <1>1, PTL

\* For every number of vaults and variants and every bound: a search, and each of
\* the rankings it asks for, answers with what was healthy, counts what it shows,
\* leaves no trace of what was late, and says what it lacks.
THEOREM SearchesAnswerHonestly == RequestSpec => []SearchesAreHonest
<1>1. SearchIsHonest /\ RecallIsHonest => SearchesAreHonest
  BY DEF SearchesAreHonest
<1> QED BY RequestsAreTheirParts, SearchHonest, RankingsAreHonest, <1>1, PTL
=============================================================================
