--------------------------- MODULE ProjectionProofs ---------------------------
(***************************************************************************)
(* Proofs about the document rows of durable learnings: for any number of  *)
(* keys, learnings, deliveries and faults, the text of a row goes with the *)
(* learnings that back it, whichever of commit, index, purge and repair    *)
(* comes last. And about the files of the inboxes: no text of one is lost  *)
(* or doubled, however many ingests overlap.                               *)
(***************************************************************************)
EXTENDS Projection, InboxFiles, TLAPS, FiniteSetTheorems

-----------------------------------------------------------------------------
(* The least and the greatest of a set of ids *)

LEMMA LeastNat ==
    ASSUME NEW S \in SUBSET Nat, S # {}
    PROVE  \E x \in S : \A y \in S : x <= y
<1> DEFINE R == StrictSubsetOrdering(Nat)
           T == {0..x : x \in S}
<1>1. IsWellFoundedOn(R, FiniteSubsetsOf(Nat))
  BY FS_StrictSubsetOrderingWellFounded
<1>2. T \subseteq FiniteSubsetsOf(Nat) /\ T # {}
  <2>1. ASSUME NEW x \in S PROVE 0..x \in FiniteSubsetsOf(Nat)
    <3>1. IsFiniteSet(0..x)
      BY FS_Interval
    <3> QED BY <3>1 DEF FiniteSubsetsOf
  <2> QED BY <2>1
<1>3. PICK t \in T : \A u \in T : <<u, t>> \notin R
  <2> HIDE DEF R, T
  <2> QED BY <1>1, <1>2, WFMin
<1>4. PICK x \in S : t = 0..x
  OBVIOUS
<1>5. ASSUME NEW y \in S PROVE x <= y
  <2>1. <<0..y, 0..x>> \notin R
    BY <1>3, <1>4
  <2>2. 0..y \in SUBSET Nat /\ 0..x \in SUBSET Nat
    OBVIOUS
  <2>3. 0..y \subseteq 0..x => 0..y = 0..x
    BY <2>1, <2>2 DEF StrictSubsetOrdering
  <2>4. CASE ~(x <= y)
    <3>1. 0..y \subseteq 0..x /\ x \in 0..x /\ x \notin 0..y
      BY <2>4
    <3> QED BY <2>3, <3>1
  <2> QED BY <2>4
<1> QED BY <1>5

LEMMA MinOf ==
    ASSUME NEW S \in SUBSET Nat, S # {}
    PROVE  Min(S) \in S /\ \A y \in S : Min(S) <= y
BY LeastNat DEF Min

LEMMA MaxOf ==
    ASSUME NEW N \in Nat, NEW S \in SUBSET (0..N), S # {}
    PROVE  Max(S) \in S /\ \A y \in S : y <= Max(S)
<1> DEFINE T == {N - x : x \in S}
<1>1. T \in SUBSET Nat /\ T # {}
  <2>1. ASSUME NEW x \in S PROVE N - x \in Nat
    <3>1. x \in 0..N
      OBVIOUS
    <3> QED BY <3>1
  <2> QED BY <2>1
<1>2. PICK t \in T : \A u \in T : t <= u
  BY <1>1, LeastNat
<1>3. PICK x \in S : t = N - x
  BY <1>2
<1>4. \A y \in S : x >= y
  BY <1>2, <1>3
<1>5. Max(S) \in S /\ \A y \in S : Max(S) >= y
  BY <1>4 DEF Max
<1> QED BY <1>5

-----------------------------------------------------------------------------
(* The inductive invariant *)

\* A row with text is one that index_durable_document published and nothing
\* retired since; what a handler still owes is of a learning it committed.
TextIsPublished == \A k \in Keys : doc[k].text => doc[k].page \in {"accepted", "draft"}
OwedAreIssued == \A d \in owed : d.of <= nLearn

ProjectionInv == /\ TypeOK /\ TextIsPublished /\ OwedAreIssued
                 /\ UnbackedTextIsOwedAPurge

LEMMA ProjectionInitInv == Init => ProjectionInv
<1> SUFFICES ASSUME Init PROVE ProjectionInv
  OBVIOUS
<1> USE ProjectionAssumption
<1>1. PICK k \in Keys : learn = [l \in LearnIds |-> [status |-> "absent", key |-> k,
                                     sup |-> 0, joined |-> FALSE]]
  BY DEF Init
<1>2. TypeOK
  BY <1>1 DEF Init, TypeOK, LearnIds, Learning, NoDocument, Document, Sweep
<1>3. TextIsPublished /\ OwedAreIssued /\ UnbackedTextIsOwedAPurge
  BY DEF Init, TextIsPublished, OwedAreIssued, UnbackedTextIsOwedAPurge, NoDocument
<1> QED BY <1>2, <1>3 DEF ProjectionInv

\* What names a row after a commit are the learnings that were mapped to it.
LEMMA SuccessorIsKey ==
    ASSUME NEW lv \in [LearnIds -> Learning], NEW k \in Keys
    PROVE  Successor(lv, k) \in Keys \cup {NoKey}
<1> DEFINE S == {lv[l].sup : l \in Mapped(lv, k)} \cup {0}
<1>1. S \in SUBSET (0..MaxLearn) /\ S # {}
  <2>1. ASSUME NEW l \in Mapped(lv, k) PROVE lv[l].sup \in 0..MaxLearn
    <3>1. lv[l] \in Learning
      BY DEF Mapped, Having
    <3> QED BY <3>1 DEF Learning
  <2> QED BY <2>1, ProjectionAssumption
<1> HIDE DEF S
<1>2. Max(S) \in 0..MaxLearn
  BY <1>1, MaxOf, ProjectionAssumption
<1>3. Max(S) # 0 => lv[Max(S)].key \in Keys
  BY <1>2 DEF LearnIds, Learning
<1> QED BY <1>3 DEF Successor, S

-----------------------------------------------------------------------------
(* The steps *)

\* What TextIsEarned asks of a step.
TextEarned ==
    \A k \in Keys :
        /\ /\ doc[k].text /\ ~Closed(doc[k])
           /\ \E l \in Mapped(learn, k) : IsActive(learn, l) /\ IsActive(learn', l)
           => doc'[k].text
        /\ ~doc[k].text /\ doc'[k].text /\ owed' = owed =>
               Backed(learn, k) /\ ~Closed(doc[k])
        /\ doc[k].page = "superseded" /\ doc'[k].page = "accepted" /\ ~doc'[k].text =>
               \E l \in Mapped(learn', k) : IsActive(learn', l)

Stands == ProjectionInv' /\ TextEarned

\* A step that leaves the rows and their text as they were earns them.
LEMMA RowsStand == ASSUME ProjectionInv, UNCHANGED doc PROVE TextEarned
BY DEF TextEarned, Closed, ProjectionInv, TypeOK, Document

\* The rows a commit leaves: a new one without text, or the text as it was.
LEMMA CanonicalRowKept ==
    ASSUME ProjectionInv, NEW lv \in [LearnIds -> Learning], NEW k \in Keys, NEW n \in LearnIds
    PROVE  /\ CanonicalRow(lv, k, n) \in Document
           /\ CanonicalRow(lv, k, n).text = doc[k].text
           /\ doc[k].text => CanonicalRow(lv, k, n).page \in {"accepted", "draft"}
           /\ doc[k].page = "superseded" /\ CanonicalRow(lv, k, n).page # "superseded" =>
                 IsActive(lv, n)
<1> USE ProjectionAssumption DEF ProjectionInv
<1>1. doc[k] \in Document
  BY DEF TypeOK
<1>2. doc[k].page = "none" => ~doc[k].text
  BY DEF TextIsPublished
<1>3. CASE doc[k].page = "none"
  <2>1. CanonicalRow(lv, k, n) = [NoDocument EXCEPT !.page = MetaPage(k)]
    BY <1>3 DEF CanonicalRow
  <2> QED BY <1>1, <1>2, <1>3, <2>1 DEF NoDocument, Document, MetaPage
<1>4. CASE doc[k].page # "none" /\ Reopens(lv, k, n)
  <2>1. CanonicalRow(lv, k, n) = [doc[k] EXCEPT !.page = "accepted", !.sup = NoKey]
    BY <1>4 DEF CanonicalRow
  <2> QED BY <1>1, <1>4, <2>1 DEF Document, Reopens
<1>5. CASE doc[k].page # "none" /\ ~Reopens(lv, k, n)
  <2>1. CanonicalRow(lv, k, n) = doc[k]
    BY <1>5 DEF CanonicalRow
  <2> QED BY <1>1, <1>5, <2>1 DEF TextIsPublished
<1> QED BY <1>3, <1>4, <1>5

LEMMA LearnStands ==
    ASSUME ProjectionInv, NEW k \in Keys, NEW older \in 0..MaxLearn, Learn(k, older)
    PROVE  Stands
<1> USE ProjectionAssumption DEF ProjectionInv
<1> DEFINE n     == nLearn + 1
           new   == [status |-> "active", key |-> k, sup |-> 0, joined |-> FALSE]
           fresh == [learn EXCEPT ![n] = new]
           lv    == IF older = 0 THEN fresh ELSE [fresh EXCEPT ![older].sup = n]
<1>1. /\ n \in LearnIds /\ nLearn \in 0..MaxLearn /\ older \in 0..n
      /\ learn' = [lv EXCEPT ![n].joined = TRUE]
      /\ doc' = [doc EXCEPT ![k] = CanonicalRow(lv, k, n)]
      /\ nLearn' = n /\ owed' = owed \cup {[op |-> "index", of |-> n, by |-> n]}
      /\ stale' = stale \cup {j \in Keys : doc[j].text /\ Backed(learn, j) /\ ~Backed(lv, j)}
      /\ UNCHANGED <<sweep, faults>>
  BY DEF Learn, TypeOK, LearnIds
<1>2. learn[n].status = "absent" /\ learn \in [LearnIds -> Learning]
  BY <1>1 DEF TypeOK
<1>3. fresh \in [LearnIds -> Learning] /\ fresh[n] = new /\ new \in Learning
      /\ \A l \in LearnIds : l # n => fresh[l] = learn[l]
  BY <1>1, <1>2 DEF Learning
<1> HIDE DEF n, new, fresh
<1>4. /\ lv \in [LearnIds -> Learning]
      /\ \A l \in LearnIds : /\ lv[l].status = fresh[l].status /\ lv[l].key = fresh[l].key
                             /\ lv[l].joined = fresh[l].joined
  <2>1. CASE older = 0
    BY <1>3, <2>1
  <2>2. CASE older # 0
    <3>1. older \in LearnIds /\ n \in 0..MaxLearn
      BY <1>1, <2>2 DEF LearnIds
    <3>2. fresh[older] \in Learning
      BY <1>3, <3>1
    <3>3. [fresh[older] EXCEPT !.sup = n] \in Learning
      BY <3>1, <3>2 DEF Learning
    <3>4. lv = [fresh EXCEPT ![older] = [fresh[older] EXCEPT !.sup = n]]
      BY <2>2
    <3> HIDE DEF lv
    <3>5. lv \in [LearnIds -> Learning]
      BY <1>3, <3>1, <3>3, <3>4
    <3>6. /\ lv[older].status = fresh[older].status /\ lv[older].key = fresh[older].key
          /\ lv[older].joined = fresh[older].joined
      BY <1>3, <3>1, <3>2, <3>4 DEF Learning
    <3>7. \A l \in LearnIds : l # older => lv[l] = fresh[l]
      BY <1>3, <3>4
    <3> QED BY <3>5, <3>6, <3>7
  <2> QED BY <2>1, <2>2
<1> HIDE DEF lv
<1>5. /\ learn' \in [LearnIds -> Learning] /\ learn'[n].joined
      /\ \A l \in LearnIds : /\ learn'[l].status = lv[l].status /\ learn'[l].key = lv[l].key
                             /\ learn'[l].sup = lv[l].sup
  <2>1. lv[n] \in Learning
    BY <1>1, <1>4
  <2>2. [lv[n] EXCEPT !.joined = TRUE] \in Learning
    BY <2>1 DEF Learning
  <2>3. learn' = [lv EXCEPT ![n] = [lv[n] EXCEPT !.joined = TRUE]]
    BY <1>1
  <2>4. learn' \in [LearnIds -> Learning] /\ learn'[n] = [lv[n] EXCEPT !.joined = TRUE]
    BY <1>1, <1>4, <2>2, <2>3
  <2>5. \A l \in LearnIds : l # n => learn'[l] = lv[l]
    BY <1>4, <2>3
  <2>6. /\ learn'[n].status = lv[n].status /\ learn'[n].key = lv[n].key
        /\ learn'[n].sup = lv[n].sup /\ learn'[n].joined
    BY <2>1, <2>4 DEF Learning
  <2> QED BY <2>4, <2>5, <2>6
<1>6. \A j \in Keys : Backed(learn', j) <=> Backed(lv, j)
  BY <1>5 DEF Backed, Having, IsActive
<1>7. \A l \in LearnIds : /\ l # n => learn'[l].status = learn[l].status /\ learn'[l].key = learn[l].key
                          /\ l = n => learn'[l].status = "active" /\ learn'[l].key = k
  BY <1>3, <1>4, <1>5 DEF new
<1>8. /\ doc' \in [Keys -> Document]
      /\ \A j \in Keys : doc'[j].text = doc[j].text
      /\ \A j \in Keys : j # k => doc'[j] = doc[j]
      /\ doc[k].text => doc'[k].page \in {"accepted", "draft"}
      /\ doc[k].page = "superseded" /\ doc'[k].page # "superseded" => IsActive(lv, n)
  BY <1>1, <1>4, CanonicalRowKept DEF TypeOK
<1>9. TypeOK'
  <2>1. [op |-> "index", of |-> n, by |-> n] \in Delivery
    BY <1>1 DEF Delivery
  <2>2. \A l \in LearnIds : l > nLearn' <=> learn'[l].status = "absent"
    <3>1. \A l \in LearnIds : l > nLearn <=> learn[l].status = "absent"
      BY DEF TypeOK
    <3> QED BY <1>1, <1>7, <3>1 DEF n, LearnIds
  <2>3. nLearn' \in 0..MaxLearn
    BY <1>1 DEF LearnIds
  <2> QED BY <1>1, <1>5, <1>8, <2>1, <2>2, <2>3 DEF TypeOK
<1>10. TextIsPublished'
  BY <1>8 DEF TextIsPublished
<1>11. OwedAreIssued'
  <2>1. \A d \in owed : d.of \in Nat /\ d.of <= nLearn
    BY DEF OwedAreIssued, TypeOK, Delivery, LearnIds
  <2> QED BY <1>1, <2>1 DEF OwedAreIssued, n
<1>12. UnbackedTextIsOwedAPurge'
  <2> SUFFICES ASSUME NEW j \in Keys, doc[j].text, ~Backed(lv, j)
               PROVE  \/ j \in stale'
                      \/ \E d \in owed' : d.op = "purge" /\ learn'[d.of].key = j
    BY <1>6, <1>8 DEF UnbackedTextIsOwedAPurge
  <2>1. CASE Backed(learn, j)
    BY <1>1, <2>1
  <2>2. CASE \E d \in owed : d.op = "purge" /\ learn[d.of].key = j
    <3>1. PICK d \in owed : d.op = "purge" /\ learn[d.of].key = j
      BY <2>2
    <3>2. d.of \in LearnIds /\ d.of # n
      BY <1>1 DEF TypeOK, Delivery, OwedAreIssued, n, LearnIds
    <3> QED BY <1>1, <1>7, <3>1, <3>2
  <2>3. CASE j \in stale
    BY <1>1, <2>3
  <2> QED BY <2>1, <2>2, <2>3 DEF UnbackedTextIsOwedAPurge
<1>13. TextEarned
  <2>1. IsActive(lv, n) => \E l \in Mapped(learn', k) : IsActive(learn', l)
    <3>1. n \in Mapped(learn', k) /\ learn'[n].sup = lv[n].sup
      BY <1>1, <1>5, <1>7 DEF Mapped, Having
    <3> QED BY <1>1, <1>7, <3>1 DEF IsActive
  <2> QED BY <1>8, <2>1 DEF TextEarned
<1> QED BY <1>9, <1>10, <1>11, <1>12, <1>13 DEF Stands

LEMMA CorrectStands ==
    ASSUME ProjectionInv, NEW k \in Keys, NEW old \in SUBSET LearnIds, Correct(k, old)
    PROVE  Stands
<1> USE ProjectionAssumption DEF ProjectionInv
<1> DEFINE n   == nLearn + 1
           new == [status |-> "active", key |-> k, sup |-> 0, joined |-> FALSE]
<1>0. n \in LearnIds /\ nLearn \in 0..MaxLearn /\ n \in 0..MaxLearn
  <2>1. nLearn \in 0..MaxLearn /\ nLearn < MaxLearn
    BY DEF Correct, TypeOK
  <2> QED BY <2>1 DEF LearnIds
<1>a. nLearn' = n /\ old \subseteq 1..nLearn
  BY DEF Correct
<1>b. owed' = owed \cup {[op |-> "purge", of |-> l, by |-> n] : l \in old}
  BY DEF Correct
<1>1. /\ old \subseteq 1..nLearn
      /\ learn' = [l \in LearnIds |->
            IF l = n THEN new
            ELSE IF l \in old THEN [learn[l] EXCEPT !.status = "superseded", !.sup = n]
            ELSE learn[l]]
      /\ nLearn' = n /\ owed' = owed \cup {[op |-> "purge", of |-> l, by |-> n] : l \in old}
      /\ UNCHANGED <<doc, sweep, stale, faults>>
  BY DEF Correct
<1>2. learn[n].status = "absent" /\ learn \in [LearnIds -> Learning]
  BY <1>0 DEF TypeOK
<1>3. n \notin old
  <2>1. n \notin 1..nLearn
    BY <1>0
  <2> QED BY <1>1, <2>1
<1>4. ASSUME NEW l \in LearnIds
      PROVE  /\ learn'[l] \in Learning
             /\ l = n => learn'[l].status = "active" /\ learn'[l].key = k
             /\ l # n => learn'[l].key = learn[l].key
             /\ l # n /\ l \notin old => learn'[l] = learn[l]
             /\ l \in old => learn'[l].status = "superseded"
  <2>1. learn[l] \in Learning
    BY <1>2
  <2>2. CASE l = n
    <3>1. new \in Learning /\ new.status = "active" /\ new.key = k
      BY ProjectionAssumption DEF Learning
    <3>2. learn'[l] = new
      BY <1>1, <2>2
    <3> HIDE DEF new
    <3> QED BY <1>3, <2>2, <3>1, <3>2
  <2>3. CASE l # n /\ l \in old
    BY <1>0, <1>1, <1>3, <2>1, <2>3 DEF Learning
  <2>4. CASE l # n /\ l \notin old
    BY <1>1, <2>1, <2>4
  <2> QED BY <2>2, <2>3, <2>4
<1> HIDE DEF n, new
<1>5. TypeOK'
  <2>1. \A l \in old : [op |-> "purge", of |-> l, by |-> n] \in Delivery
    BY <1>0 DEF Delivery
  <2>2. \A l \in LearnIds : l > nLearn' <=> learn'[l].status = "absent"
    <3>1. \A l \in LearnIds : l > nLearn <=> learn[l].status = "absent"
      BY DEF TypeOK
    <3>2. \A l \in LearnIds : l > nLearn' <=> l > nLearn /\ l # n
      BY <1>0, <1>a DEF n, LearnIds
    <3>3. \A l \in old : ~(l > nLearn)
      BY <1>0, <1>a
    <3> QED BY <1>3, <1>4, <3>1, <3>2, <3>3
  <2>3. learn' \in [LearnIds -> Learning]
    BY <1>1, <1>4
  <2> QED BY <1>0, <1>1, <2>1, <2>2, <2>3 DEF TypeOK
<1>6. TextIsPublished'
  BY <1>1 DEF TextIsPublished
<1>7. OwedAreIssued'
  <2>1. \A d \in owed : d.of \in Nat /\ d.of <= nLearn
    BY DEF OwedAreIssued, TypeOK, Delivery, LearnIds
  <2>2. \A l \in old : l \in Nat /\ l <= nLearn
    BY <1>0, <1>a
  <2>3. \A m \in Nat : m <= nLearn => m <= nLearn'
    BY <1>0, <1>a DEF n
  <2>4. \A d \in owed' : d \in owed \/ \E l \in old : d.of = l
    BY <1>b
  <2> QED BY <2>1, <2>2, <2>3, <2>4 DEF OwedAreIssued
<1>8. UnbackedTextIsOwedAPurge'
  <2> SUFFICES ASSUME NEW j \in Keys, doc[j].text, ~Backed(learn', j)
               PROVE  \/ j \in stale
                      \/ \E d \in owed' : d.op = "purge" /\ learn'[d.of].key = j
    BY <1>1 DEF UnbackedTextIsOwedAPurge
  <2>1. CASE Backed(learn, j)
    <3>1. PICK l \in LearnIds : learn[l].status = "active" /\ learn[l].sup = 0 /\ learn[l].key = j
      BY <2>1 DEF Backed, Having, IsActive
    <3>2. l # n
      BY <1>2, <3>1
    <3>3. l \in old
      BY <1>4, <3>1, <3>2 DEF Backed, Having, IsActive
    <3>4. [op |-> "purge", of |-> l, by |-> n] \in owed'
      BY <1>1, <3>3
    <3> QED BY <1>4, <3>1, <3>2, <3>4
  <2>2. CASE \E d \in owed : d.op = "purge" /\ learn[d.of].key = j
    <3>1. PICK d \in owed : d.op = "purge" /\ learn[d.of].key = j
      BY <2>2
    <3>2. d.of \in LearnIds /\ d.of # n
      BY <1>0 DEF TypeOK, Delivery, OwedAreIssued, n, LearnIds
    <3> QED BY <1>1, <1>4, <3>1, <3>2
  <2>3. CASE j \in stale
    BY <2>3
  <2> QED BY <2>1, <2>2, <2>3 DEF UnbackedTextIsOwedAPurge
<1> QED BY <1>1, <1>5, <1>6, <1>7, <1>8, RowsStand DEF Stands

\* A step of the sweep, or of anything else, that leaves rows and learnings.
LEMMA QuietStands ==
    ASSUME ProjectionInv, UNCHANGED <<learn, doc, nLearn, owed, stale>>,
           sweep' \in Sweep, faults' \in 0..MaxFaults
    PROVE  Stands
<1> USE DEF ProjectionInv
<1>1. TypeOK'
  BY DEF TypeOK
<1>2. TextIsPublished' /\ OwedAreIssued' /\ UnbackedTextIsOwedAPurge'
  BY DEF TextIsPublished, OwedAreIssued, UnbackedTextIsOwedAPurge, Backed, Having, IsActive
<1> QED BY <1>1, <1>2, RowsStand DEF Stands

\* A row is republished for a learning, and the purges that are owed stay owed.
LEMMA DeliverIndexStands ==
    ASSUME ProjectionInv, NEW d \in owed, DeliverIndex(d) PROVE Stands
<1> USE ProjectionAssumption DEF ProjectionInv
<1> DEFINE k == learn[d.of].key
<1>1. /\ k \in Keys /\ d.op = "index" /\ owed' = owed \ {d}
      /\ doc' = [doc EXCEPT ![k].page = MetaPage(k), ![k].text = TRUE]
      /\ stale' = IF Backed(learn, k) THEN stale ELSE stale \cup {k}
      /\ UNCHANGED <<learn, nLearn, sweep, faults>>
  BY DEF DeliverIndex, TypeOK, Delivery, Learning
<1> HIDE DEF k
<1>2. /\ doc' \in [Keys -> Document] /\ \A j \in Keys : j # k => doc'[j] = doc[j]
      /\ doc'[k].text /\ doc'[k].page = MetaPage(k)
  <2>1. doc \in [Keys -> Document] /\ doc[k] \in Document
    BY <1>1 DEF TypeOK
  <2>2. doc' = [doc EXCEPT ![k] = [doc[k] EXCEPT !.page = MetaPage(k), !.text = TRUE]]
    BY <1>1, <2>1
  <2>3. /\ [doc[k] EXCEPT !.page = MetaPage(k), !.text = TRUE] \in Document
        /\ [doc[k] EXCEPT !.page = MetaPage(k), !.text = TRUE].text
        /\ [doc[k] EXCEPT !.page = MetaPage(k), !.text = TRUE].page = MetaPage(k)
    BY <2>1 DEF Document, MetaPage
  <2> QED BY <1>1, <2>1, <2>2, <2>3
<1>3. TypeOK'
  BY <1>1, <1>2 DEF TypeOK
<1>4. TextIsPublished' /\ OwedAreIssued'
  BY <1>1, <1>2 DEF TextIsPublished, OwedAreIssued, MetaPage
<1>5. UnbackedTextIsOwedAPurge'
  <2> SUFFICES ASSUME NEW j \in Keys, doc'[j].text, ~Backed(learn, j)
               PROVE  \/ j \in stale'
                      \/ \E e \in owed' : e.op = "purge" /\ learn[e.of].key = j
    BY <1>1 DEF UnbackedTextIsOwedAPurge, Backed, Having, IsActive
  <2>1. CASE j = k
    BY <1>1, <2>1
  <2>2. CASE j # k
    BY <1>1, <1>2, <2>2 DEF UnbackedTextIsOwedAPurge
  <2> QED BY <2>1, <2>2
<1>6. TextEarned
  BY <1>1, <1>2 DEF TextEarned, Closed
<1> QED BY <1>3, <1>4, <1>5, <1>6 DEF Stands

\* A purge spares the row of a learning that lives, and takes the text otherwise.
LEMMA PurgedRowKept ==
    ASSUME ProjectionInv, NEW k \in Keys
    PROVE  /\ PurgedRow(k) \in Document
           /\ PurgedRow(k).text => PurgedRow(k) = doc[k] /\ Backed(learn, k)
           /\ ActiveNode(learn, k) /\ ~Closed(doc[k]) => PurgedRow(k) = doc[k]
           /\ doc[k].page = "superseded" => PurgedRow(k).page # "accepted"
<1> USE DEF ProjectionInv
<1>1. doc[k] \in Document /\ Successor(learn, k) \in Keys \cup {NoKey}
  BY SuccessorIsKey DEF TypeOK
<1>2. ActiveNode(learn, k) => Backed(learn, k) /\ Mapped(learn, k) # {}
  BY DEF ActiveNode, Backed, Mapped
<1>3. CASE Mapped(learn, k) = {}
  BY <1>2, <1>3 DEF PurgedRow, NoDocument, Document
<1>4. CASE Mapped(learn, k) # {} /\ ActiveNode(learn, k) /\ ~Closed(doc[k])
  BY <1>1, <1>2, <1>4 DEF PurgedRow, Closed
<1>5. CASE Mapped(learn, k) # {} /\ Closed(doc[k])
  <2>1. PurgedRow(k) = [doc[k] EXCEPT !.text = FALSE]
    BY <1>5 DEF PurgedRow
  <2> QED BY <1>1, <1>5, <2>1 DEF Document, Closed
<1>6. CASE Mapped(learn, k) # {} /\ ~ActiveNode(learn, k) /\ ~Closed(doc[k])
  <2>1. PurgedRow(k) = [doc[k] EXCEPT !.text = FALSE, !.page = "superseded",
                                      !.sup = Successor(learn, k)]
    BY <1>6 DEF PurgedRow
  <2> QED BY <1>1, <1>6, <2>1 DEF Document
<1> QED BY <1>3, <1>4, <1>5, <1>6

LEMMA DeliverPurgeStands ==
    ASSUME ProjectionInv, NEW d \in owed, DeliverPurge(d) PROVE Stands
<1> USE ProjectionAssumption DEF ProjectionInv
<1> DEFINE k == learn[d.of].key
<1>1. /\ k \in Keys /\ d.op = "purge" /\ owed' = owed \ {d}
      /\ doc' = [doc EXCEPT ![k] = PurgedRow(k)]
      /\ stale' = IF doc'[k].text THEN stale ELSE stale \ {k}
      /\ UNCHANGED <<learn, nLearn, sweep, faults>>
  BY DEF DeliverPurge, TypeOK, Delivery, Learning
<1>2. /\ doc' \in [Keys -> Document] /\ \A j \in Keys : j # k => doc'[j] = doc[j]
      /\ doc'[k] = PurgedRow(k)
  <2> HIDE DEF k
  <2> QED BY <1>1, PurgedRowKept DEF TypeOK
<1>3. \A e \in owed : learn[e.of].key # k => e \in owed'
  BY <1>1
<1> HIDE DEF k
<1>4. TypeOK'
  BY <1>1, <1>2 DEF TypeOK
<1>5. TextIsPublished' /\ OwedAreIssued'
  BY <1>1, <1>2, PurgedRowKept DEF TextIsPublished, OwedAreIssued
<1>6. UnbackedTextIsOwedAPurge'
  <2> SUFFICES ASSUME NEW j \in Keys, doc'[j].text, ~Backed(learn, j)
               PROVE  \/ j \in stale'
                      \/ \E e \in owed' : e.op = "purge" /\ learn[e.of].key = j
    BY <1>1 DEF UnbackedTextIsOwedAPurge, Backed, Having, IsActive
  <2>1. j # k
    BY <1>2, PurgedRowKept
  <2> QED BY <1>1, <1>2, <1>3, <2>1 DEF UnbackedTextIsOwedAPurge
<1>7. TextEarned
  <2> SUFFICES ASSUME NEW j \in Keys
               PROVE  /\ /\ doc[j].text /\ ~Closed(doc[j])
                         /\ \E l \in Mapped(learn, j) : IsActive(learn, l) /\ IsActive(learn', l)
                         => doc'[j].text
                      /\ ~doc[j].text => ~doc'[j].text
                      /\ doc[j].page = "superseded" => doc'[j].page # "accepted"
    BY DEF TextEarned
  <2>1. CASE j # k
    BY <1>2, <2>1
  <2>2. CASE j = k
    BY <1>1, <1>2, <2>2, PurgedRowKept DEF ActiveNode
  <2> QED BY <2>1, <2>2
<1> QED BY <1>4, <1>5, <1>6, <1>7 DEF Stands

\* What a lost purge leaves is marked: the proviso of UnbackedTextIsOwedAPurge.
LEMMA LoseDeliveryStands ==
    ASSUME ProjectionInv, NEW d \in owed, LoseDelivery(d) PROVE Stands
<1> USE ProjectionAssumption DEF ProjectionInv
<1> DEFINE k == learn[d.of].key
<1>1. /\ k \in Keys /\ owed' = owed \ {d}
      /\ stale' = IF d.op = "purge" /\ doc[k].text /\ ~Backed(learn, k)
                  THEN stale \cup {k} ELSE stale
      /\ UNCHANGED <<learn, doc, nLearn, sweep>>
  BY DEF LoseDelivery, TypeOK, Delivery, Learning
<1>2. faults' \in 0..MaxFaults
  BY DEF LoseDelivery, TypeOK
<1>3. \A e \in owed : e.op = "purge" /\ learn[e.of].key # k => e \in owed'
  BY <1>1
<1>4. \A e \in owed : e.op = "purge" /\ d.op # "purge" => e \in owed'
  BY <1>1
<1> HIDE DEF k
<1>5. TypeOK'
  BY <1>1, <1>2 DEF TypeOK
<1>6. TextIsPublished' /\ OwedAreIssued'
  BY <1>1 DEF TextIsPublished, OwedAreIssued
<1>7. UnbackedTextIsOwedAPurge'
  <2> SUFFICES ASSUME NEW j \in Keys, doc[j].text, ~Backed(learn, j)
               PROVE  \/ j \in stale'
                      \/ \E e \in owed' : e.op = "purge" /\ learn[e.of].key = j
    BY <1>1 DEF UnbackedTextIsOwedAPurge, Backed, Having, IsActive
  <2>1. stale \subseteq stale'
    BY <1>1
  <2>2. CASE d.op = "purge" /\ j = k
    BY <1>1, <2>2
  <2>3. CASE ~(d.op = "purge" /\ j = k)
    BY <1>3, <1>4, <2>1, <2>3 DEF UnbackedTextIsOwedAPurge
  <2> QED BY <2>2, <2>3
<1> QED BY <1>1, <1>5, <1>6, <1>7, RowsStand DEF Stands

LEMMA SweepStands ==
    ASSUME ProjectionInv, ReadBatch \/ LookAtRow \/ FailRepair PROVE Stands
<1> USE ProjectionAssumption DEF ProjectionInv
<1>1. sweep \in Sweep /\ faults \in 0..MaxFaults
  BY DEF TypeOK
<1>2. CASE ReadBatch
  <2> DEFINE tail == SweepRows(sweep.cursor)
             rows == IF tail = {} THEN SweepRows(0) ELSE tail
             head == {l \in rows : Cardinality({x \in rows : x <= l}) <= Batch}
  <2>1. /\ sweep' = [sweep EXCEPT !.todo = head, !.cursor = Max(head \cup {0})]
        /\ UNCHANGED <<learn, doc, nLearn, owed, stale, faults>>
    BY <1>2 DEF ReadBatch
  <2>2. head \subseteq LearnIds
    BY DEF SweepRows
  <2> HIDE DEF head
  <2>3. head \cup {0} \in SUBSET (0..MaxLearn) /\ head \cup {0} # {}
    BY <2>2 DEF LearnIds
  <2>4. Max(head \cup {0}) \in 0..MaxLearn
    BY <2>3, MaxOf
  <2>5. sweep' \in Sweep
    BY <1>1, <2>1, <2>2, <2>4 DEF Sweep
  <2> QED BY <1>1, <2>1, <2>5, QuietStands
<1>3. CASE LookAtRow
  <2>1. sweep.todo # {} /\ sweep.todo \in SUBSET Nat /\ sweep.todo \subseteq LearnIds
    BY <1>1, <1>3 DEF LookAtRow, Sweep, LearnIds
  <2>2. Min(sweep.todo) \in LearnIds /\ Min(sweep.todo) \in 0..MaxLearn
    BY <2>1, MinOf DEF LearnIds
  <2>3. PICK c \in {0, Min(sweep.todo)} :
           sweep' = [sweep EXCEPT !.todo = @ \ {Min(sweep.todo)}, !.cur = c]
    BY <1>3 DEF LookAtRow
  <2>4. sweep' \in Sweep
    <3>1. c \in 0..MaxLearn /\ sweep.todo \ {Min(sweep.todo)} \in SUBSET LearnIds
      BY <2>1, <2>2, <2>3
    <3> DEFINE T == sweep.todo \ {Min(sweep.todo)}
    <3>2. sweep' = [sweep EXCEPT !.todo = T, !.cur = c] /\ T \in SUBSET LearnIds
      BY <2>3, <3>1
    <3> HIDE DEF T
    <3> QED BY <1>1, <3>1, <3>2 DEF Sweep
  <2> QED BY <1>1, <1>3, <2>4, QuietStands DEF LookAtRow
<1>4. CASE FailRepair
  <2>1. sweep' \in Sweep
    BY <1>1, <1>4 DEF FailRepair, Sweep
  <2>2. faults' \in 0..MaxFaults
    BY <1>1, <1>4 DEF FailRepair
  <2> QED BY <1>4, <2>1, <2>2, QuietStands DEF FailRepair
<1> QED BY <1>2, <1>3, <1>4

\* The repair reads liveness and state again where it writes.
LEMMA CommitRepairStands ==
    ASSUME ProjectionInv, CommitRepair PROVE Stands
<1> USE ProjectionAssumption DEF ProjectionInv
<1> DEFINE k == learn[sweep.cur].key
<1>1. sweep \in Sweep /\ sweep.cur \in LearnIds
  BY DEF CommitRepair, TypeOK, Sweep, LearnIds
<1>2. /\ k \in Keys /\ doc' = [doc EXCEPT ![k] = RepairedRow(k)]
      /\ sweep' = [sweep EXCEPT !.cur = 0]
      /\ UNCHANGED <<learn, nLearn, owed, stale, faults>>
  BY <1>1 DEF CommitRepair, TypeOK, Learning
<1>3. sweep' \in Sweep
  BY <1>1, <1>2 DEF Sweep
<1> HIDE DEF k
<1>4. /\ RepairedRow(k) \in Document
      /\ RepairedRow(k) # doc[k] => /\ Backed(learn, k) /\ ~doc[k].text /\ ~Closed(doc[k])
                                    /\ RepairedRow(k).text
                                    /\ RepairedRow(k).page \in {"accepted", "draft"}
  <2>1. doc[k] \in Document
    BY <1>2 DEF TypeOK
  <2>2. CASE ~Backed(learn, k) \/ doc[k].text \/ Closed(doc[k])
    BY <2>1, <2>2 DEF RepairedRow
  <2>3. CASE ~(~Backed(learn, k) \/ doc[k].text \/ Closed(doc[k]))
    <3> DEFINE p == IF doc[k].page = "none" THEN MetaPage(k) ELSE doc[k].page
    <3>1. RepairedRow(k) = [doc[k] EXCEPT !.page = p, !.text = TRUE]
      BY <2>3 DEF RepairedRow
    <3>2. p \in {"accepted", "draft"}
      BY <2>1, <2>3 DEF MetaPage, Closed, Document
    <3> HIDE DEF p
    <3> QED BY <2>1, <2>3, <3>1, <3>2 DEF Document
  <2> QED BY <2>2, <2>3
<1>5. doc' \in [Keys -> Document] /\ \A j \in Keys : doc'[j] = IF j = k THEN RepairedRow(k) ELSE doc[j]
  BY <1>2, <1>4 DEF TypeOK
<1>6. TypeOK'
  BY <1>2, <1>3, <1>5 DEF TypeOK
<1>7. TextIsPublished' /\ OwedAreIssued'
  BY <1>2, <1>4, <1>5 DEF TextIsPublished, OwedAreIssued
<1>8. UnbackedTextIsOwedAPurge'
  <2> SUFFICES ASSUME NEW j \in Keys, doc'[j].text, ~Backed(learn, j)
               PROVE  \/ j \in stale
                      \/ \E e \in owed : e.op = "purge" /\ learn[e.of].key = j
    BY <1>2 DEF UnbackedTextIsOwedAPurge, Backed, Having, IsActive
  <2>1. doc'[j] = doc[j]
    BY <1>4, <1>5
  <2> QED BY <2>1 DEF UnbackedTextIsOwedAPurge
<1>9. TextEarned
  <2> SUFFICES ASSUME NEW j \in Keys
               PROVE  /\ doc[j].text => doc'[j].text
                      /\ ~doc[j].text /\ doc'[j].text => Backed(learn, j) /\ ~Closed(doc[j])
                      /\ doc[j].page = "superseded" => doc'[j].page # "accepted"
    BY DEF TextEarned
  <2>1. CASE doc'[j] = doc[j]
    BY <2>1
  <2>2. CASE doc'[j] # doc[j]
    BY <1>4, <1>5, <2>2 DEF Closed
  <2> QED BY <2>1, <2>2
<1> QED BY <1>6, <1>7, <1>8, <1>9 DEF Stands

LEMMA RestartStands == ASSUME ProjectionInv, Restart PROVE Stands
<1> USE ProjectionAssumption DEF ProjectionInv
<1>1. /\ owed' = {} /\ sweep' = [todo |-> {}, cur |-> 0, cursor |-> 0]
      /\ stale' = stale \cup {k \in Keys : /\ doc[k].text /\ ~Backed(learn, k)
                                           /\ \E d \in owed : d.op = "purge" /\ learn[d.of].key = k}
      /\ UNCHANGED <<learn, doc, nLearn>>
  BY DEF Restart
<1>2. faults' \in 0..MaxFaults /\ sweep' \in Sweep
  BY <1>1 DEF Restart, TypeOK, Sweep
<1>3. TypeOK'
  BY <1>1, <1>2 DEF TypeOK
<1>4. TextIsPublished' /\ OwedAreIssued'
  BY <1>1 DEF TextIsPublished, OwedAreIssued
<1>5. UnbackedTextIsOwedAPurge'
  BY <1>1 DEF UnbackedTextIsOwedAPurge, Backed, Having, IsActive
<1> QED BY <1>1, <1>3, <1>4, <1>5, RowsStand DEF Stands

LEMMA ProjectionStep ==
    ASSUME ProjectionInv, [Next]_vars PROVE ProjectionInv' /\ [TextEarned]_vars
<1>1. ASSUME NEW k \in Keys, NEW older \in 0..MaxLearn, Learn(k, older) PROVE Stands
  BY <1>1, LearnStands
<1>2. ASSUME NEW k \in Keys, NEW old \in SUBSET LearnIds, Correct(k, old) PROVE Stands
  BY <1>2, CorrectStands
<1>3. ASSUME NEW d \in owed, DeliverIndex(d) \/ DeliverPurge(d) \/ LoseDelivery(d) PROVE Stands
  BY <1>3, DeliverIndexStands, DeliverPurgeStands, LoseDeliveryStands
<1>4. CASE ReadBatch \/ LookAtRow \/ CommitRepair \/ FailRepair \/ Restart
  BY <1>4, SweepStands, CommitRepairStands, RestartStands DEF Stands
<1>5. CASE UNCHANGED vars
  <2>1. sweep' \in Sweep /\ faults' \in 0..MaxFaults
    BY <1>5 DEF vars, ProjectionInv, TypeOK
  <2> QED BY <1>5, <2>1, QuietStands DEF vars, Stands
<1> QED BY <1>1, <1>2, <1>3, <1>4, <1>5 DEF Next, Stands

-----------------------------------------------------------------------------
(* Theorems *)

\* TypeOK: rows, deliveries and the sweep keep the shapes that the schema and
\* the handlers give them.
THEOREM ProjectionTypes == Spec => []TypeOK
<1>1. ProjectionInv /\ [Next]_vars => ProjectionInv'
  BY ProjectionStep
<1>2. ProjectionInv => TypeOK
  BY DEF ProjectionInv
<1> QED BY ProjectionInitInv, <1>1, <1>2, PTL DEF Spec

\* TextFollowsStatus (purge_durable_document, index_durable_document): a row
\* retired as superseded has no text, and text that no active learning backs is
\* owed a purge or was left by one of the ways that nothing purges, however
\* commits, deliveries, the repair sweep, failures and restarts interleave.
THEOREM StatusRulesText == Spec => []TextFollowsStatus
<1>1. ProjectionInv /\ [Next]_vars => ProjectionInv'
  BY ProjectionStep
<1>2. ProjectionInv => TextFollowsStatus
  BY DEF ProjectionInv, TextFollowsStatus, RetiredHasNoText, TextIsPublished
<1> QED BY ProjectionInitInv, <1>1, <1>2, PTL DEF Spec

\* TextIsEarned (purge_durable_document's N:1 liveness, backfill,
\* _reconcile_new_active_mapping): no step takes the text from a learning that
\* stays active and mapped, the repair revives no row whose learning is gone or
\* that was closed meanwhile, and a commit reopens a retired row only for a
\* learning that is active and mapped to it.
THEOREM EveryTextIsEarned == Spec => TextIsEarned
<1>1. ProjectionInv /\ [Next]_vars => ProjectionInv' /\ [TextEarned]_vars
  BY ProjectionStep
<1>2. [TextEarned]_vars => [\A k \in Keys :
          /\ /\ doc[k].text /\ ~Closed(doc[k])
             /\ \E l \in Mapped(learn, k) : IsActive(learn, l) /\ IsActive(learn', l)
             => doc'[k].text
          /\ ~doc[k].text /\ doc'[k].text /\ owed' = owed =>
                 Backed(learn, k) /\ ~Closed(doc[k])
          /\ doc[k].page = "superseded" /\ doc'[k].page = "accepted" /\ ~doc'[k].text =>
                 \E l \in Mapped(learn', k) : IsActive(learn', l)]_vars
  BY DEF TextEarned
<1> QED BY ProjectionInitInv, <1>1, <1>2, PTL DEF Spec, TextIsEarned

-----------------------------------------------------------------------------
(* The inbox: InboxFiles. Finite sets first. *)

\* What a function makes of a finite set is finite.
LEMMA ImageIsFinite ==
    ASSUME NEW S, IsFiniteSet(S), NEW f, DOMAIN f = S
    PROVE  IsFiniteSet({f[x] : x \in S})
<1> DEFINE T == {f[x] : x \in S}
           h == [x \in S |-> f[x]]
<1>1. h \in Surjection(S, T)
  BY DEF Surjection
<1> HIDE DEF h, T
<1>2. IsFiniteSet(T)
  BY <1>1, FS_Surjection
<1> QED BY <1>2 DEF T

\* The greatest of a finite set of integers.
LEMMA GreatestOf ==
    ASSUME NEW S \in SUBSET Int, IsFiniteSet(S), S # {}
    PROVE  Max(S) \in S /\ \A y \in S : y <= Max(S)
<1> DEFINE R == StrictSubsetOrdering(S)
           Above(x) == {y \in S : x < y}
           T == {Above(x) : x \in S}
<1>1. IsWellFoundedOn(R, FiniteSubsetsOf(S))
  BY FS_StrictSubsetOrderingWellFounded
<1>2. T \subseteq FiniteSubsetsOf(S) /\ T # {}
  <2>1. ASSUME NEW x \in S PROVE Above(x) \in FiniteSubsetsOf(S)
    <3>1. Above(x) \subseteq S
      OBVIOUS
    <3>2. IsFiniteSet(Above(x))
      BY <3>1, FS_Subset
    <3> QED BY <3>1, <3>2 DEF FiniteSubsetsOf
  <2> QED BY <2>1
<1>3. PICK t \in T : \A u \in T : <<u, t>> \notin R
  <2> HIDE DEF R, T
  <2> QED BY <1>1, <1>2, WFMin
<1>4. PICK x \in S : t = Above(x)
  OBVIOUS
<1>5. ASSUME NEW y \in S PROVE x >= y
  <2>1. <<Above(y), Above(x)>> \notin R
    BY <1>3, <1>4
  <2>2. Above(y) \in SUBSET S /\ Above(x) \in SUBSET S
    OBVIOUS
  <2>3. Above(y) \subseteq Above(x) => Above(y) = Above(x)
    BY <2>1, <2>2 DEF StrictSubsetOrdering
  <2>4. CASE x < y
    <3>1. \A z \in S : z \in Int
      OBVIOUS
    <3>2. ASSUME NEW z \in S, y < z PROVE x < z
      BY <2>4, <3>1, <3>2
    <3>3. Above(y) \subseteq Above(x)
      BY <3>2
    <3>4. y \in Above(x)
      BY <2>4
    <3>5. y \notin Above(y)
      BY <3>1
    <3> QED BY <2>3, <3>3, <3>4, <3>5
  <2>5. x \in Int /\ y \in Int
    OBVIOUS
  <2> QED BY <2>4, <2>5
<1>6. Max(S) \in S /\ \A y \in S : Max(S) >= y
  BY <1>5 DEF Max
<1>7. ASSUME NEW y \in S PROVE y <= Max(S)
  <2>1. y \in Int /\ Max(S) \in Int /\ Max(S) >= y
    BY <1>6
  <2> QED BY <2>1
<1> QED BY <1>6, <1>7

-----------------------------------------------------------------------------
(* The slots of a batch *)

Request == [at : Nat \X Nat, slot : Nat, from : VaultSet, text : Texts]
Packet == [group : Groups, slot : Nat, text : Texts, from : VaultSet, resolved : BOOLEAN]

\* The requests of a file name, each found at a place of its own.
RequestsOK(req) ==
    /\ req \in SUBSET Request /\ IsFiniteSet(req)
    /\ \A r, s \in req : r.at = s.at => r = s
RowsOK(rows) == rows \in SUBSET Packet /\ IsFiniteSet(rows)

\* The places are ordered.
LEMMA PlacesAreOrdered ==
    ASSUME NEW req, RequestsOK(req), NEW r \in req, NEW s \in req
    PROVE  /\ r # s => Before(r, s) \/ Before(s, r)
           /\ ~(Before(r, s) /\ Before(s, r))
           /\ \A x \in req : Before(x, r) /\ Before(r, s) => Before(x, s)
<1>1. ASSUME NEW x \in req PROVE x.at \in Nat \X Nat /\ x.at[1] \in Nat /\ x.at[2] \in Nat
  BY DEF RequestsOK, Request
<1>2. r.at = s.at => r = s
  BY DEF RequestsOK
<1>3. r.at[1] = s.at[1] /\ r.at[2] = s.at[2] => r.at = s.at
  BY <1>1
<1>4. r # s => Before(r, s) \/ Before(s, r)
  BY <1>1, <1>2, <1>3 DEF Before
<1>5. ~(Before(r, s) /\ Before(s, r))
  BY <1>1 DEF Before
<1>6. ASSUME NEW x \in req, Before(x, r), Before(r, s) PROVE Before(x, s)
  BY <1>1, <1>6 DEF Before
<1> QED BY <1>4, <1>5, <1>6

\* The last slot in use is behind those of the packets and of the requests
\* that keep theirs.
LEMMA LastSlotBounds ==
    ASSUME NEW req, NEW rows, RequestsOK(req), RowsOK(rows)
    PROVE  /\ LastSlot(req, rows) \in Int /\ LastSlot(req, rows) >= -1
           /\ \A p \in rows : p.slot <= LastSlot(req, rows)
           /\ \A r \in req : Keeps(r, req, rows) => r.slot <= LastSlot(req, rows)
<1> DEFINE held == {p.slot : p \in rows}
           kept == {s \in req : Keeps(s, req, rows)}
           keptSlots == {r.slot : r \in kept}
           S == held \cup {-1} \cup keptSlots
<1>1. held \subseteq Int
  BY DEF RowsOK, Packet
<1>2. keptSlots \subseteq Int
  BY DEF RequestsOK, Request
<1>3. IsFiniteSet(held)
  <2> DEFINE f == [p \in rows |-> p.slot]
  <2>1. IsFiniteSet({f[p] : p \in rows})
    BY ImageIsFinite DEF RowsOK
  <2>2. {f[p] : p \in rows} = held
    OBVIOUS
  <2> QED BY <2>1, <2>2
<1>4. IsFiniteSet(kept)
  BY FS_Subset DEF RequestsOK
<1>5. IsFiniteSet(keptSlots)
  <2> DEFINE f == [r \in kept |-> r.slot]
  <2> HIDE DEF kept
  <2>1. IsFiniteSet({f[r] : r \in kept})
    BY <1>4, ImageIsFinite
  <2>2. {f[r] : r \in kept} = keptSlots
    OBVIOUS
  <2> QED BY <2>1, <2>2
<1>6. S \in SUBSET Int /\ S # {} /\ -1 \in S
  BY <1>1, <1>2
<1>7. IsFiniteSet(S)
  <2> HIDE DEF held, keptSlots
  <2>1. IsFiniteSet({-1})
    BY FS_Singleton
  <2>2. IsFiniteSet(held \cup {-1})
    BY <1>3, <2>1, FS_Union
  <2> QED BY <1>5, <2>2, FS_Union
<1>8. LastSlot(req, rows) = Max(S)
  BY DEF LastSlot
<1>9. Max(S) \in S /\ \A y \in S : y <= Max(S)
  <2> HIDE DEF S
  <2> QED BY <1>6, <1>7, GreatestOf
<1>10. LastSlot(req, rows) \in Int /\ \A y \in S : y <= LastSlot(req, rows)
  <2> HIDE DEF S
  <2> QED BY <1>6, <1>8, <1>9
<1>11. LastSlot(req, rows) >= -1
  <2> HIDE DEF S
  <2>1. -1 <= LastSlot(req, rows)
    BY <1>6, <1>10
  <2> QED BY <1>10, <2>1
<1>12. ASSUME NEW p \in rows PROVE p.slot <= LastSlot(req, rows)
  <2>1. p.slot \in S
    OBVIOUS
  <2> QED BY <1>10, <2>1
<1>13. ASSUME NEW r \in req, Keeps(r, req, rows) PROVE r.slot <= LastSlot(req, rows)
  <2>1. r.slot \in S
    BY <1>13
  <2> QED BY <1>10, <2>1
<1> QED BY <1>10, <1>11, <1>12, <1>13

\* The extras are counted in their order.
LEMMA ExtrasAreCounted ==
    ASSUME NEW req, NEW rows, RequestsOK(req),
           NEW r \in req, Extra(r, req, rows)
    PROVE  /\ Cardinality(ExtrasTo(r, req, rows)) \in Nat \ {0}
           /\ \A s \in req : Extra(s, req, rows) /\ Before(r, s) =>
                Cardinality(ExtrasTo(r, req, rows)) < Cardinality(ExtrasTo(s, req, rows))
<1>1. ASSUME NEW s \in req
      PROVE  IsFiniteSet(ExtrasTo(s, req, rows)) /\ Cardinality(ExtrasTo(s, req, rows)) \in Nat
  <2>1. IsFiniteSet(ExtrasTo(s, req, rows))
    BY FS_Subset DEF RequestsOK, ExtrasTo
  <2> QED BY <2>1, FS_CardinalityType
<1>2. r \in ExtrasTo(r, req, rows)
  BY DEF ExtrasTo
<1>3. Cardinality(ExtrasTo(r, req, rows)) # 0
  BY <1>1, <1>2, FS_EmptySet
<1>4. ASSUME NEW s \in req, Extra(s, req, rows), Before(r, s)
      PROVE  Cardinality(ExtrasTo(r, req, rows)) < Cardinality(ExtrasTo(s, req, rows))
  <2>1. ExtrasTo(r, req, rows) \subseteq ExtrasTo(s, req, rows)
    <3>1. ASSUME NEW x \in ExtrasTo(r, req, rows) PROVE x \in ExtrasTo(s, req, rows)
      <4>1. x \in req /\ Extra(x, req, rows) /\ (x = r \/ Before(x, r))
        BY DEF ExtrasTo
      <4>2. Before(x, s)
        BY <1>4, <4>1, PlacesAreOrdered
      <4> QED BY <4>1, <4>2 DEF ExtrasTo
    <3> QED BY <3>1
  <2>2. s \in ExtrasTo(s, req, rows)
    BY <1>4 DEF ExtrasTo
  <2>3. s \notin ExtrasTo(r, req, rows)
    <3>1. s # r /\ ~Before(s, r)
      BY <1>4, PlacesAreOrdered
    <3> QED BY <3>1 DEF ExtrasTo
  <2>4. /\ Cardinality(ExtrasTo(r, req, rows)) <= Cardinality(ExtrasTo(s, req, rows))
        /\ Cardinality(ExtrasTo(r, req, rows)) = Cardinality(ExtrasTo(s, req, rows))
             => ExtrasTo(r, req, rows) = ExtrasTo(s, req, rows)
    BY <1>1, <2>1, FS_Subset
  <2> QED BY <1>1, <2>2, <2>3, <2>4
<1> QED BY <1>1, <1>3, <1>4

\* A request gets a slot, or -1 if its text is there already.
LEMMA SlotsAreNatural ==
    ASSUME NEW req, NEW rows, RequestsOK(req), RowsOK(rows), NEW r \in req
    PROVE  /\ AssignFillIndices(req, rows)[r] # -1 => New(r, req, rows)
           /\ New(r, req, rows) => AssignFillIndices(req, rows)[r] \in Nat
           /\ Keeps(r, req, rows) => AssignFillIndices(req, rows)[r] = r.slot
           /\ Extra(r, req, rows) =>
                AssignFillIndices(req, rows)[r]
                  = LastSlot(req, rows) + Cardinality(ExtrasTo(r, req, rows))
<1> DEFINE a == AssignFillIndices(req, rows)[r]
<1>1. a = IF Keeps(r, req, rows) THEN r.slot
          ELSE IF Extra(r, req, rows) THEN LastSlot(req, rows) + Cardinality(ExtrasTo(r, req, rows))
          ELSE -1
  BY DEF AssignFillIndices
<1>2. New(r, req, rows) <=> Keeps(r, req, rows) \/ Extra(r, req, rows)
  BY DEF Extra, Keeps
<1>3. Extra(r, req, rows) => ~Keeps(r, req, rows)
  BY DEF Extra
<1>4. ASSUME Keeps(r, req, rows) PROVE a = r.slot /\ a \in Nat
  <2>1. r.slot \in Nat
    BY DEF RequestsOK, Request
  <2> QED BY <1>1, <1>4, <2>1
<1>5. ASSUME Extra(r, req, rows)
      PROVE  /\ a = LastSlot(req, rows) + Cardinality(ExtrasTo(r, req, rows))
             /\ a \in Nat
  <2>1. Cardinality(ExtrasTo(r, req, rows)) \in Nat \ {0}
    BY <1>5, ExtrasAreCounted
  <2>2. LastSlot(req, rows) \in Int /\ LastSlot(req, rows) >= -1
    BY LastSlotBounds
  <2>3. a = LastSlot(req, rows) + Cardinality(ExtrasTo(r, req, rows))
    BY <1>1, <1>3, <1>5
  <2> HIDE DEF a
  <2> QED BY <2>1, <2>2, <2>3
<1>6. a # -1 => New(r, req, rows)
  BY <1>1, <1>2
<1> HIDE DEF a
<1>7. /\ a # -1 => New(r, req, rows)
      /\ New(r, req, rows) => a \in Nat
      /\ Keeps(r, req, rows) => a = r.slot
      /\ Extra(r, req, rows) => a = LastSlot(req, rows) + Cardinality(ExtrasTo(r, req, rows))
  BY <1>2, <1>4, <1>5, <1>6
<1> QED BY <1>7 DEF a

\* No two new requests share a text, or are given the same slot.
LEMMA SlotsAreDistinct ==
    ASSUME NEW req, NEW rows, RequestsOK(req), RowsOK(rows), NEW r \in req, NEW s \in req,
           New(r, req, rows), New(s, req, rows), r # s
    PROVE  /\ r.text # s.text
           /\ AssignFillIndices(req, rows)[r] # AssignFillIndices(req, rows)[s]
<1> DEFINE last == LastSlot(req, rows)
           count(x) == Cardinality(ExtrasTo(x, req, rows))
           a(x) == AssignFillIndices(req, rows)[x]
<1>1. Before(r, s) \/ Before(s, r)
  BY PlacesAreOrdered
<1>2. r.text # s.text
  BY <1>1 DEF New
<1>3. ASSUME NEW x \in req, NEW y \in req, New(x, req, rows), New(y, req, rows), Before(x, y)
      PROVE  a(x) # a(y)
  <2>1. last \in Int
    BY LastSlotBounds
  <2>2. ASSUME NEW z \in req, New(z, req, rows)
        PROVE  \/ Keeps(z, req, rows) /\ a(z) = z.slot /\ z.slot \in Nat /\ z.slot <= last
               \/ Extra(z, req, rows) /\ count(z) \in Nat \ {0} /\ a(z) = last + count(z)
    <3>1. Keeps(z, req, rows) \/ Extra(z, req, rows)
      BY <2>2 DEF Extra
    <3>2. CASE Keeps(z, req, rows)
      <4>1. a(z) = z.slot
        BY <3>2, SlotsAreNatural
      <4>2. z.slot \in Nat
        BY DEF RequestsOK, Request
      <4>3. z.slot <= last
        BY <3>2, LastSlotBounds
      <4> HIDE DEF a, last
      <4> QED BY <3>2, <4>1, <4>2, <4>3
    <3>3. CASE Extra(z, req, rows)
      <4>1. a(z) = last + count(z)
        BY <3>3, SlotsAreNatural
      <4>2. count(z) \in Nat \ {0}
        BY <3>3, ExtrasAreCounted
      <4> HIDE DEF a, last, count
      <4> QED BY <3>3, <4>1, <4>2
    <3> QED BY <3>1, <3>2, <3>3
  <2>3. Keeps(y, req, rows) => x.slot # y.slot
    BY <1>3 DEF Keeps
  <2>4. ASSUME Extra(x, req, rows), Extra(y, req, rows) PROVE count(x) < count(y)
    BY <1>3, <2>4, ExtrasAreCounted
  <2>5. /\ \/ Keeps(x, req, rows) /\ a(x) = x.slot /\ x.slot \in Nat /\ x.slot <= last
           \/ Extra(x, req, rows) /\ count(x) \in Nat \ {0} /\ a(x) = last + count(x)
        /\ \/ Keeps(y, req, rows) /\ a(y) = y.slot /\ y.slot \in Nat /\ y.slot <= last
           \/ Extra(y, req, rows) /\ count(y) \in Nat \ {0} /\ a(y) = last + count(y)
    BY <1>3, <2>2
  <2> HIDE DEF a, last, count
  <2> QED BY <2>1, <2>3, <2>4, <2>5
<1>4. a(r) # a(s)
  BY <1>1, <1>3
<1> QED BY <1>2, <1>4

\* What is placed are new texts in free slots, each once.
LEMMA PlacedAreNew ==
    ASSUME NEW req, NEW rows, RequestsOK(req), RowsOK(rows)
    PROVE  /\ RequestsOK(Placed(req, rows))
           /\ \A x \in Placed(req, rows), p \in rows : p.text # x.text /\ p.slot # x.slot
           /\ \A x, y \in Placed(req, rows) : x.slot = y.slot \/ x.text = y.text => x = y
<1> DEFINE a == AssignFillIndices(req, rows)
           new == {s \in req : a[s] # -1}
           f == [r \in new |-> [r EXCEPT !.slot = a[r]]]
<1>1. Placed(req, rows) = {f[r] : r \in new}
  BY DEF Placed
<1>2. IsFiniteSet(new)
  BY FS_Subset DEF RequestsOK
<1>3. IsFiniteSet(Placed(req, rows))
  <2>1. DOMAIN f = new
    OBVIOUS
  <2> HIDE DEF f, new
  <2>2. IsFiniteSet({f[r] : r \in new})
    BY <1>2, <2>1, ImageIsFinite
  <2> QED BY <1>1, <2>2
<1>4. ASSUME NEW r \in new
      PROVE  /\ r \in req /\ New(r, req, rows) /\ f[r] \in Request
             /\ f[r].at = r.at /\ f[r].text = r.text /\ f[r].slot = a[r] /\ a[r] \in Nat
  <2>1. r \in req /\ a[r] # -1 /\ r \in Request
    BY DEF RequestsOK
  <2>2. New(r, req, rows)
    BY <2>1, SlotsAreNatural
  <2>3. a[r] \in Nat
    BY <2>1, <2>2, SlotsAreNatural
  <2>4. f[r] = [r EXCEPT !.slot = a[r]]
    OBVIOUS
  <2> HIDE DEF f, a
  <2>5. f[r] \in Request
    BY <2>1, <2>3, <2>4 DEF Request
  <2>6. f[r].at = r.at /\ f[r].text = r.text /\ f[r].slot = a[r]
    BY <2>1, <2>4 DEF Request
  <2> QED BY <2>1, <2>2, <2>3, <2>5, <2>6
<1> HIDE DEF f, new
<1>5. ASSUME NEW r \in new, NEW p \in rows PROVE p.text # f[r].text /\ p.slot # f[r].slot
  <2>1. p.text # f[r].text
    BY <1>4 DEF New
  <2>2. r \in req /\ p.slot \in Nat /\ p.slot <= LastSlot(req, rows)
    BY <1>4, LastSlotBounds DEF RowsOK, Packet
  <2>3. CASE Keeps(r, req, rows)
    <3>1. f[r].slot = r.slot
      BY <1>4, <2>2, <2>3, SlotsAreNatural
    <3> QED BY <2>1, <2>3, <3>1 DEF Keeps
  <2>4. CASE Extra(r, req, rows)
    <3>1. f[r].slot = LastSlot(req, rows) + Cardinality(ExtrasTo(r, req, rows))
      BY <1>4, <2>2, <2>4, SlotsAreNatural
    <3>2. Cardinality(ExtrasTo(r, req, rows)) \in Nat \ {0}
      BY <2>2, <2>4, ExtrasAreCounted
    <3>3. LastSlot(req, rows) \in Int
      BY LastSlotBounds
    <3> QED BY <2>1, <2>2, <3>1, <3>2, <3>3
  <2>5. Keeps(r, req, rows) \/ Extra(r, req, rows)
    BY <1>4 DEF Extra
  <2> QED BY <2>3, <2>4, <2>5
<1>6. ASSUME NEW r \in new, NEW s \in new, r # s
      PROVE  f[r].text # f[s].text /\ f[r].slot # f[s].slot /\ f[r].at # f[s].at
  <2>1. /\ r \in req /\ New(r, req, rows) /\ f[r].slot = a[r] /\ f[r].text = r.text
        /\ f[r].at = r.at
    BY <1>4
  <2>2. /\ s \in req /\ New(s, req, rows) /\ f[s].slot = a[s] /\ f[s].text = s.text
        /\ f[s].at = s.at
    BY <1>4
  <2>3. r.text # s.text /\ a[r] # a[s]
    BY <1>6, <2>1, <2>2, SlotsAreDistinct
  <2>4. r.at # s.at
    BY <1>6, <2>1, <2>2 DEF RequestsOK
  <2> QED BY <2>1, <2>2, <2>3, <2>4
<1>7. Placed(req, rows) \in SUBSET Request
  BY <1>1, <1>4
<1>8. \A x, y \in Placed(req, rows) : x.at = y.at \/ x.slot = y.slot \/ x.text = y.text => x = y
  BY <1>1, <1>6
<1>9. RequestsOK(Placed(req, rows))
  BY <1>3, <1>7, <1>8 DEF RequestsOK
<1>10. \A x \in Placed(req, rows), p \in rows : p.text # x.text /\ p.slot # x.slot
  BY <1>1, <1>5
<1> QED BY <1>8, <1>9, <1>10

-----------------------------------------------------------------------------
(* The inductive invariant *)

File == [place : {"none", "inbox", "archive", "quarantine"},
         kind : {"none", "stop", "other agent", "dead letter"},
         cands : Seq(Texts \cup {Echo}), old : BOOLEAN]

\* A file name has finitely many packets.
PacketsOK(rows) ==
    /\ rows \in SUBSET Packet
    /\ \A g \in Groups : IsFiniteSet({p \in rows : p.group = g})

\* What an archived file held is decided, by packets of its group.
DecidedIn(f, g, rows) ==
    f.place = "archive" =>
      \A t \in TextsOf(f) : \E p \in rows : p.group = g /\ p.text = t /\ p.resolved

InboxInv ==
    /\ entry \in [VaultSet -> [Names -> File]]
    /\ PacketsOK(packets)
    /\ ingester \in [Ingesters -> [on : BOOLEAN, batch : [Groups -> SUBSET Request]]]
    /\ \A i \in Ingesters, g \in Groups : RequestsOK(ingester[i].batch[g])
    /\ archiving \subseteq {p \in packets : p.resolved} /\ ifaults \in 0..MaxInboxFaults
    /\ OnePacketPerText
    /\ \A v \in VaultSet, n \in Names : DecidedIn(entry[v][n], <<Owner[v], n>>, packets)

LEMMA OwnedGroup ==
    ASSUME NEW v \in VaultSet, NEW n \in Names
    PROVE  <<Owner[v], n>> \in Groups
<1>1. Owner[v] \in Range(Owner)
  BY InboxFilesAssumption DEF Range
<1> QED BY <1>1 DEF Groups

LEMMA NothingIsRequested == RequestsOK({})
BY FS_EmptySet DEF RequestsOK

LEMMA InboxInitInv == InboxInit => InboxInv
<1> SUFFICES ASSUME InboxInit PROVE InboxInv
  OBVIOUS
<1>1. entry \in [VaultSet -> [Names -> File]]
  <2>1. NoEntry \in File
    BY DEF NoEntry, File
  <2> QED BY <2>1 DEF InboxInit
<1>2. PacketsOK(packets) /\ OnePacketPerText
  <2>1. ASSUME NEW left \in Leftover PROVE left \in Packet
    <3>1. Renamed \subseteq VaultSet
      BY InboxFilesAssumption
    <3>2. ASSUME NEW v \in Renamed, NEW n \in Names PROVE <<Owner[v], n>> \in Groups
      BY <3>1, OwnedGroup
    <3>3. PICK v \in Renamed, n \in Names, t \in Texts :
            left = [group |-> <<Owner[v], n>>, slot |-> 0, text |-> t, from |-> v, resolved |-> FALSE]
      BY DEF Leftover
    <3> QED BY <3>1, <3>2, <3>3 DEF Packet
  <2>2. packets = {} \/ \E left \in Leftover : packets = {left}
    BY DEF InboxInit
  <2>3. IsFiniteSet(packets)
    BY <2>2, FS_EmptySet, FS_Singleton
  <2>4. \A g \in Groups : IsFiniteSet({p \in packets : p.group = g})
    BY <2>3, FS_Subset
  <2> QED BY <2>1, <2>2, <2>4 DEF PacketsOK, OnePacketPerText
<1>3. /\ ingester \in [Ingesters -> [on : BOOLEAN, batch : [Groups -> SUBSET Request]]]
      /\ \A i \in Ingesters, g \in Groups : RequestsOK(ingester[i].batch[g])
  BY NothingIsRequested DEF InboxInit, IdleIngest
<1>4. archiving \subseteq {p \in packets : p.resolved} /\ ifaults \in 0..MaxInboxFaults
  <2>1. MaxInboxFaults \in Nat
    BY InboxFilesAssumption
  <2> QED BY <2>1 DEF InboxInit
<1>5. \A v \in VaultSet, n \in Names : DecidedIn(entry[v][n], <<Owner[v], n>>, packets)
  BY DEF InboxInit, DecidedIn, NoEntry
<1> QED BY <1>1, <1>2, <1>3, <1>4, <1>5 DEF InboxInv

\* A scan finds a request once.
LEMMA ScannedAreRequests ==
    ASSUME NEW g \in Groups, InboxInv
    PROVE  RequestsOK(Scanned(g))
<1> DEFINE K == {i \in DOMAIN Vaults : Owner[Vaults[i]] = g[1] /\ Ingestible(Vaults[i], g[2])}
           At(k) == entry[Vaults[k]][g[2]]
           req(k, j) == [at |-> <<k, j>>, slot |-> j - 1, from |-> Vaults[k],
                         text |-> At(k).cands[j]]
           found == [k \in K |-> {req(k, j) : j \in Eligible(At(k))}]
<1>1. Scanned(g) = UNION {found[k] : k \in K}
  BY DEF Scanned
<1>2. Vaults \in Seq(VaultSet) /\ g[2] \in Names
  BY InboxFilesAssumption DEF Groups
<1>3. ASSUME NEW k \in K
      PROVE  /\ k \in Nat /\ Vaults[k] \in VaultSet /\ At(k).cands \in Seq(Texts \cup {Echo})
             /\ Eligible(At(k)) \subseteq 1..Len(At(k).cands)
             /\ \A j \in Eligible(At(k)) : req(k, j) \in Request
             /\ IsFiniteSet(found[k])
  <2>1. k \in Nat /\ Vaults[k] \in VaultSet
    BY <1>2
  <2>2. At(k) \in File
    BY <1>2, <2>1 DEF InboxInv
  <2>3. At(k).cands \in Seq(Texts \cup {Echo})
    BY <2>2 DEF File
  <2> HIDE DEF K
  <2>4. Eligible(At(k)) \subseteq 1..Len(At(k).cands)
    BY <2>3 DEF Eligible
  <2>5. ASSUME NEW j \in Eligible(At(k)) PROVE req(k, j) \in Request
    <3>1. j \in 1..Len(At(k).cands)
      BY <2>4
    <3>2. At(k).cands[j] \in Texts
      BY <2>3, <3>1 DEF Eligible
    <3>3. j \in Nat /\ j - 1 \in Nat
      BY <2>3, <3>1
    <3> HIDE DEF At
    <3> QED BY <2>1, <3>2, <3>3 DEF Request
  <2>6. IsFiniteSet(found[k])
    <3>1. Len(At(k).cands) \in Nat
      <4> HIDE DEF At
      <4> QED BY <2>3
    <3>2. IsFiniteSet(Eligible(At(k)))
      <4> HIDE DEF At
      <4>1. IsFiniteSet(1..Len(At(k).cands))
        BY <3>1, FS_Interval
      <4> QED BY <2>4, <4>1, FS_Subset
    <3> DEFINE f == [j \in Eligible(At(k)) |-> req(k, j)]
    <3>3. IsFiniteSet({f[j] : j \in Eligible(At(k))})
      <4> HIDE DEF At, req
      <4> QED BY <3>2, ImageIsFinite
    <3>4. {f[j] : j \in Eligible(At(k))} = found[k]
      <4> HIDE DEF At, req
      <4> QED OBVIOUS
    <3> HIDE DEF f, found
    <3> QED BY <3>3, <3>4
  <2> QED BY <2>1, <2>3, <2>4, <2>5, <2>6
<1>4. IsFiniteSet(Scanned(g))
  <2>1. IsFiniteSet(K)
    <3>1. DOMAIN Vaults = 1..Len(Vaults) /\ Len(Vaults) \in Nat
      BY <1>2
    <3>2. IsFiniteSet(1..Len(Vaults))
      BY <3>1, FS_Interval
    <3> QED BY <3>1, <3>2, FS_Subset
  <2>2. DOMAIN found = K
    OBVIOUS
  <2> HIDE DEF found, K
  <2>3. IsFiniteSet({found[k] : k \in K})
    BY <2>1, <2>2, ImageIsFinite
  <2>4. \A T \in {found[k] : k \in K} : IsFiniteSet(T)
    BY <1>3
  <2>5. IsFiniteSet(UNION {found[k] : k \in K})
    BY <2>3, <2>4, FS_UNION
  <2> QED BY <1>1, <2>5
<1>5. ASSUME NEW x \in Scanned(g)
      PROVE  \E k \in K : \E j \in Eligible(At(k)) : x = req(k, j)
  <2>1. PICK k \in K : x \in found[k]
    BY <1>1
  <2>2. found[k] = {req(k, j) : j \in Eligible(At(k))}
    OBVIOUS
  <2> HIDE DEF found, req, At, K
  <2> QED BY <2>1, <2>2
<1> HIDE DEF found, K
<1>6. Scanned(g) \in SUBSET Request
  <2> HIDE DEF req, At
  <2> QED BY <1>3, <1>5
<1>7. ASSUME NEW x \in Scanned(g), NEW y \in Scanned(g), x.at = y.at PROVE x = y
  <2>1. PICK k \in K : \E j \in Eligible(At(k)) : x = req(k, j)
    BY <1>5
  <2>2. PICK j \in Eligible(At(k)) : x = req(k, j)
    BY <2>1
  <2>3. PICK l \in K : \E m \in Eligible(At(l)) : y = req(l, m)
    BY <1>5
  <2>4. PICK m \in Eligible(At(l)) : y = req(l, m)
    BY <2>3
  <2>5. x.at = <<k, j>> /\ y.at = <<l, m>>
    BY <2>2, <2>4
  <2>6. k = l /\ j = m
    <3> HIDE DEF At, req
    <3>1. <<k, j>> = <<l, m>>
      BY <1>7, <2>5
    <3> QED BY <3>1
  <2> QED BY <2>2, <2>4, <2>6
<1> QED BY <1>4, <1>6, <1>7 DEF RequestsOK

-----------------------------------------------------------------------------
(* The steps *)

\* The files are archived or moved, their texts stand.
LEMMA FileMovesStand ==
    ASSUME InboxInv, NEW v \in VaultSet, NEW n \in Names, NEW f \in File,
           entry' = [entry EXCEPT ![v] = [entry[v] EXCEPT ![n] = f]],
           DecidedIn(f, <<Owner[v], n>>, packets),
           UNCHANGED <<packets, ingester>>,
           archiving' \subseteq archiving, ifaults' \in 0..MaxInboxFaults
    PROVE  InboxInv'
<1>1. entry' \in [VaultSet -> [Names -> File]]
  BY DEF InboxInv
<1>2. ASSUME NEW w \in VaultSet, NEW m \in Names
      PROVE  DecidedIn(entry'[w][m], <<Owner[w], m>>, packets')
  <2>1. CASE w = v /\ m = n
    <3>1. entry'[w][m] = f
      BY <2>1 DEF InboxInv
    <3> QED BY <2>1, <3>1
  <2>2. CASE ~(w = v /\ m = n)
    <3>1. entry'[w][m] = entry[w][m]
      BY <2>2 DEF InboxInv
    <3> QED BY <3>1 DEF InboxInv
  <2> QED BY <2>1, <2>2
<1>3. OnePacketPerText'
  BY DEF InboxInv, OnePacketPerText
<1>4. PacketsOK(packets')
  BY DEF InboxInv
<1>5. /\ ingester' \in [Ingesters -> [on : BOOLEAN, batch : [Groups -> SUBSET Request]]]
      /\ \A i \in Ingesters, g \in Groups : RequestsOK(ingester'[i].batch[g])
  BY DEF InboxInv
<1>6. archiving' \subseteq {p \in packets' : p.resolved}
  BY DEF InboxInv
<1> QED BY <1>1, <1>2, <1>3, <1>4, <1>5, <1>6 DEF InboxInv, PacketsOK, RequestsOK

\* The packets stand, or the ingester starts over.
LEMMA ScansStand ==
    ASSUME InboxInv, UNCHANGED <<entry, packets>>,
           archiving' \subseteq archiving, ifaults' \in 0..MaxInboxFaults,
           NEW i \in Ingesters, NEW on \in BOOLEAN, NEW b \in [Groups -> SUBSET Request],
           \A g \in Groups : RequestsOK(b[g]),
           ingester' = [ingester EXCEPT ![i] = [on |-> on, batch |-> b]]
    PROVE  InboxInv'
<1>1. ingester' \in [Ingesters -> [on : BOOLEAN, batch : [Groups -> SUBSET Request]]]
  BY DEF InboxInv
<1>2. ASSUME NEW j \in Ingesters, NEW g \in Groups PROVE RequestsOK(ingester'[j].batch[g])
  BY DEF InboxInv
<1>3. OnePacketPerText'
  BY DEF InboxInv, OnePacketPerText
<1>6. \A v \in VaultSet, n \in Names : DecidedIn(entry'[v][n], <<Owner[v], n>>, packets')
  BY DEF InboxInv
<1>4. PacketsOK(packets') /\ entry' \in [VaultSet -> [Names -> File]]
  BY DEF InboxInv
<1>5. archiving' \subseteq {p \in packets' : p.resolved}
  BY DEF InboxInv
<1> QED BY <1>1, <1>2, <1>3, <1>4, <1>5, <1>6 DEF InboxInv, PacketsOK, RequestsOK

LEMMA GroupRowsOK ==
    ASSUME InboxInv, NEW g \in Groups
    PROVE  RowsOK(PacketsOf(g)) /\ \A p \in PacketsOf(g) : p \in packets /\ p.group = g
BY DEF InboxInv, PacketsOK, RowsOK, PacketsOf

\* Files come and go, with the packets as they are.
LEMMA FilesStand ==
    ASSUME InboxInv, NEW v \in VaultSet, NEW n \in Names,
           \/ \E d \in Docs : WriteInbox(v, n, d)
           \/ Age(v, n) \/ ArchiveInert(v, n) \/ Quarantine(v, n)
    PROVE  InboxInv'
<1>1. entry[v][n] \in File
  BY DEF InboxInv
<1>2. archiving \subseteq archiving /\ ifaults \in 0..MaxInboxFaults
  BY DEF InboxInv
<1>3. ASSUME NEW d \in Docs, WriteInbox(v, n, d) PROVE InboxInv'
  <2> DEFINE f == [place |-> "inbox", kind |-> d.kind, cands |-> d.cands, old |-> FALSE]
  <2>1. d.kind \in {"stop", "other agent", "dead letter"} /\ d.cands \in Seq(Texts \cup {Echo})
    BY InboxFilesAssumption
  <2>2. f \in File
    BY <2>1 DEF File
  <2>3. f.place # "archive"
    OBVIOUS
  <2>4. entry' = [entry EXCEPT ![v] = [entry[v] EXCEPT ![n] = f]]
    BY <1>3 DEF WriteInbox
  <2>5. UNCHANGED <<packets, ingester, archiving, ifaults>>
    BY <1>3 DEF WriteInbox
  <2> HIDE DEF f
  <2>6. DecidedIn(f, <<Owner[v], n>>, packets)
    BY <2>3 DEF DecidedIn
  <2> QED BY <1>2, <2>2, <2>4, <2>5, <2>6, FileMovesStand
<1>4. ASSUME Age(v, n) PROVE InboxInv'
  <2> DEFINE f == [entry[v][n] EXCEPT !.old = TRUE]
  <2>1. f \in File
    BY <1>1 DEF File
  <2>2. f.place = "inbox"
    BY <1>1, <1>4 DEF Age, Live, File
  <2>3. entry' = [entry EXCEPT ![v] = [entry[v] EXCEPT ![n] = f]]
    BY <1>4 DEF Age
  <2>4. UNCHANGED <<packets, ingester, archiving, ifaults>>
    BY <1>4 DEF Age
  <2> HIDE DEF f
  <2>5. DecidedIn(f, <<Owner[v], n>>, packets)
    BY <2>2 DEF DecidedIn
  <2> QED BY <1>2, <2>1, <2>3, <2>4, <2>5, FileMovesStand
<1>5. ASSUME ArchiveInert(v, n) PROVE InboxInv'
  <2> DEFINE f == [entry[v][n] EXCEPT !.place = "archive"]
  <2>1. f \in File
    BY <1>1 DEF File
  <2>2. TextsOf(f) = {}
    <3>1. f.cands = entry[v][n].cands
      BY <1>1 DEF File
    <3> QED BY <1>5, <3>1 DEF ArchiveInert, TextsOf
  <2>3. entry' = [entry EXCEPT ![v] = [entry[v] EXCEPT ![n] = f]]
    BY <1>5 DEF ArchiveInert
  <2>4. UNCHANGED <<packets, ingester, archiving, ifaults>>
    BY <1>5 DEF ArchiveInert
  <2> HIDE DEF f
  <2>5. DecidedIn(f, <<Owner[v], n>>, packets)
    BY <2>2 DEF DecidedIn
  <2> QED BY <1>2, <2>1, <2>3, <2>4, <2>5, FileMovesStand
<1>6. ASSUME Quarantine(v, n) PROVE InboxInv'
  <2> DEFINE f == [entry[v][n] EXCEPT !.place = "quarantine"]
  <2>1. f \in File
    BY <1>1 DEF File
  <2>2. f.place = "quarantine"
    BY <1>1 DEF File
  <2>3. entry' = [entry EXCEPT ![v] = [entry[v] EXCEPT ![n] = f]]
    BY <1>6 DEF Quarantine
  <2>4. UNCHANGED <<packets, ingester, archiving, ifaults>>
    BY <1>6 DEF Quarantine
  <2> HIDE DEF f
  <2>5. DecidedIn(f, <<Owner[v], n>>, packets)
    BY <2>2 DEF DecidedIn
  <2> QED BY <1>2, <2>1, <2>3, <2>4, <2>5, FileMovesStand
<1> QED BY <1>3, <1>4, <1>5, <1>6

LEMMA ScanStands ==
    ASSUME InboxInv, NEW i \in Ingesters, ScanInboxes(i) \/ IngestFails(i)
    PROVE  InboxInv'
<1>1. CASE ScanInboxes(i)
  <2> DEFINE b == [g \in Groups |-> Placed(Scanned(g), PacketsOf(g))]
  <2>1. ASSUME NEW g \in Groups PROVE RequestsOK(b[g]) /\ b[g] \in SUBSET Request
    <3>1. RequestsOK(Placed(Scanned(g), PacketsOf(g)))
      BY GroupRowsOK, ScannedAreRequests, PlacedAreNew
    <3> QED BY <3>1 DEF RequestsOK
  <2>2. b \in [Groups -> SUBSET Request]
    BY <2>1
  <2>3. ingester' = [ingester EXCEPT ![i] = [on |-> TRUE, batch |-> b]]
    BY <1>1 DEF ScanInboxes
  <2>4. UNCHANGED <<entry, packets>> /\ archiving' \subseteq archiving
    BY <1>1 DEF ScanInboxes
  <2>5. ifaults' \in 0..MaxInboxFaults
    BY <1>1 DEF ScanInboxes, InboxInv
  <2> HIDE DEF b
  <2> QED BY <2>1, <2>2, <2>3, <2>4, <2>5, ScansStand
<1>2. CASE IngestFails(i)
  <2> DEFINE b == [g \in Groups |-> {}]
  <2>1. b \in [Groups -> SUBSET Request] /\ \A g \in Groups : RequestsOK(b[g])
    BY NothingIsRequested
  <2>2. ingester' = [ingester EXCEPT ![i] = [on |-> FALSE, batch |-> b]]
    BY <1>2 DEF IngestFails, IdleIngest
  <2>3. UNCHANGED <<entry, packets>> /\ archiving' \subseteq archiving
    BY <1>2 DEF IngestFails
  <2>4. ifaults' \in 0..MaxInboxFaults
    <3>1. MaxInboxFaults \in Nat
      BY InboxFilesAssumption
    <3> QED BY <1>2, <3>1 DEF IngestFails, InboxInv
  <2> HIDE DEF b
  <2> QED BY <2>1, <2>2, <2>3, <2>4, ScansStand
<1> QED BY <1>1, <1>2

\* The transaction adds, to each group, new texts in free slots.
LEMMA InsertStands ==
    ASSUME InboxInv, NEW i \in Ingesters, InsertCandidates(i)
    PROVE  InboxInv'
<1> DEFINE pl(g) == Placed(ingester[i].batch[g], PacketsOf(g))
           pk(g, r) == [group |-> g, slot |-> r.slot, text |-> r.text, from |-> r.from,
                        resolved |-> FALSE]
           added(g) == {pk(g, r) : r \in pl(g)}
<1>1. packets' = packets \cup UNION {added(g) : g \in Groups}
  BY DEF InsertCandidates
<1>2. ASSUME NEW g \in Groups
      PROVE  /\ RequestsOK(pl(g))
             /\ \A x \in pl(g), p \in PacketsOf(g) : p.text # x.text /\ p.slot # x.slot
             /\ \A x, y \in pl(g) : x.slot = y.slot \/ x.text = y.text => x = y
  <2>1. RequestsOK(ingester[i].batch[g]) /\ RowsOK(PacketsOf(g))
    BY GroupRowsOK DEF InboxInv
  <2> QED BY <2>1, PlacedAreNew
<1> HIDE DEF pl
<1>3. ASSUME NEW g \in Groups, NEW r \in pl(g)
      PROVE  /\ pk(g, r) \in Packet /\ pk(g, r).group = g /\ pk(g, r).slot = r.slot
             /\ pk(g, r).text = r.text
  <2>1. r \in Request
    BY <1>2 DEF RequestsOK
  <2>2. r.slot \in Nat /\ r.text \in Texts /\ r.from \in VaultSet
    BY <2>1 DEF Request
  <2> QED BY <2>2 DEF Packet
<1> HIDE DEF pk
<1>4. ASSUME NEW p \in packets'
      PROVE  /\ p \in Packet
             /\ p \in packets \/ \E r \in pl(p.group) : p = pk(p.group, r)
  <2>1. CASE p \in packets
    BY <2>1 DEF InboxInv, PacketsOK
  <2>2. CASE p \notin packets
    <3>1. PICK g \in Groups : p \in added(g)
      BY <1>1, <2>2
    <3>2. PICK r \in pl(g) : p = pk(g, r)
      BY <3>1
    <3>3. p.group = g /\ p \in Packet
      BY <1>3, <3>2
    <3> QED BY <3>2, <3>3
  <2> QED BY <2>1, <2>2
<1>5. ASSUME NEW g \in Groups PROVE IsFiniteSet({p \in packets' : p.group = g})
  <2> DEFINE f == [r \in pl(g) |-> pk(g, r)]
  <2>1. IsFiniteSet({f[r] : r \in pl(g)})
    <3>1. IsFiniteSet(pl(g))
      BY <1>2 DEF RequestsOK
    <3>2. DOMAIN f = pl(g)
      OBVIOUS
    <3> HIDE DEF f
    <3> QED BY <3>1, <3>2, ImageIsFinite
  <2>2. IsFiniteSet(PacketsOf(g))
    BY GroupRowsOK DEF RowsOK
  <2>3. IsFiniteSet(PacketsOf(g) \cup {f[r] : r \in pl(g)})
    <3> HIDE DEF f
    <3> QED BY <2>1, <2>2, FS_Union
  <2>4. {p \in packets' : p.group = g} \subseteq PacketsOf(g) \cup {f[r] : r \in pl(g)}
    <3>1. ASSUME NEW p \in packets', p.group = g
          PROVE  p \in PacketsOf(g) \/ \E r \in pl(g) : p = f[r]
      <4>1. CASE p \in packets
        BY <3>1, <4>1 DEF PacketsOf
      <4>2. CASE \E r \in pl(g) : p = pk(g, r)
        BY <4>2
      <4> QED BY <1>4, <3>1, <4>1, <4>2
    <3> HIDE DEF f
    <3> QED BY <3>1
  <2> HIDE DEF f
  <2> QED BY <2>3, <2>4, FS_Subset
<1>6. PacketsOK(packets')
  BY <1>4, <1>5 DEF PacketsOK
<1>7. OnePacketPerText'
  <2> SUFFICES ASSUME NEW p \in packets', NEW q \in packets', p.group = q.group,
                      p.slot = q.slot \/ p.text = q.text
               PROVE  p = q
    BY DEF OnePacketPerText
  <2>1. p.group \in Groups /\ p \in Packet /\ q \in Packet
    BY <1>4 DEF Packet
  <2>2. CASE p \in packets /\ q \in packets
    BY <2>2 DEF InboxInv, OnePacketPerText
  <2>3. ASSUME NEW x \in packets, NEW y \in packets', x.group = y.group, x.group \in Groups,
               x.slot = y.slot \/ x.text = y.text,
               \E r \in pl(y.group) : y = pk(y.group, r)
        PROVE  FALSE
    <3>1. PICK r \in pl(y.group) : y = pk(y.group, r)
      BY <2>3
    <3>2. y.slot = r.slot /\ y.text = r.text
      BY <1>3, <2>3, <3>1
    <3>3. x \in PacketsOf(y.group)
      BY <2>3 DEF PacketsOf
    <3> QED BY <1>2, <2>3, <3>2, <3>3
  <2>4. CASE (\E r \in pl(p.group) : p = pk(p.group, r)) /\ \E r \in pl(q.group) : q = pk(q.group, r)
    <3>1. PICK r \in pl(p.group) : p = pk(p.group, r)
      BY <2>4
    <3>2. PICK s \in pl(p.group) : q = pk(p.group, s)
      BY <2>4
    <3>3. p.slot = r.slot /\ p.text = r.text /\ q.slot = s.slot /\ q.text = s.text
      BY <1>3, <2>1, <3>1, <3>2
    <3>4. r = s
      BY <1>2, <2>1, <3>3
    <3> QED BY <3>1, <3>2, <3>4
  <2> QED BY <1>4, <2>1, <2>2, <2>3, <2>4
<1>8. ASSUME NEW v \in VaultSet, NEW n \in Names
      PROVE  DecidedIn(entry'[v][n], <<Owner[v], n>>, packets')
  <2>1. entry' = entry
    BY DEF InsertCandidates
  <2>2. packets \subseteq packets'
    BY <1>1
  <2>3. DecidedIn(entry[v][n], <<Owner[v], n>>, packets)
    BY DEF InboxInv
  <2> QED BY <2>1, <2>2, <2>3 DEF DecidedIn
<1>9. /\ ingester' \in [Ingesters -> [on : BOOLEAN, batch : [Groups -> SUBSET Request]]]
      /\ \A j \in Ingesters, g \in Groups : RequestsOK(ingester'[j].batch[g])
  <2>1. IdleIngest \in [on : BOOLEAN, batch : [Groups -> SUBSET Request]]
    BY DEF IdleIngest
  <2>2. \A g \in Groups : RequestsOK(IdleIngest.batch[g])
    BY NothingIsRequested DEF IdleIngest
  <2>3. ingester' = [ingester EXCEPT ![i] = IdleIngest]
    BY DEF InsertCandidates
  <2> QED BY <2>1, <2>2, <2>3 DEF InboxInv
<1>10. /\ archiving' \subseteq {p \in packets' : p.resolved} /\ ifaults' \in 0..MaxInboxFaults
       /\ entry' \in [VaultSet -> [Names -> File]]
  BY <1>1 DEF InsertCandidates, InboxInv
<1> QED BY <1>6, <1>7, <1>8, <1>9, <1>10 DEF InboxInv, PacketsOK, RequestsOK

\* A resolved packet keeps its text and its slot.
LEMMA ResolveStands ==
    ASSUME InboxInv, NEW p \in packets, Resolve(p)
    PROVE  InboxInv'
<1> DEFINE done == [p EXCEPT !.resolved = TRUE]
<1>1. packets' = (packets \ {p}) \cup {done} /\ archiving' = archiving \cup {done}
  BY DEF Resolve
<1>2. UNCHANGED <<entry, ingester, ifaults>> /\ ~p.resolved
  BY DEF Resolve
<1>3. p \in Packet
  BY DEF InboxInv, PacketsOK
<1>4. done \in Packet
  BY <1>3 DEF Packet
<1>5. done.group = p.group /\ done.slot = p.slot /\ done.text = p.text /\ done.resolved
  BY <1>3 DEF Packet
<1> HIDE DEF done
<1>6. PacketsOK(packets')
  <2>1. packets' \in SUBSET Packet
    BY <1>1, <1>4 DEF InboxInv, PacketsOK
  <2>2. ASSUME NEW g \in Groups PROVE IsFiniteSet({q \in packets' : q.group = g})
    <3>1. IsFiniteSet({q \in packets : q.group = g})
      BY DEF InboxInv, PacketsOK
    <3>2. IsFiniteSet({q \in packets : q.group = g} \cup {done})
      BY <3>1, FS_AddElement
    <3>3. {q \in packets' : q.group = g} \subseteq {q \in packets : q.group = g} \cup {done}
      BY <1>1
    <3> QED BY <3>2, <3>3, FS_Subset
  <2> QED BY <2>1, <2>2 DEF PacketsOK
<1>7. OnePacketPerText'
  BY <1>1, <1>5 DEF InboxInv, OnePacketPerText
<1>8. ASSUME NEW v \in VaultSet, NEW n \in Names
      PROVE  DecidedIn(entry'[v][n], <<Owner[v], n>>, packets')
  <2>1. DecidedIn(entry[v][n], <<Owner[v], n>>, packets)
    BY DEF InboxInv
  <2>2. \A q \in packets : q.resolved => q \in packets'
    BY <1>1, <1>2
  <2> QED BY <1>2, <2>1, <2>2 DEF DecidedIn
<1>9. archiving' \subseteq {q \in packets' : q.resolved}
  BY <1>1, <1>2, <1>5 DEF InboxInv
<1> QED BY <1>2, <1>6, <1>7, <1>8, <1>9 DEF InboxInv, PacketsOK, RequestsOK

\* What is archived had a resolved packet for each of its texts.
LEMMA ArchiveStands ==
    ASSUME InboxInv, NEW p \in packets, MaybeArchive(p) \/ ArchiveFails(p)
    PROVE  InboxInv'
<1>1. CASE MaybeArchive(p)
  <2> DEFINE n == p.group[2]
             fits == {k \in DOMAIN Vaults : Archivable(Vaults[k], n, p)}
             v == Vaults[Min(fits)]
             f == [entry[v][n] EXCEPT !.place = "archive"]
  <2>1. /\ UNCHANGED <<packets, ingester, ifaults>> /\ archiving' \subseteq archiving
        /\ ifaults' \in 0..MaxInboxFaults
    BY <1>1 DEF MaybeArchive, InboxInv
  <2>2. entry' = IF fits = {} THEN entry
                 ELSE [entry EXCEPT ![v] = [entry[v] EXCEPT ![n] = f]]
    BY <1>1 DEF MaybeArchive
  <2>3. n \in Names
    BY DEF InboxInv, PacketsOK, Packet, Groups
  <2>4. CASE fits = {}
    <3>1. UNCHANGED entry
      BY <2>2, <2>4
    <3>2. OnePacketPerText' /\ PacketsOK(packets')
      BY <2>1 DEF InboxInv, OnePacketPerText
    <3>3. archiving' \subseteq {q \in packets' : q.resolved}
      BY <2>1 DEF InboxInv
    <3>4. \A w \in VaultSet, m \in Names : DecidedIn(entry'[w][m], <<Owner[w], m>>, packets')
      BY <2>1, <3>1 DEF InboxInv
    <3> QED BY <2>1, <3>1, <3>2, <3>3, <3>4 DEF InboxInv, PacketsOK, RequestsOK
  <2>5. CASE fits # {}
    <3>1. Vaults \in Seq(VaultSet)
      BY InboxFilesAssumption
    <3>2. fits \in SUBSET Nat
      BY <3>1
    <3>3. Min(fits) \in fits
      <4> HIDE DEF fits
      <4> QED BY <2>5, <3>2, MinOf
    <3>4. v \in VaultSet /\ Archivable(v, n, p)
      BY <3>1, <3>3
    <3> HIDE DEF v, fits, n
    <3>5. entry[v][n] \in File
      BY <2>3, <3>4 DEF InboxInv
    <3>6. f \in File /\ f.cands = entry[v][n].cands
      BY <3>5 DEF File
    <3>7. entry' = [entry EXCEPT ![v] = [entry[v] EXCEPT ![n] = f]]
      BY <2>2, <2>5
    <3>8. TextsOf(f) = TextsOf(entry[v][n])
      BY <3>6 DEF TextsOf
    <3> HIDE DEF f
    <3>9. ASSUME NEW t \in TextsOf(f)
          PROVE  \E q \in packets : q.group = <<Owner[v], n>> /\ q.text = t /\ q.resolved
      <4>1. <<Owner[v], n>> = p.group
        BY <3>4 DEF Archivable
      <4>2. PICK q \in PacketsOf(p.group) : q.text = t
        BY <3>4, <3>8 DEF Archivable
      <4>3. q.resolved
        BY <3>4, <3>8, <4>2 DEF Archivable
      <4> QED BY <4>1, <4>2, <4>3 DEF PacketsOf
    <3>10. DecidedIn(f, <<Owner[v], n>>, packets)
      BY <3>9 DEF DecidedIn
    <3> QED BY <2>1, <2>3, <3>4, <3>6, <3>7, <3>10, FileMovesStand
  <2> QED BY <2>4, <2>5
<1>2. CASE ArchiveFails(p)
  <2>1. UNCHANGED <<entry, packets, ingester>> /\ archiving' \subseteq archiving
    BY <1>2 DEF ArchiveFails
  <2>2. ifaults' \in 0..MaxInboxFaults
    <3>1. MaxInboxFaults \in Nat
      BY InboxFilesAssumption
    <3> QED BY <1>2, <3>1 DEF ArchiveFails, InboxInv
  <2>3. OnePacketPerText' /\ PacketsOK(packets')
    BY <2>1 DEF InboxInv, OnePacketPerText
  <2>4. archiving' \subseteq {q \in packets' : q.resolved}
    BY <2>1 DEF InboxInv
  <2>5. \A w \in VaultSet, m \in Names : DecidedIn(entry'[w][m], <<Owner[w], m>>, packets')
    BY <2>1 DEF InboxInv
  <2> QED BY <2>1, <2>2, <2>3, <2>4, <2>5 DEF InboxInv, PacketsOK, RequestsOK
<1> QED BY <1>1, <1>2

LEMMA InboxStep == InboxInv /\ [InboxNext]_inboxVars => InboxInv'
<1> SUFFICES ASSUME InboxInv, [InboxNext]_inboxVars PROVE InboxInv'
  OBVIOUS
<1>1. ASSUME NEW v \in VaultSet, NEW n \in Names,
             \/ \E d \in Docs : WriteInbox(v, n, d)
             \/ Age(v, n) \/ ArchiveInert(v, n) \/ Quarantine(v, n)
      PROVE  InboxInv'
  BY <1>1, FilesStand
<1>2. ASSUME NEW i \in Ingesters, ScanInboxes(i) \/ InsertCandidates(i) \/ IngestFails(i)
      PROVE  InboxInv'
  BY <1>2, ScanStands, InsertStands
<1>3. ASSUME NEW p \in packets, Resolve(p) \/ MaybeArchive(p) \/ ArchiveFails(p)
      PROVE  InboxInv'
  BY <1>3, ResolveStands, ArchiveStands
<1>4. CASE UNCHANGED inboxVars
  <2>1. UNCHANGED <<entry, packets, ingester, archiving, ifaults>>
    BY <1>4 DEF inboxVars
  <2>2. OnePacketPerText' /\ PacketsOK(packets')
    BY <2>1 DEF InboxInv, OnePacketPerText
  <2>3. archiving' \subseteq {q \in packets' : q.resolved}
    BY <2>1 DEF InboxInv
  <2>4. \A w \in VaultSet, m \in Names : DecidedIn(entry'[w][m], <<Owner[w], m>>, packets')
    BY <2>1 DEF InboxInv
  <2> QED BY <2>1, <2>2, <2>3, <2>4 DEF InboxInv, PacketsOK, RequestsOK
<1> QED BY <1>1, <1>2, <1>3, <1>4 DEF InboxNext

LEMMA InboxAlways == InboxSpec => []InboxInv
BY InboxInitInv, InboxStep, PTL DEF InboxSpec

\* However many ingests overlap, and whatever a renamed vault left in the slots,
\* a text of a file is one packet, and no file is archived before packets of its
\* own principal carry every text of it, resolved.
THEOREM NoTextIsDropped == InboxSpec => []TextsAreAccountedFor
<1>1. InboxInv => TextsAreAccountedFor
  BY DEF InboxInv, TextsAreAccountedFor, ArchivedIsDecided, DecidedIn
<1> QED BY <1>1, InboxAlways, PTL

\* Places, slots and texts are what they should be, and only resolved packets
\* have an archive call to come.
THEOREM InboxTypes == InboxSpec => []InboxTypeOK
<1>1. InboxInv => InboxTypeOK
  BY DEF InboxInv, InboxTypeOK, File, PacketsOK, Packet
<1> QED BY <1>1, InboxAlways, PTL
================================================================================
