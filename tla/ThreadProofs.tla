----------------------------- MODULE ThreadProofs -----------------------------
(* Proofs about the parts of the thread engine, for every set of calls,       *)
(* slices and workers and for every bound.                                    *)
EXTENDS MCThreads, TLAPS, FiniteSetTheorems

-----------------------------------------------------------------------------
(* The lock: ThreadLock *)

LEMMA LockInitTypeOK == Init => TypeOK
<1> SUFFICES ASSUME Init PROVE TypeOK
  OBVIOUS
<1> USE LockAssumption DEF Init, Dirs, Points
<1>1. at \in 0..nDirs /\ nDirs \in 0..MaxDirs /\ faults \in 0..MaxFaults /\ aged \subseteq Dirs
  OBVIOUS
<1>2. owner \in [Dirs -> Calls \cup {NoOwner, Torn}] /\ pc \in [Calls -> Points]
  OBVIOUS
<1>3. mine \in [Calls -> 0..nDirs] /\ known \in [Calls -> 0..nDirs]
  OBVIOUS
<1>4. alive \in [Calls -> BOOLEAN] /\ reused \in [Calls -> BOOLEAN] /\ theft \in BOOLEAN
  OBVIOUS
<1>5. \A c \in Calls : pc[c] \in {"fill", "stat", "in", "read", "check", "rm"} => mine[c] # 0
  OBVIOUS
<1> QED BY <1>1, <1>2, <1>3, <1>4, <1>5 DEF TypeOK

\* What TypeOK says beyond the ranges of the variables.
MakersKnowTheirs ==
    \A c \in Calls : pc[c] \in {"fill", "stat", "in", "read", "check", "rm"} => mine[c] # 0

LEMMA LockStepTypeOK == TypeOK /\ [Next]_vars => TypeOK'
<1> SUFFICES ASSUME TypeOK, [Next]_vars PROVE TypeOK'
  OBVIOUS
<1> USE LockAssumption DEF TypeOK, Dirs, Points, Go, MakersKnowTheirs
<1>1. ASSUME NEW c \in Calls, MakeDir(c) PROVE TypeOK'
  BY <1>1 DEF MakeDir
<1>2. ASSUME NEW c \in Calls,
             \/ FindDir(c) \/ CallAgain(c) \/ Finish(c) \/ ReadOwner(c)
             \/ CheckIdentity(c) \/ ReleaseFails(c)
      PROVE  TypeOK'
  <2>1. pc' \in [Calls -> Points]
    BY ZenonT(30), <1>2 DEF FindDir, CallAgain, Finish, ReadOwner, CheckIdentity, ReleaseFails, files
  <2>5. faults' \in 0..MaxFaults
    BY <1>2 DEF FindDir, CallAgain, Finish, ReadOwner, CheckIdentity, ReleaseFails, files
  <2>4. MakersKnowTheirs'
    BY <1>2 DEF FindDir, CallAgain, Finish, ReadOwner, CheckIdentity, ReleaseFails, files
  <2>2. UNCHANGED <<files, mine, known, alive, reused, theft>>
    BY <1>2 DEF FindDir, CallAgain, Finish, ReadOwner, CheckIdentity, ReleaseFails
  <2> QED BY <2>1, <2>2, <2>4, <2>5 DEF files
<1>12. ASSUME NEW c \in Calls, Die(c) PROVE TypeOK'
  BY <1>12 DEF Die, files
<1>13. ASSUME NEW c \in Calls, ReusePid(c) PROVE TypeOK'
  BY <1>13 DEF ReusePid, files
<1>3. ASSUME NEW c \in Calls, CreateOwner(c) PROVE TypeOK'
  BY <1>3 DEF CreateOwner
<1>4. ASSUME at' \in {0, at}, pc' \in [Calls -> Points], MakersKnowTheirs',
             theft' \in BOOLEAN, faults' \in 0..MaxFaults,
             UNCHANGED <<owner, aged, nDirs, mine, known, alive, reused>>
      PROVE  TypeOK'
  BY <1>4
<1>5. ASSUME NEW c \in Calls, CreateOwnerFails(c) PROVE TypeOK'
  <2>1. at' \in {0, at} /\ theft' \in BOOLEAN
    BY <1>5 DEF CreateOwnerFails
  <2>2. pc' \in [Calls -> Points]
    BY ZenonT(30), <1>5 DEF CreateOwnerFails
  <2>4. MakersKnowTheirs'
    BY <1>5 DEF CreateOwnerFails
  <2> QED BY <1>4, <1>5, <2>1, <2>2, <2>4 DEF CreateOwnerFails
<1>6. ASSUME NEW c \in Calls, FillOwner(c) PROVE TypeOK'
  <2>1. owner' \in [Dirs -> Calls \cup {NoOwner, Torn}]
    BY <1>6 DEF FillOwner
  <2>2. pc' \in [Calls -> Points]
    BY <1>6 DEF FillOwner
  <2>4. MakersKnowTheirs'
    BY <1>6 DEF FillOwner
  <2> QED BY <1>6, <2>1, <2>2, <2>4 DEF FillOwner
<1>7. ASSUME NEW c \in Calls, FillOwnerFails(c) \/ Quarantine(c) \/ Remove(c) PROVE TypeOK'
  <2>1. at' = 0 /\ theft' \in BOOLEAN
    BY <1>7 DEF FillOwnerFails, Quarantine, Remove
  <2>2. pc' \in [Calls -> Points]
    BY <1>7 DEF FillOwnerFails, Quarantine, Remove
  <2>5. faults' \in 0..MaxFaults
    BY <1>7 DEF FillOwnerFails, Quarantine, Remove
  <2>4. MakersKnowTheirs'
    BY <1>7 DEF FillOwnerFails, Quarantine, Remove
  <2> QED BY <1>4, <1>7, <2>1, <2>2, <2>4, <2>5 DEF FillOwnerFails, Quarantine, Remove
<1>8. ASSUME NEW c \in Calls, TakeIdentity(c) PROVE TypeOK'
  BY <1>8 DEF TakeIdentity, files
<1>9. ASSUME NEW c \in Calls, Look(c) PROVE TypeOK'
  <2>1. theft' \in BOOLEAN
    BY <1>9 DEF Look
  <2>3. known' \in [Calls -> 0..nDirs]
    BY <1>9 DEF Look
  <2>2. pc' \in [Calls -> Points]
    BY ZenonT(30), <1>9 DEF Look, files
  <2>4. MakersKnowTheirs'
    BY <1>9 DEF Look, files
  <2> QED BY <1>9, <2>1, <2>2, <2>4, <2>3 DEF Look, files
<1>10. CASE Age
  BY <1>10 DEF Age
<1>11. CASE UNCHANGED vars
  BY <1>11 DEF vars, files
<1> QED BY <1>1, <1>2, <1>3, <1>5, <1>6, <1>7, <1>8, <1>9, <1>10, <1>11,
        <1>12, <1>13 DEF Next

\* The calls that made the directory, or publish their owner in it, or hold it.
Occupants == {c \in Calls : pc[c] \in {"open", "fill", "stat", "in", "read", "check", "rm"}}

\* The process of a call is gone exactly when the call is, and a directory that
\* is still to be made has no owner.
LockBasics ==
    /\ \A c \in Calls : pc[c] = "dead" <=> ~alive[c]
    /\ \A d \in Dirs : d > nDirs => owner[d] = NoOwner

\* What the path names is the one occupant's, at the stage it is at, and who has
\* judged it abandoned has done so when there was no occupant.
OccupantHasDirectory ==
    ~theft =>
      /\ \A c \in Occupants :
           /\ at # 0
           /\ pc[c] = "open" => owner[at] = NoOwner
           /\ pc[c] = "fill" => at = mine[c] /\ owner[at] = Torn
           /\ c \in Holders => at = mine[c] /\ owner[at] = c
      /\ \A c, d \in Occupants : c = d
      /\ \A c \in Calls : pc[c] = "rename" /\ known[c] = at => Occupants = {}

LockInv == TypeOK /\ LockBasics /\ OccupantHasDirectory

LEMMA LockInitInv == Init => LockInv
BY LockInitTypeOK
   DEF Init, LockInv, LockBasics, OccupantHasDirectory, Occupants, Dirs

LEMMA LockStepBasics ==
    ASSUME TypeOK, LockBasics, [Next]_vars
    PROVE  LockBasics'
<1> USE LockAssumption DEF TypeOK, LockBasics, Dirs, Points, Go
<1>1. ASSUME NEW c \in Calls, MakeDir(c) \/ CreateOwner(c) \/ FillOwner(c) PROVE LockBasics'
  BY <1>1 DEF MakeDir, CreateOwner, FillOwner
<1>2. ASSUME NEW c \in Calls,
             \/ FindDir(c) \/ CreateOwnerFails(c) \/ FillOwnerFails(c) \/ TakeIdentity(c)
             \/ Look(c) \/ Quarantine(c) \/ CallAgain(c) \/ Finish(c) \/ ReadOwner(c)
             \/ CheckIdentity(c) \/ Remove(c) \/ ReleaseFails(c)
      PROVE  LockBasics'
  BY <1>2 DEF FindDir, CreateOwnerFails, FillOwnerFails, TakeIdentity, Look, Quarantine,
              CallAgain, Finish, ReadOwner, CheckIdentity, Remove, ReleaseFails, files
<1>3. ASSUME NEW c \in Calls, Die(c) \/ ReusePid(c) PROVE LockBasics'
  BY <1>3 DEF Die, ReusePid, files
<1>4. CASE Age \/ UNCHANGED vars
  BY <1>4 DEF Age, vars, files
<1> QED BY <1>1, <1>2, <1>3, <1>4 DEF Next

LEMMA LockStepOccupant ==
    ASSUME LockInv, [Next]_vars
    PROVE  OccupantHasDirectory'
<1> USE LockAssumption DEF LockInv, TypeOK, Dirs, Go
<1>1. ASSUME NEW c \in Calls, MakeDir(c) PROVE OccupantHasDirectory'
  <2>1. at' = nDirs + 1 /\ owner'[at'] = NoOwner /\ theft' = theft
    BY <1>1 DEF MakeDir, LockBasics
  <2>2. ASSUME ~theft PROVE Occupants = {} /\ Occupants' = {c}
    BY <1>1, <2>2 DEF MakeDir, OccupantHasDirectory, Occupants
  <2>3. \A d \in Calls : known'[d] # at'
    BY <1>1, <2>1 DEF MakeDir
  <2>4. pc'[c] = "open" /\ c \notin Holders'
    BY <1>1 DEF MakeDir, Holders
  <2> QED BY <2>1, <2>2, <2>3, <2>4 DEF OccupantHasDirectory
<1>2. ASSUME NEW c \in Calls, CreateOwner(c) PROVE OccupantHasDirectory'
  BY <1>2 DEF CreateOwner, OccupantHasDirectory, Occupants, Holders
<1>3. ASSUME NEW c \in Calls, CreateOwnerFails(c) PROVE OccupantHasDirectory'
  BY <1>3 DEF CreateOwnerFails, OccupantHasDirectory, Occupants, Holders
<1>4. ASSUME NEW c \in Calls, FillOwner(c) PROVE OccupantHasDirectory'
  <2>1. Occupants' = Occupants /\ c \in Occupants
    BY <1>4 DEF FillOwner, Occupants
  <2>2. ASSUME ~theft PROVE Occupants = {c} /\ at # 0 /\ at = mine[c]
    BY <1>4, <2>1, <2>2 DEF FillOwner, OccupantHasDirectory
  <2>3. at' = at /\ mine' = mine /\ known' = known /\ theft' = theft
    BY <1>4 DEF FillOwner
  <2>4. pc'[c] = "stat" /\ \A d \in Calls : pc'[d] = "rename" => pc[d] = "rename"
    BY <1>4 DEF FillOwner
  <2>5. at # 0 /\ at = mine[c] => owner'[at] = c
    BY <1>4 DEF FillOwner
  <2>6. ASSUME ~theft PROVE \A d \in Calls : pc[d] = "rename" => known[d] # at
    BY <2>1, <2>6 DEF OccupantHasDirectory
  <2>7. c \in Holders'
    BY <2>4 DEF Holders
  <2>8. ASSUME ~theft
        PROVE  /\ \A d \in Occupants' : d = c
               /\ \A d \in Calls : ~(pc'[d] = "rename" /\ known'[d] = at')
    BY <2>1, <2>2, <2>3, <2>4, <2>6, <2>8
  <2>9. ASSUME ~theft'
        PROVE  /\ at' # 0 /\ at' = mine'[c] /\ owner'[at'] = c /\ pc'[c] = "stat"
               /\ \A d \in Occupants' : d = c
               /\ \A d \in Calls : ~(pc'[d] = "rename" /\ known'[d] = at')
    <3>1. ~theft
      BY <2>3, <2>9
    <3> QED BY <2>2, <2>3, <2>4, <2>5, <2>8, <3>1
  <2> QED BY <2>9 DEF OccupantHasDirectory
<1>5. ASSUME NEW c \in Calls, FillOwnerFails(c) \/ Remove(c) PROVE OccupantHasDirectory'
  <2>1. c \in Occupants /\ Occupants' = Occupants \ {c} /\ (theft => theft')
    BY <1>5 DEF FillOwnerFails, Remove, Occupants
  <2>2. ASSUME ~theft' PROVE Occupants' = {}
    BY <2>1, <2>2 DEF OccupantHasDirectory
  <2> QED BY <2>2 DEF OccupantHasDirectory
<1>6. ASSUME NEW c \in Calls, Quarantine(c) PROVE OccupantHasDirectory'
  <2>1. Occupants' = Occupants
    BY <1>6 DEF Quarantine, Occupants
  <2>2. ASSUME ~theft' PROVE Occupants = {}
    BY <1>6, <2>2 DEF Quarantine, OccupantHasDirectory
  <2>3. ASSUME ~theft' PROVE Occupants' = {}
    BY <2>1, <2>2, <2>3
  <2>4. pc'[c] # "rename" /\ \A d \in Calls \ {c} : pc'[d] = pc[d]
    BY <1>6 DEF Quarantine
  <2>5. known' = known /\ at' = 0
    BY <1>6 DEF Quarantine
  <2> QED BY <2>3, <2>4, <2>5 DEF OccupantHasDirectory
<1>7. ASSUME NEW c \in Calls, Look(c) PROVE OccupantHasDirectory'
  <2>1. /\ UNCHANGED <<at, owner, mine>> /\ Occupants' = Occupants /\ Holders' = Holders
        /\ \A d \in Calls \ {c} : pc'[d] = pc[d] /\ known'[d] = known[d]
        /\ \A d \in Occupants : pc'[d] = pc[d]
    BY <1>7 DEF Look, Occupants, Holders, files
  <2>2. theft => theft'
    BY <1>7 DEF Look
  <2>3. ASSUME ~theft', pc'[c] = "rename" PROVE Occupants = {}
    <3>1. at # 0 /\ Recoverable(at) /\ ~Publishing
      BY <1>7, <2>3 DEF Look
    <3>2. ASSUME NEW d \in Occupants PROVE FALSE
      <4>1. d \in Holders
        BY <3>1, <3>2 DEF Publishing, Occupants, Holders
      <4>2. owner[at] = d
        BY <2>2, <2>3, <3>2, <4>1 DEF OccupantHasDirectory
      <4>3. alive[d] /\ d \in Calls
        BY <4>1 DEF Holders, LockBasics
      <4> QED BY <3>1, <4>2, <4>3 DEF Recoverable, LooksLive
    <3> QED BY <3>2
  <2> QED BY <2>1, <2>2, <2>3 DEF OccupantHasDirectory
<1>8. ASSUME UNCHANGED <<at, owner, mine, theft>>, Occupants' \subseteq Occupants,
             \A c \in Occupants' : \/ pc'[c] = pc[c]
                                   \/ c \in Holders /\ pc'[c] \notin {"open", "fill"},
             \A c \in Calls : pc'[c] = "rename" => pc[c] = "rename" /\ known'[c] = known[c]
      PROVE  OccupantHasDirectory'
  <2>1. Holders \subseteq Occupants /\ Occupants \subseteq Calls
    BY DEF Holders, Occupants
  <2>2. \A c \in Occupants' : c \in Holders' => c \in Holders
    BY <1>8 DEF Holders, Occupants
  <2> QED BY <1>8, <2>1, <2>2 DEF OccupantHasDirectory
<1>10. ASSUME NEW c \in Calls, FindDir(c) \/ CallAgain(c) \/ Die(c)
       PROVE  OccupantHasDirectory'
  BY <1>8, <1>10 DEF FindDir, CallAgain, Die, files, Occupants
<1>11. ASSUME NEW c \in Calls,
              TakeIdentity(c) \/ Finish(c) \/ ReadOwner(c) \/ CheckIdentity(c)
                \/ ReleaseFails(c)
       PROVE  OccupantHasDirectory'
  <2>1. UNCHANGED <<at, owner, mine, theft>> /\ c \in Holders
    BY <1>11 DEF TakeIdentity, Finish, ReadOwner, CheckIdentity, ReleaseFails, files, Holders
  <2>2. /\ \A d \in Calls \ {c} : pc'[d] = pc[d] /\ known'[d] = known[d]
        /\ pc'[c] \in {"in", "read", "check", "rm", "done"}
    BY <1>11 DEF TakeIdentity, Finish, ReadOwner, CheckIdentity, ReleaseFails, files
  <2> QED BY <1>8, <2>1, <2>2 DEF Occupants, Holders
<1>9. CASE (\E c \in Calls : ReusePid(c)) \/ Age \/ UNCHANGED vars
  BY <1>9 DEF ReusePid, Age, vars, files, OccupantHasDirectory, Occupants, Holders
<1> QED BY <1>1, <1>2, <1>3, <1>4, <1>5, <1>6, <1>7, <1>9, <1>10, <1>11 DEF Next

LEMMA LockInvariant == Spec => []LockInv
<1>1. LockInv /\ [Next]_vars => LockInv'
  BY LockStepTypeOK, LockStepBasics, LockStepOccupant DEF LockInv
<1> QED BY LockInitInv, <1>1, PTL DEF Spec

\* As long as nothing was taken that a stalled maker had still to publish, and
\* nothing by its path that had been replaced, the holder of the lock has the
\* directory it made, with its own owner in it: recoveries and releases of any
\* number of calls, deaths and reused pids notwithstanding.
THEOREM LockHolderHasDirectory == Spec => []HolderHasDirectory
<1>1. LockInv => HolderHasDirectory
  BY DEF LockInv, OccupantHasDirectory, HolderHasDirectory, Holders, Occupants
<1> QED BY LockInvariant, <1>1, PTL

\* No two calls hold the lock at once, under the same proviso.
THEOREM LockExcludes == Spec => [](~theft => \A c, d \in Holders : c = d)
<1>1. LockInv => (~theft => \A c, d \in Holders : c = d)
  BY DEF LockInv, OccupantHasDirectory, Holders, Occupants
<1> QED BY LockInvariant, <1>1, PTL

-----------------------------------------------------------------------------
(* PlanGraph. *)

\* The rows of the note, and of the revision that a restore may go back to.
Pacts == [until : {"never", "live", "lapsed"}, deps : SUBSET Ids]
Rows == [status : Statuses, deps : SUBSET Ids, by : SUBSET Ids, pact : Pacts]
GraphRows == /\ slices \in [DOMAIN slices -> Rows] /\ DOMAIN slices \subseteq Ids
             /\ kept \in [DOMAIN kept -> Rows] /\ DOMAIN kept \subseteq Ids
             /\ writes \in 0..MaxWrites

\* A claim is on an open slice, and tells when it ends.
ClaimedSlicesAreOpen ==
    \A s \in DOMAIN slices :
      /\ slices[s].pact = NoPact \/ slices[s].pact.until \in {"live", "lapsed"}
      /\ slices[s].pact # NoPact => slices[s].status \in Open

GraphInv == GraphRows /\ ClaimedSlicesAreOpen /\ PlanIsTold

LEMMA NoPactType == NoPact \in Pacts
BY DEF NoPact, Pacts

LEMMA FreshType ==
    ASSUME NEW deps \in SUBSET Ids
    PROVE  /\ Fresh(deps) \in Rows /\ Fresh(deps).pact = NoPact
           /\ Fresh(deps).status = "pending" /\ Fresh(deps).deps = deps /\ Fresh(deps).by = {}
BY NoPactType DEF Fresh, Rows, Statuses, Open

LEMMA UnclaimedType ==
    ASSUME NEW row \in Rows
    PROVE  /\ Unclaimed(row) \in Rows /\ Unclaimed(row).pact = NoPact
           /\ Unclaimed(row).status = row.status /\ Unclaimed(row).deps = row.deps
           /\ Unclaimed(row).by = row.by
BY NoPactType DEF Unclaimed, Rows

\* Two graphs with the same public rows show the same, whatever is claimed.
LEMMA ShownEqual ==
    ASSUME NEW g, NEW h, DOMAIN g = DOMAIN h,
           \A s \in DOMAIN g : /\ g[s].status = h[s].status
                               /\ g[s].deps = h[s].deps /\ g[s].by = h[s].by
    PROVE  ShownIn(g) = ShownIn(h)
BY DEF ShownIn, Shown

\* A write that tells what it leaves keeps the reader right about the ready set,
\* if the claims that it ends, and no expired one besides, are told as ended.
LEMMA ToldReady ==
    ASSUME JournalTellsWhatIsReady,
           NEW ended, Tell(slices', ShownIn(slices'), ended),
           \A s \in ended \cap DOMAIN slices' : slices'[s].pact.until # "live",
           \A s \in DOMAIN slices \cap DOMAIN slices' :
             slices[s].pact.until = "lapsed" =>
               s \in ended \/ slices'[s].pact.until = "lapsed"
    PROVE  JournalTellsWhatIsReady'
<1>1. CASE Announces(slices, slices')
  <2>1. told'.ready = ReadyIn(slices')
    BY <1>1 DEF Tell
  <2>2. ReadyIn(slices') = ReadyIn(slices)'
    BY DEF ReadyIn, Unmet, Met
  <2>3. told'.ready \subseteq ReadyIn(slices') /\ ReadyIn(slices') \ told'.ready = {}
    BY <2>1
  <2> QED BY <2>2, <2>3 DEF JournalTellsWhatIsReady
<1>2. CASE ~Announces(slices, slices')
  <2> DEFINE more == {s \in ended \cap DOMAIN slices' :
                        slices'[s].status \in Open /\ Unmet(slices', s) = {}}
  <2>1. told'.ready = told.ready \cup more
    <3> DEFINE rows == ShownIn(slices')
    <3>1. DOMAIN rows = DOMAIN slices'
      BY DEF ShownIn
    <3>2. \A s \in DOMAIN slices' : rows[s].status = slices'[s].status
      BY DEF ShownIn, Shown
    <3>3. \A s \in DOMAIN slices' : Unmet(rows, s) = Unmet(slices', s)
      BY DEF ShownIn, Shown, Unmet, Met
    <3>4. told'.ready = told.ready \cup {s \in ended \cap DOMAIN rows :
                            rows[s].status \in Open /\ Unmet(rows, s) = {}}
      BY <1>2 DEF Tell
    <3> HIDE DEF rows
    <3> QED BY <3>1, <3>2, <3>3, <3>4
  <2>2. ReadyIn(slices') = ReadyIn(slices)
    BY <1>2 DEF Announces
  <2>3. more \subseteq ReadyIn(slices')
    BY DEF ReadyIn
  <2>4. told'.ready \subseteq ReadyIn(slices')
    BY <2>1, <2>2, <2>3 DEF JournalTellsWhatIsReady
  <2>5. ASSUME NEW s \in ReadyIn(slices') \ told'.ready
        PROVE  slices'[s].pact.until = "lapsed"
    <3>1. s \in ReadyIn(slices) \ told.ready /\ s \notin more
      BY <2>1, <2>2, <2>5
    <3>2. slices[s].pact.until = "lapsed" /\ s \in DOMAIN slices
      BY <3>1 DEF JournalTellsWhatIsReady, ReadyIn
    <3>3. s \in DOMAIN slices' /\ slices'[s].status \in Open /\ Unmet(slices', s) = {}
      BY <2>5 DEF ReadyIn
    <3> QED BY <3>1, <3>2, <3>3
  <2>6. ReadyIn(slices') = ReadyIn(slices)'
    BY DEF ReadyIn, Unmet, Met
  <2> QED BY <2>4, <2>5, <2>6 DEF JournalTellsWhatIsReady
<1> QED BY <1>1, <1>2

\* The step of an operation that writes: the rows stay rows, the reader is told
\* the graph that was written, and every claim that is left means what it meant.
LEMMA WriteKeepsInv ==
    ASSUME GraphInv,
           NEW ended, Tell(slices', ShownIn(slices'), ended), PersistSlices(slices'),
           slices' \in [DOMAIN slices' -> Rows], DOMAIN slices' \subseteq Ids,
           \A s \in ended \cap DOMAIN slices' : slices'[s].pact = NoPact,
           \A s \in DOMAIN slices' :
             \/ slices'[s].pact = NoPact
             \/ /\ slices'[s].pact.until \in {"live", "lapsed"}
                /\ slices'[s].pact.deps = slices'[s].deps
                /\ slices'[s].status \in Open,
           \A s \in DOMAIN slices \cap DOMAIN slices' :
             slices[s].pact.until = "lapsed" =>
               s \in ended \/ slices'[s].pact.until = "lapsed"
    PROVE  GraphInv'
<1> USE PlanGraphAssumption
<1>1. GraphRows'
  <2>1. kept' \in [DOMAIN kept' -> Rows] /\ DOMAIN kept' \subseteq Ids
    BY DEF PersistSlices, GraphInv, GraphRows
  <2>2. writes' \in 0..MaxWrites
    BY DEF PersistSlices, GraphInv, GraphRows
  <2> QED BY <2>1, <2>2 DEF GraphRows
<1>2. ClaimedSlicesAreOpen'
  BY DEF ClaimedSlicesAreOpen
<1>3. JournalTellsTheGraph'
  <2>1. told'.graph = ShownIn(slices')
    BY DEF Tell
  <2> QED BY <2>1 DEF JournalTellsTheGraph, ShownIn, Shown
<1>4. JournalTellsWhatIsReady'
  <2>1. \A s \in ended \cap DOMAIN slices' : slices'[s].pact.until # "live"
    BY DEF NoPact
  <2> QED BY <2>1, ToldReady DEF GraphInv, PlanIsTold
<1>5. ClaimsMeanWhatTheyMeant'
  BY DEF ClaimsMeanWhatTheyMeant, ClaimedIn
<1> QED BY <1>1, <1>2, <1>3, <1>4, <1>5 DEF GraphInv, PlanIsTold

LEMMA GraphInitInv == GraphInit => GraphInv
<1> SUFFICES ASSUME GraphInit PROVE GraphInv
  OBVIOUS
<1> USE PlanGraphAssumption
<1>1. PICK deps \in [Born -> Edges] : slices = [s \in Born |-> Fresh(deps[s])]
  BY DEF GraphInit
<1>2. \A s \in Born : slices[s] \in Rows /\ slices[s].pact = NoPact
  BY <1>1, FreshType
<1>3. GraphRows
  BY <1>1, <1>2 DEF GraphInit, GraphRows
<1>4. ClaimedSlicesAreOpen
  BY <1>1, <1>2 DEF ClaimedSlicesAreOpen
<1>5. PlanIsTold
  BY <1>1, <1>2 DEF GraphInit, PlanIsTold, JournalTellsTheGraph, JournalTellsWhatIsReady,
                    ClaimsMeanWhatTheyMeant, ClaimedIn
<1> QED BY <1>3, <1>4, <1>5 DEF GraphInv

\* What a replan drops, adds and leaves alone.
AreCut(cut, added, deps) ==
    /\ DOMAIN cut = DOMAIN slices \cup added
    /\ \A s \in DOMAIN cut : cut[s] \in Rows
    /\ \A s \in added : cut[s] = Fresh(deps)
    /\ \A s \in DOMAIN slices :
         \/ cut[s] = slices[s]
         \/ /\ slices[s].status \in Open /\ cut[s].status = "superseded"
            /\ cut[s].deps = slices[s].deps /\ cut[s].pact = NoPact
            /\ cut[s].by = IF added = {} THEN slices[s].by ELSE added

LEMMA DropAndAddRows ==
    ASSUME GraphInv, NEW drops, NEW added \in SUBSET Ids, NEW deps \in SUBSET Ids,
           added \cap DOMAIN slices = {},
           NEW cut, cut = DropAndAdd(drops, added, deps)
    PROVE  AreCut(cut, added, deps)
<1>1. DOMAIN cut = DOMAIN slices \cup added
  BY DEF DropAndAdd
<1>2. \A s \in added : cut[s] = Fresh(deps) /\ cut[s] \in Rows
  BY FreshType DEF DropAndAdd
<1>3. ASSUME NEW s \in DOMAIN slices
      PROVE  /\ cut[s] \in Rows
             /\ \/ cut[s] = slices[s]
                \/ /\ slices[s].status \in Open /\ cut[s].status = "superseded"
                   /\ cut[s].deps = slices[s].deps /\ cut[s].pact = NoPact
                   /\ cut[s].by = IF added = {} THEN slices[s].by ELSE added
  <2> DEFINE row == Unclaimed(slices[s])
             gone == [row EXCEPT !.status = "superseded",
                                 !.by = IF added = {} THEN @ ELSE added]
  <2>1. slices[s] \in Rows
    BY DEF GraphInv, GraphRows
  <2>2. /\ row \in Rows /\ row.pact = NoPact /\ row.deps = slices[s].deps
        /\ row.by = slices[s].by
    BY <2>1, UnclaimedType
  <2>3. cut[s] = slices[s] \/ (slices[s].status \in Open /\ cut[s] = gone)
    BY <1>1 DEF DropAndAdd
  <2> HIDE DEF row
  <2>4. /\ gone \in Rows /\ gone.pact = NoPact /\ gone.status = "superseded"
        /\ gone.deps = row.deps /\ gone.by = IF added = {} THEN row.by ELSE added
    BY <2>2 DEF Rows, Statuses
  <2> QED BY <2>1, <2>2, <2>3, <2>4
<1>4. \A s \in DOMAIN cut : cut[s] \in Rows
  BY <1>1, <1>2, <1>3
<1> QED BY <1>1, <1>2, <1>3, <1>4 DEF AreCut

\* The reader of a replan event knows the graph that the replan has left, if it
\* knew the one before.
LEMMA ReplanIsTold ==
    ASSUME JournalTellsTheGraph, NEW asked,
           DOMAIN slices \subseteq DOMAIN slices',
           \A s \in DOMAIN slices' \ DOMAIN slices :
             slices'[s].status = "pending" /\ slices'[s].by = {},
           \A s \in DOMAIN slices :
             \/ slices'[s].status = slices[s].status /\ slices'[s].by = slices[s].by
             \/ /\ slices[s].status # "superseded" /\ slices'[s].status = "superseded"
                /\ slices'[s].by = IF DOMAIN slices' = DOMAIN slices THEN slices[s].by
                                   ELSE DOMAIN slices' \ DOMAIN slices
    PROVE  AfterReplan(told.graph, slices', ChangedDependsOn(slices, slices'),
                       LandedAdds(slices, slices'), LandedDrops(slices, slices', asked))
             = ShownIn(slices')
<1> DEFINE adds == LandedAdds(slices, slices')
           drops == LandedDrops(slices, slices', asked)
           changed == ChangedDependsOn(slices, slices')
           read == AfterReplan(told.graph, slices', changed, adds, drops)
           RowRead(s) ==
             IF s \in adds THEN Shown(Fresh(slices'[s].deps))
             ELSE [status |-> IF s \in drops THEN "superseded" ELSE slices[s].status,
                   deps   |-> IF s \in changed THEN slices'[s].deps ELSE slices[s].deps,
                   by     |-> IF s \in drops /\ adds # {} THEN adds ELSE slices[s].by]
<1>1. adds = DOMAIN slices' \ DOMAIN slices /\ DOMAIN told.graph = DOMAIN slices
  BY DEF LandedAdds, JournalTellsTheGraph, ShownIn
<1>2. read = [s \in DOMAIN slices' |-> RowRead(s)]
  <2>2. ASSUME NEW s \in DOMAIN slices
        PROVE  /\ told.graph[s].status = slices[s].status
               /\ told.graph[s].deps = slices[s].deps
               /\ told.graph[s].by = slices[s].by
    BY DEF JournalTellsTheGraph, ShownIn, Shown
  <2> DEFINE RowTold(s) ==
               IF s \in adds THEN Shown(Fresh(slices'[s].deps))
               ELSE [status |-> IF s \in drops THEN "superseded" ELSE told.graph[s].status,
                     deps   |-> IF s \in changed THEN slices'[s].deps ELSE told.graph[s].deps,
                     by     |-> IF s \in drops /\ adds # {} THEN adds ELSE told.graph[s].by]
  <2>3. read = [s \in DOMAIN told.graph \cup adds |-> RowTold(s)]
    BY DEF AfterReplan
  <2>4. DOMAIN told.graph \cup adds = DOMAIN slices'
    BY <1>1
  <2>5. \A s \in DOMAIN slices' : RowTold(s) = RowRead(s)
    BY <1>1, <2>2
  <2> HIDE DEF read, RowTold, RowRead, adds, drops, changed
  <2> QED BY <2>3, <2>4, <2>5
<1>3. ASSUME NEW s \in adds PROVE RowRead(s) = Shown(slices'[s])
  <2>1. \A d : Shown(Fresh(d)) = [status |-> "pending", deps |-> d, by |-> {}]
    BY DEF Shown, Fresh
  <2>2. slices'[s].status = "pending" /\ slices'[s].by = {}
    BY <1>1
  <2>3. RowRead(s) = Shown(Fresh(slices'[s].deps))
    BY DEF RowRead
  <2> HIDE DEF RowRead, adds
  <2> QED BY <2>1, <2>2, <2>3 DEF Shown
<1>4. ASSUME NEW s \in DOMAIN slices PROVE RowRead(s) = Shown(slices'[s])
  <2>1. s \notin adds
    BY <1>1
  <2>2. s \in changed <=> slices[s].deps # slices'[s].deps
    BY DEF ChangedDependsOn
  <2>3. s \in drops <=> slices[s].status # "superseded" /\ slices'[s].status = "superseded"
    BY DEF LandedDrops
  <2>4. adds = {} <=> DOMAIN slices' = DOMAIN slices
    BY <1>1
  <2> HIDE DEF adds, drops, changed
  <2>5. /\ (IF s \in drops THEN "superseded" ELSE slices[s].status) = slices'[s].status
        /\ (IF s \in changed THEN slices'[s].deps ELSE slices[s].deps) = slices'[s].deps
    BY <2>2, <2>3
  <2>6. (IF s \in drops /\ adds # {} THEN adds ELSE slices[s].by) = slices'[s].by
    BY <1>1, <2>3, <2>4
  <2> QED BY <2>1, <2>5, <2>6 DEF Shown
<1> HIDE DEF RowRead
<1>5. \A s \in DOMAIN slices' : RowRead(s) = Shown(slices'[s])
  BY <1>1, <1>3, <1>4
<1> QED BY <1>2, <1>5 DEF ShownIn

\* Either replan: some open slices are dropped, some rows get other dependencies
\* and lose their claim, the rest stays.
AreReplanned(after, added) ==
    /\ after \in [DOMAIN slices \cup added -> Rows]
    /\ \A s \in added :
         after[s].status = "pending" /\ after[s].by = {} /\ after[s].pact = NoPact
    /\ \A s \in DOMAIN slices :
         /\ after[s].pact = NoPact \/ after[s] = slices[s]
         /\ \/ after[s].status = slices[s].status /\ after[s].by = slices[s].by
            \/ /\ slices[s].status # "superseded" /\ after[s].status = "superseded"
               /\ after[s].by = IF added = {} THEN slices[s].by ELSE added

LEMMA ReplanKeepsInv ==
    ASSUME GraphInv, NEW asked, NEW added \in SUBSET Ids,
           added \cap DOMAIN slices = {}, NEW after, slices' = after,
           AreReplanned(after, added),
           Replanned(slices', asked)
    PROVE  GraphInv'
<1> USE DEF AreReplanned
<1>1. DOMAIN slices' = DOMAIN slices \cup added /\ slices' \in [DOMAIN slices' -> Rows]
  OBVIOUS
<1>4. DOMAIN slices \subseteq Ids /\ DOMAIN slices' \subseteq Ids
  BY <1>1 DEF GraphInv, GraphRows
<1>5. \A s \in DOMAIN slices' \ DOMAIN slices :
        slices'[s].status = "pending" /\ slices'[s].by = {} /\ slices'[s].pact = NoPact
  BY <1>1
<1>7. added = DOMAIN slices' \ DOMAIN slices
  BY <1>1
<1>8. AfterReplan(told.graph, slices', ChangedDependsOn(slices, slices'),
                  LandedAdds(slices, slices'), LandedDrops(slices, slices', asked))
        = ShownIn(slices')
  <2>1. added = {} <=> DOMAIN slices' = DOMAIN slices
    BY <1>1
  <2>2. \A s \in DOMAIN slices :
          \/ slices'[s].status = slices[s].status /\ slices'[s].by = slices[s].by
          \/ /\ slices[s].status # "superseded" /\ slices'[s].status = "superseded"
             /\ slices'[s].by = IF DOMAIN slices' = DOMAIN slices THEN slices[s].by
                                ELSE DOMAIN slices' \ DOMAIN slices
    BY <1>7, <2>1
  <2> QED BY <1>1, <1>5, <2>2, ReplanIsTold DEF GraphInv, PlanIsTold
<1>10. PersistSlices(slices') /\ Tell(slices', ShownIn(slices'), Ended(slices'))
  BY <1>8 DEF Replanned
<1>11. \A s \in Ended(slices') \cap DOMAIN slices' : slices'[s].pact = NoPact
  BY DEF Ended, ClaimedIn
<1>12. \A s \in DOMAIN slices' :
         \/ slices'[s].pact = NoPact
         \/ /\ slices'[s].pact.until \in {"live", "lapsed"}
            /\ slices'[s].pact.deps = slices'[s].deps
            /\ slices'[s].status \in Open
  BY <1>5 DEF GraphInv, ClaimedSlicesAreOpen, PlanIsTold, ClaimsMeanWhatTheyMeant,
                    ClaimedIn
<1>13. \A s \in DOMAIN slices \cap DOMAIN slices' :
         slices[s].pact.until = "lapsed" =>
           s \in Ended(slices') \/ slices'[s].pact.until = "lapsed"
  BY DEF Ended, ClaimedIn, NoPact
<1> QED BY <1>1, <1>4, <1>10, <1>11, <1>12, <1>13, WriteKeepsInv

AreRemounted(after, cut, onto) ==
    /\ after = [s \in DOMAIN cut |-> after[s]]
    /\ \A s \in DOMAIN cut :
         after[s] = cut[s] \/ after[s] = [Unclaimed(cut[s]) EXCEPT !.deps = onto]

\* The rows after either replan, from those that DropAndAdd leaves: a remounted
\* or refreshed row has the new dependencies and no claim.
LEMMA ReplannedRows ==
    ASSUME GraphInv, NEW drops, NEW added \in SUBSET Ids, NEW deps \in SUBSET Ids,
           NEW onto \in SUBSET Ids, added \cap DOMAIN slices = {},
           NEW cut, cut = DropAndAdd(drops, added, deps),
           NEW after, AreRemounted(after, cut, onto)
    PROVE  AreReplanned(after, added)
<1>0. AreCut(cut, added, deps)
  BY DropAndAddRows
<1>1. DOMAIN cut = DOMAIN slices \cup added /\ \A s \in DOMAIN cut : cut[s] \in Rows
  BY <1>0 DEF AreCut
<1>2. \A s \in added : cut[s] = Fresh(deps)
  BY <1>0 DEF AreCut
<1>3. \A s \in DOMAIN slices :
        \/ cut[s] = slices[s]
        \/ /\ slices[s].status \in Open /\ cut[s].status = "superseded"
           /\ cut[s].deps = slices[s].deps /\ cut[s].pact = NoPact
           /\ cut[s].by = IF added = {} THEN slices[s].by ELSE added
  BY <1>0 DEF AreCut
<1>4. ASSUME NEW s \in DOMAIN cut
      PROVE  /\ after[s] \in Rows
             /\ after[s].status = cut[s].status /\ after[s].by = cut[s].by
             /\ after[s] = cut[s] \/ after[s].pact = NoPact
  <2> DEFINE row == Unclaimed(cut[s])
  <2>1. /\ row \in Rows /\ row.pact = NoPact /\ row.status = cut[s].status
        /\ row.by = cut[s].by
    BY <1>1, UnclaimedType
  <2>2. after[s] = cut[s] \/ after[s] = [row EXCEPT !.deps = onto]
    BY DEF AreRemounted
  <2> HIDE DEF row
  <2>3. [row EXCEPT !.deps = onto] \in Rows
    BY <2>1 DEF Rows
  <2>4. CASE after[s] = cut[s]
    BY <1>1, <2>4
  <2>5. CASE after[s] = [row EXCEPT !.deps = onto]
    BY <2>1, <2>3, <2>5 DEF Rows
  <2> QED BY <2>2, <2>4, <2>5
<1>5. after \in [DOMAIN slices \cup added -> Rows]
  BY <1>1, <1>4 DEF AreRemounted
<1>6. \A s \in added :
        after[s].status = "pending" /\ after[s].by = {} /\ after[s].pact = NoPact
  BY <1>1, <1>2, <1>4, FreshType
<1>7. ASSUME NEW s \in DOMAIN slices
      PROVE  /\ after[s].pact = NoPact \/ after[s] = slices[s]
             /\ \/ after[s].status = slices[s].status /\ after[s].by = slices[s].by
                \/ /\ slices[s].status # "superseded" /\ after[s].status = "superseded"
                   /\ after[s].by = IF added = {} THEN slices[s].by ELSE added
  <2>1. CASE cut[s] = slices[s]
    BY <1>1, <1>4, <2>1
  <2>2. CASE /\ slices[s].status \in Open /\ cut[s].status = "superseded"
             /\ cut[s].pact = NoPact
             /\ cut[s].by = IF added = {} THEN slices[s].by ELSE added
    BY <1>1, <1>4, <2>2 DEF Open
  <2> QED BY <1>3, <2>1, <2>2
<1> QED BY <1>5, <1>6, <1>7 DEF AreReplanned

LEMMA ReplanDeltaStep ==
    ASSUME GraphInv, NEW drops, NEW added \in SUBSET Ids, NEW deps \in SUBSET Ids,
           NEW remounts, NEW onto \in SUBSET Ids,
           ReplanDelta(drops, added, deps, remounts, onto)
    PROVE  GraphInv'
<1>1. PICK cut : cut = DropAndAdd(drops, added, deps)
  OBVIOUS
<1>2. PICK after : after = [s \in DOMAIN cut |->
          IF s \in remounts /\ cut[s].deps # onto
          THEN [Unclaimed(cut[s]) EXCEPT !.deps = onto] ELSE cut[s]]
  OBVIOUS
<1>3. added \cap DOMAIN slices = {} /\ Replanned(after, drops)
  BY <1>1, <1>2 DEF ReplanDelta
<1>4. slices' = after
  BY <1>3 DEF Replanned, PersistSlices
<1>5. AreReplanned(after, added)
  <2>1. AreRemounted(after, cut, onto)
    BY <1>2 DEF AreRemounted
  <2> QED BY <1>1, <1>3, <2>1, ReplannedRows
<1> QED BY <1>3, <1>4, <1>5, ReplanKeepsInv

LEMMA ReplanAllStep ==
    ASSUME GraphInv, NEW named, NEW refreshed, NEW added \in SUBSET Ids,
           NEW deps \in SUBSET Ids, NEW onto \in SUBSET Ids,
           ReplanAll(named, refreshed, onto, added, deps)
    PROVE  GraphInv'
<1>1. PICK drops : drops = DOMAIN slices \ named
  OBVIOUS
<1>2. PICK cut : cut = DropAndAdd(drops, added, deps)
  OBVIOUS
<1>3. PICK after : after = [s \in DOMAIN cut |->
          IF s \in refreshed THEN Refreshed(cut[s], onto) ELSE cut[s]]
  OBVIOUS
<1>4. added \cap DOMAIN slices = {} /\ Replanned(after, drops)
  BY <1>1, <1>2, <1>3 DEF ReplanAll
<1>5. slices' = after
  BY <1>4 DEF Replanned, PersistSlices
<1>6. AreRemounted(after, cut, onto)
  BY <1>3 DEF Refreshed, AreRemounted
<1>7. AreReplanned(after, added)
  BY <1>2, <1>4, <1>6, ReplannedRows
<1> QED BY <1>4, <1>5, <1>7, ReplanKeepsInv

\* An event of one slice's status, read.
LEMMA StatusIsTold ==
    ASSUME JournalTellsTheGraph, NEW s \in DOMAIN slices, NEW row \in Rows,
           row.deps = slices[s].deps, row.by = slices[s].by
    PROVE  /\ SetStatus(told.graph, s, row.status) = ShownIn([slices EXCEPT ![s] = row])
           /\ row.status = slices[s].status => told.graph = ShownIn([slices EXCEPT ![s] = row])
<1> DEFINE after == [slices EXCEPT ![s] = row]
           graph == SetStatus(told.graph, s, row.status)
<1>1. DOMAIN after = DOMAIN slices /\ after[s] = row
      /\ \A x \in DOMAIN slices \ {s} : after[x] = slices[x]
  OBVIOUS
<1>2. DOMAIN told.graph = DOMAIN slices /\ told.graph = [x \in DOMAIN slices |-> Shown(slices[x])]
  BY DEF JournalTellsTheGraph, ShownIn
<1> HIDE DEF after
<1>3. [Shown(slices[s]) EXCEPT !.status = row.status] = Shown(row)
  BY DEF Shown
<1>4. graph = [x \in DOMAIN slices |-> IF x = s THEN Shown(row) ELSE Shown(slices[x])]
  BY <1>2, <1>3 DEF SetStatus
<1>5. ShownIn(after) = [x \in DOMAIN slices |-> IF x = s THEN Shown(row) ELSE Shown(slices[x])]
  BY <1>1 DEF ShownIn
<1>6. row.status = slices[s].status => Shown(row) = Shown(slices[s])
  BY DEF Shown
<1> QED BY <1>2, <1>4, <1>5, <1>6 DEF after

\* The write of one row, with what is told of it.
LEMMA RowStep ==
    ASSUME GraphInv, NEW s \in DOMAIN slices, NEW row \in Rows, NEW ended, NEW graph,
           NEW after, after = [slices EXCEPT ![s] = row],
           row.deps = slices[s].deps, row.by = slices[s].by,
           \/ graph = SetStatus(told.graph, s, row.status)
           \/ graph = told.graph /\ row.status = slices[s].status,
           PersistSlices(after), Tell(after, graph, ended),
           \/ row.pact = NoPact
           \/ /\ row.pact.until = "live" /\ row.pact.deps = row.deps
              /\ row.status \in Open /\ s \notin ended /\ slices[s].pact.until # "lapsed",
           slices[s].pact.until = "lapsed" => s \in ended,
           \A x \in ended \ {s} : x \in DOMAIN slices => slices[x].pact = NoPact
    PROVE  GraphInv'
<1>1. slices' = after
  BY DEF PersistSlices
<1>2. DOMAIN after = DOMAIN slices /\ after[s] = row
      /\ \A x \in DOMAIN slices \ {s} : after[x] = slices[x]
  OBVIOUS
<1>3. graph = ShownIn(after)
  BY StatusIsTold DEF GraphInv, PlanIsTold
<1>4. after \in [DOMAIN slices -> Rows] /\ DOMAIN slices \subseteq Ids
  BY DEF GraphInv, GraphRows
<1>5. Tell(slices', ShownIn(slices'), ended) /\ PersistSlices(slices')
  BY <1>1, <1>3
<1>6. slices' \in [DOMAIN slices' -> Rows] /\ DOMAIN slices' \subseteq Ids
  BY <1>1, <1>2, <1>4
<1>7. \A x \in ended \cap DOMAIN slices' : slices'[x].pact = NoPact
  BY <1>1, <1>2
<1>8. \A x \in DOMAIN slices' :
        \/ slices'[x].pact = NoPact
        \/ /\ slices'[x].pact.until \in {"live", "lapsed"}
           /\ slices'[x].pact.deps = slices'[x].deps
           /\ slices'[x].status \in Open
  BY <1>1, <1>2 DEF GraphInv, ClaimedSlicesAreOpen, PlanIsTold, ClaimsMeanWhatTheyMeant,
                    ClaimedIn
<1>9. \A x \in DOMAIN slices \cap DOMAIN slices' :
        slices[x].pact.until = "lapsed" =>
          x \in ended \/ slices'[x].pact.until = "lapsed"
  BY <1>1, <1>2
<1> QED BY <1>5, <1>6, <1>7, <1>8, <1>9, WriteKeepsInv

LEMMA ThreadUpdateStep ==
    ASSUME GraphInv, NEW s, NEW status \in Statuses, NEW force, ThreadUpdate(s, status, force)
    PROVE  GraphInv'
<1>1. s \in DOMAIN slices /\ slices[s] \in Rows
  BY DEF ThreadUpdate, GraphInv, GraphRows
<1>2. PICK mid : mid = [slices[s] EXCEPT !.status = status]
  OBVIOUS
<1>3. mid \in Rows /\ mid.status = status /\ mid.deps = slices[s].deps /\ mid.by = slices[s].by
  BY <1>1, <1>2 DEF Rows
<1>4. PICK row : row = Unclaimed(mid)
  OBVIOUS
<1>5. /\ row \in Rows /\ row.pact = NoPact /\ row.status = status
      /\ row.deps = slices[s].deps /\ row.by = slices[s].by
  BY <1>3, <1>4, UnclaimedType
<1>6. PICK after : after = [slices EXCEPT ![s] = row]
  OBVIOUS
<1>7. after = [SetStatus(slices, s, status) EXCEPT ![s] = Unclaimed(@)]
  BY <1>1, <1>2, <1>4, <1>6 DEF SetStatus
<1>8. PersistSlices(after) /\ Tell(after, SetStatus(told.graph, s, row.status), Ended(after))
  BY <1>5, <1>7 DEF ThreadUpdate
<1>9. \A x \in DOMAIN slices : x \in Ended(after) <=> x = s /\ slices[s].pact # NoPact
  BY <1>1, <1>5, <1>6 DEF Ended, ClaimedIn
<1>10. slices[s].pact.until = "lapsed" => s \in Ended(after)
  BY <1>1, <1>9 DEF NoPact
<1>11. \A x \in Ended(after) \ {s} : x \in DOMAIN slices => slices[x].pact = NoPact
  BY <1>9
<1> QED BY <1>1, <1>5, <1>6, <1>8, <1>10, <1>11, RowStep

\* assignSlice, and the sweep of an expired claim.
LEMMA ClaimEndsStep ==
    ASSUME GraphInv, NEW s \in DOMAIN slices, NEW after,
           after = [slices EXCEPT ![s] = Unclaimed(@)],
           PersistSlices(after), Tell(after, told.graph, {s})
    PROVE  GraphInv'
<1>1. slices[s] \in Rows
  BY DEF GraphInv, GraphRows
<1>2. PICK row : row = Unclaimed(slices[s])
  OBVIOUS
<1>3. /\ row \in Rows /\ row.pact = NoPact /\ row.status = slices[s].status
      /\ row.deps = slices[s].deps /\ row.by = slices[s].by
  BY <1>1, <1>2, UnclaimedType
<1>4. after = [slices EXCEPT ![s] = row]
  BY <1>2
<1> QED BY <1>3, <1>4, RowStep

LEMMA ReassignOrSweepStep ==
    ASSUME GraphInv, NEW s, Reassign(s) \/ Sweep(s) PROVE GraphInv'
<1>1. PICK after : after = [slices EXCEPT ![s] = Unclaimed(@)]
  OBVIOUS
<1>2. s \in DOMAIN slices /\ PersistSlices(after) /\ Tell(after, told.graph, {s})
  BY <1>1 DEF Reassign, Sweep
<1> QED BY <1>1, <1>2, ClaimEndsStep

LEMMA WorkerClaimsStep ==
    ASSUME GraphInv, NEW s, WorkerClaims(s) PROVE GraphInv'
<1>1. s \in DOMAIN slices /\ slices[s] \in Rows /\ slices[s].status \in Open
  BY DEF WorkerClaims, ReadyIn, GraphInv, GraphRows
<1>2. PICK pact : pact = [until |-> "live", deps |-> slices[s].deps]
  OBVIOUS
<1>3. pact \in Pacts /\ pact.until = "live" /\ pact.deps = slices[s].deps
  BY <1>1, <1>2 DEF Rows, Pacts
<1>4. PICK row : row = [slices[s] EXCEPT !.pact = pact]
  OBVIOUS
<1>5. /\ row \in Rows /\ row.pact = pact /\ row.status = slices[s].status
      /\ row.deps = slices[s].deps /\ row.by = slices[s].by
  BY <1>1, <1>3, <1>4 DEF Rows
<1>6. PICK after : after = [slices EXCEPT ![s] = row]
  OBVIOUS
<1>7. after = [slices EXCEPT ![s].pact = pact]
  BY <1>4, <1>6
<1>8. PersistSlices(after) /\ Tell(after, told.graph, {})
  BY <1>2, <1>7 DEF WorkerClaims
<1>9. slices[s].pact.until # "lapsed"
  BY <1>1 DEF WorkerClaims, Swept
<1> QED BY <1>1, <1>3, <1>5, <1>6, <1>8, <1>9, RowStep

LEMMA WorkerUpdatesStep ==
    ASSUME GraphInv, NEW s, NEW status \in {"working", "done"}, WorkerUpdates(s, status)
    PROVE  GraphInv'
<1>1. s \in DOMAIN slices /\ slices[s] \in Rows
  BY DEF WorkerUpdates, GraphInv, GraphRows
<1>2. PICK mid : mid = [slices[s] EXCEPT !.status = status]
  OBVIOUS
<1>3. /\ mid \in Rows /\ mid.status = status /\ mid.deps = slices[s].deps
      /\ mid.by = slices[s].by /\ mid.pact = slices[s].pact
  BY <1>1, <1>2 DEF Rows, Statuses, Open
<1>4. PICK row : row = IF status = "done" THEN Unclaimed(mid) ELSE mid
  OBVIOUS
<1>5. /\ row \in Rows /\ row.status = status /\ row.deps = slices[s].deps
      /\ row.by = slices[s].by
      /\ row.pact = IF status = "done" THEN NoPact ELSE slices[s].pact
  BY <1>3, <1>4, UnclaimedType
<1>6. PICK after : after = [slices EXCEPT ![s] = row]
  OBVIOUS
<1>7. after = IF status = "done" THEN [SetStatus(slices, s, status) EXCEPT ![s] = Unclaimed(@)]
              ELSE SetStatus(slices, s, status)
  BY <1>1, <1>2, <1>4, <1>6 DEF SetStatus
<1>8. PersistSlices(after) /\ Tell(after, SetStatus(told.graph, s, row.status), {})
  BY <1>5, <1>7 DEF WorkerUpdates
<1>9. slices[s].pact.until = "live" /\ slices[s].pact # NoPact
  BY DEF WorkerUpdates, NoPact
<1>10. slices[s].pact.deps = slices[s].deps
  BY <1>1, <1>9 DEF GraphInv, PlanIsTold, ClaimsMeanWhatTheyMeant, ClaimedIn
<1> QED BY <1>1, <1>5, <1>6, <1>8, <1>9, <1>10, RowStep DEF Open

LEMMA LeaseLapsesStep ==
    ASSUME GraphInv, NEW s, LeaseLapses(s) PROVE GraphInv'
<1>1. s \in DOMAIN slices /\ slices[s] \in Rows /\ slices[s].pact.until = "live"
  BY DEF LeaseLapses, GraphInv, GraphRows
<1>2. PICK row : row = [slices[s] EXCEPT !.pact.until = "lapsed"]
  OBVIOUS
<1>3. /\ row \in Rows /\ row.status = slices[s].status /\ row.deps = slices[s].deps
      /\ row.by = slices[s].by
      /\ row.pact.until = "lapsed" /\ row.pact.deps = slices[s].pact.deps
  BY <1>1, <1>2 DEF Rows, Pacts
<1>4. PICK after : after = [slices EXCEPT ![s] = row]
  OBVIOUS
<1>5. slices' = after /\ UNCHANGED <<kept, writes, told>>
  BY <1>2, <1>4 DEF LeaseLapses
<1>6. DOMAIN after = DOMAIN slices /\ after[s] = row
      /\ \A x \in DOMAIN slices \ {s} : after[x] = slices[x]
  BY <1>1, <1>4
<1>7. slices[s].pact # NoPact /\ row.pact # NoPact
  BY <1>1, <1>3 DEF NoPact
<1>8. GraphRows'
  <2>1. after \in [DOMAIN slices -> Rows]
    BY <1>1, <1>3, <1>4 DEF GraphInv, GraphRows
  <2>2. slices' \in [DOMAIN slices' -> Rows] /\ DOMAIN slices' \subseteq Ids
    BY <1>5, <1>6, <2>1 DEF GraphInv, GraphRows
  <2>3. kept' \in [DOMAIN kept' -> Rows] /\ DOMAIN kept' \subseteq Ids
    BY <1>5 DEF GraphInv, GraphRows
  <2>4. writes' \in 0..MaxWrites
    BY <1>5 DEF GraphInv, GraphRows
  <2> QED BY <2>2, <2>3, <2>4 DEF GraphRows
<1>9. ClaimedSlicesAreOpen'
  BY <1>1, <1>3, <1>5, <1>6, <1>7 DEF GraphInv, ClaimedSlicesAreOpen
<1>10. ClaimsMeanWhatTheyMeant'
  BY <1>1, <1>3, <1>5, <1>6, <1>7 DEF GraphInv, PlanIsTold, ClaimsMeanWhatTheyMeant, ClaimedIn
<1>11. JournalTellsTheGraph'
  <2>1. told.graph = ShownIn(after)
    BY <1>1, <1>3, <1>4, StatusIsTold DEF GraphInv, PlanIsTold
  <2>2. ShownIn(slices)' = ShownIn(after)
    BY <1>5 DEF ShownIn, Shown
  <2> QED BY <1>5, <2>1, <2>2 DEF JournalTellsTheGraph
<1>12. JournalTellsWhatIsReady'
  <2>1. \A x \in DOMAIN slices : Unmet(after, x) = Unmet(slices, x)
    BY <1>3, <1>6 DEF Unmet, Met
  <2>2. ReadyIn(slices) \subseteq ReadyIn(after)
    BY <1>1, <1>3, <1>6, <2>1 DEF ReadyIn
  <2>3. ReadyIn(after) \subseteq ReadyIn(slices) \cup {s}
    BY <1>1, <1>3, <1>6, <2>1 DEF ReadyIn
  <2>4. told.ready \subseteq ReadyIn(after)
    BY <2>2 DEF GraphInv, PlanIsTold, JournalTellsWhatIsReady
  <2>5. s \notin ReadyIn(slices) /\ ReadyIn(slices) \subseteq DOMAIN slices
    BY <1>1 DEF ReadyIn
  <2>6. \A x \in ReadyIn(after) \ told.ready : after[x].pact.until = "lapsed"
    BY <1>3, <1>6, <2>3, <2>5 DEF GraphInv, PlanIsTold, JournalTellsWhatIsReady
  <2>7. ReadyIn(slices)' = ReadyIn(after)
    BY <1>5 DEF ReadyIn, Unmet, Met
  <2> QED BY <1>5, <2>4, <2>6, <2>7 DEF JournalTellsWhatIsReady
<1> QED BY <1>8, <1>9, <1>10, <1>11, <1>12 DEF GraphInv, PlanIsTold

LEMMA ThreadRestoreStep ==
    ASSUME GraphInv, ThreadRestore PROVE GraphInv'
<1>1. PICK after : after = [s \in DOMAIN kept |-> Unclaimed(kept[s])]
  OBVIOUS
<1>2. PersistSlices(after) /\ Tell(after, ShownIn(kept), ClaimedIn(slices))
  BY <1>1 DEF ThreadRestore
<1>3. slices' = after
  BY <1>2 DEF PersistSlices
<1>4. ASSUME NEW s \in DOMAIN kept
      PROVE  /\ after[s] \in Rows /\ after[s].pact = NoPact
             /\ after[s].status = kept[s].status /\ after[s].deps = kept[s].deps
             /\ after[s].by = kept[s].by
  BY <1>1, UnclaimedType DEF GraphInv, GraphRows
<1>5. DOMAIN after = DOMAIN kept
  BY <1>1
<1>6. ShownIn(kept) = ShownIn(after)
  BY <1>4, <1>5, ShownEqual
<1>7. slices' \in [DOMAIN slices' -> Rows] /\ DOMAIN slices' \subseteq Ids
  BY <1>1, <1>3, <1>4, <1>5 DEF GraphInv, GraphRows
<1>8. Tell(slices', ShownIn(slices'), ClaimedIn(slices)) /\ PersistSlices(slices')
  BY <1>2, <1>3, <1>6
<1>9. \A s \in DOMAIN slices' : slices'[s].pact = NoPact
  BY <1>3, <1>4, <1>5
<1>10. \A s \in DOMAIN slices \cap DOMAIN slices' :
         slices[s].pact.until = "lapsed" =>
           s \in ClaimedIn(slices) \/ slices'[s].pact.until = "lapsed"
  BY DEF ClaimedIn, NoPact
<1> QED BY <1>7, <1>8, <1>9, <1>10, WriteKeepsInv

LEMMA GraphStepInv == GraphInv /\ [GraphNext]_graphVars => GraphInv'
<1> SUFFICES ASSUME GraphInv, [GraphNext]_graphVars PROVE GraphInv'
  OBVIOUS
<1> USE PlanGraphAssumption
<1>1. ASSUME NEW s \in Ids, NEW status \in Statuses, NEW force \in BOOLEAN,
             ThreadUpdate(s, status, force)
      PROVE  GraphInv'
  BY <1>1, ThreadUpdateStep
<1>2. ASSUME NEW s \in Ids, Reassign(s) \/ Sweep(s) PROVE GraphInv'
  BY <1>2, ReassignOrSweepStep
<1>3. ASSUME NEW s \in Ids, WorkerClaims(s) PROVE GraphInv'
  BY <1>3, WorkerClaimsStep
<1>4. ASSUME NEW s \in Ids, LeaseLapses(s) PROVE GraphInv'
  BY <1>4, LeaseLapsesStep
<1>5. ASSUME NEW s \in Ids, NEW status \in {"working", "done"}, WorkerUpdates(s, status)
      PROVE  GraphInv'
  BY <1>5, WorkerUpdatesStep
<1>6. \A x \in AtMostOne : \A deps \in EdgesOf(x) : x \in SUBSET Ids /\ deps \in SUBSET Ids
  BY DEF AtMostOne, EdgesOf
<1>7. ASSUME NEW drops \in AtMostOne, NEW added \in AtMostOne, NEW remounts \in AtMostOne,
             NEW deps \in EdgesOf(added), NEW onto \in EdgesOf(remounts),
             ReplanDelta(drops, added, deps, remounts, onto)
      PROVE  GraphInv'
  <2>1. added \in SUBSET Ids /\ deps \in SUBSET Ids /\ onto \in SUBSET Ids
    BY <1>6
  <2> QED BY <1>7, <2>1, ReplanDeltaStep
<1>8. ASSUME NEW named \in SUBSET DOMAIN slices, NEW refreshed \in AtMostOne,
             NEW added \in AtMostOne, NEW deps \in EdgesOf(added),
             NEW onto \in EdgesOf(refreshed), ReplanAll(named, refreshed, onto, added, deps)
      PROVE  GraphInv'
  <2>1. added \in SUBSET Ids /\ deps \in SUBSET Ids /\ onto \in SUBSET Ids
    BY <1>6
  <2> QED BY <1>8, <2>1, ReplanAllStep
<1>9. CASE ThreadRestore
  BY <1>9, ThreadRestoreStep
<1>10. CASE UNCHANGED graphVars
  <2>1. GraphRows' /\ ClaimedSlicesAreOpen'
    BY <1>10 DEF graphVars, GraphInv, GraphRows, ClaimedSlicesAreOpen
  <2>2. PlanIsTold'
    BY <1>10 DEF graphVars, GraphInv, PlanIsTold, JournalTellsTheGraph, ShownIn, Shown,
                 JournalTellsWhatIsReady, ReadyIn, Unmet, Met, ClaimsMeanWhatTheyMeant,
                 ClaimedIn
  <2> QED BY <2>1, <2>2 DEF GraphInv
<1> QED BY <1>1, <1>2, <1>3, <1>4, <1>5, <1>7, <1>8, <1>9, <1>10 DEF GraphNext

LEMMA GraphInvariant == GraphSpec => []GraphInv
BY GraphInitInv, GraphStepInv, PTL DEF GraphSpec

\* Whoever follows the events of a plan, or works under a claim on one of its
\* slices, is not misled: after any sequence of updates, replans, restores, claims
\* and sweeps the events add up to the plan, and what they call ready is ready.
THEOREM EventsTellThePlan == GraphSpec => []PlanIsTold
<1>1. GraphInv => PlanIsTold
  BY DEF GraphInv
<1> QED BY GraphInvariant, <1>1, PTL

\* The rows keep their shape, and only an open slice has a claim.
THEOREM GraphTypeCorrect == GraphSpec => []GraphTypeOK
<1>1. GraphInv => GraphTypeOK
  <2> SUFFICES ASSUME GraphInv PROVE GraphTypeOK
    OBVIOUS
  <2>1. \A s \in DOMAIN slices :
          /\ slices[s].status \in Statuses
          /\ slices[s].deps \cup slices[s].by \cup slices[s].pact.deps \subseteq Ids
    BY DEF GraphInv, GraphRows, Rows, Pacts
  <2> QED BY <2>1 DEF GraphInv, GraphRows, ClaimedSlicesAreOpen, GraphTypeOK
<1> QED BY GraphInvariant, <1>1, PTL

-----------------------------------------------------------------------------
(* The journal: ThreadJournal *)

\* The events of the journal, and the revision of the last one.
AnyKeys == SystemKinds \X Nat \cup {"slice.claimed"} \X Writers
EventRows == [seq : Nat, rev : Nat, key : AnyKeys, actor : Writers]
LastRev == IF journal = << >> THEN 0 ELSE journal[Len(journal)].rev

IsMap(f, S) == f = [x \in S |-> f[x]]
IsCall(r) == r = [op |-> r.op, todo |-> r.todo, snap |-> r.snap, key |-> r.key]
IsClient(r) == /\ r = [pc |-> r.pc, store |-> r.store, ids |-> r.ids]
               /\ r.ids \subseteq Agents

\* Only the call that holds the lock is under way or relays, and it has read the
\* journal as it is.
CallsHoldTheLock ==
    /\ note \in [rev : Nat, claim : Writers \cup {Nobody}, lapsed : BOOLEAN]
    /\ journal \in Seq(EventRows) /\ lock \in Writers \cup {Nobody}
    /\ \A p \in Writers : /\ (lock = p) = (writer[p].op # "none")
                          /\ client[p].pc # "away" => lock = p
                          /\ lock = p => writer[p].snap = journal
    /\ IsMap(writer, Writers) /\ \A p \in Writers : IsCall(writer[p])
    /\ IsMap(client, Clients) /\ \A c \in Clients : IsClient(client[c])

\* Revisions rise in the journal, and the key of a system event has its revision.
RevsRise ==
    /\ \A i \in DOMAIN journal :
         /\ journal[i].seq = i /\ journal[i].rev <= note.rev
         /\ journal[i].key[1] \in SystemKinds => journal[i].key[2] = journal[i].rev
    /\ \A i, j \in DOMAIN journal : i <= j => journal[i].rev <= journal[j].rev
    /\ \A i, j \in DOMAIN journal : journal[i].key = journal[j].key => i = j
    /\ \A i \in 2..Len(journal) :
         journal[i].rev - journal[i - 1].rev > 1 => journal[i].key[1] = "state.recovered"

\* How far the note may be ahead of the journal.
Level == journal # << >> /\ note.rev = LastRev
Ahead == journal # << >> /\ note.rev \in {LastRev, LastRev + 1}
OwnKey(call) == call.key[1] \in SystemKinds => call.key[2] = note.rev

\* What a call has left to do, and how far the note may be ahead of the journal
\* when it does it.
OnTrack(call) ==
    /\ call.key \in AnyKeys
    /\ \/ call.todo = <<"reconcile", "baseline", "mutate">> /\ call.op # "heal"
       \/ /\ call.todo = <<"baseline", "mutate">> /\ call.op # "heal"
          /\ journal = << >> \/ Level
       \/ call.todo = <<"mutate">> /\ call.op # "heal" /\ Level
       \/ call.todo = <<"mutate", "reconcile", "baseline", "record">> /\ call.op = "heal"
       \/ call.todo = <<"reconcile", "baseline", "record">> /\ OwnKey(call)
       \/ call.todo = <<"baseline", "record">> /\ OwnKey(call) /\ (journal = << >> \/ Level)
       \/ call.todo = <<"record">> /\ OwnKey(call) /\ Ahead
       \/ /\ call.todo = <<"record", "mutate">> /\ call.op = "claim" /\ Ahead
          /\ call.key = <<"slice.lease_expired", note.rev>>
       \/ call.todo = << >>
CallsAreOnTrack == \A p \in Writers : lock = p => OnTrack(writer[p])

\* A store: what is behind no row's cursor is pending for it, up to some event,
\* and what is not has been shown.
Trails(store, seen) ==
    /\ DOMAIN store.cursor \subseteq Agents
    /\ \A a \in Agents : CursorFor(store, a) \in Nat /\ 1..CursorFor(store, a) \subseteq seen[a]
    /\ \E rows \in SUBSET Agents, m \in Nat :
         store.pending = {n \in rows \X (1..m) : n[2] > CursorFor(store, n[1])}

\* A stretch of events that follows on those that have been seen.
Follows(seqs, seen) ==
    \E k, m \in Nat : k < m /\ seqs = (k + 1)..m /\ 1..k \subseteq seen

\* What a hook shows follows on what its agent has seen, and is confirmed only
\* once it has been seen.
HooksFollow ==
    /\ IsMap(attached, Hooks) /\ IsMap(shown, Agents)
    /\ \A h \in Hooks : /\ attached[h] = {} => client[h].pc = "away"
                        /\ attached[h] # {} => Follows(attached[h], shown[Who[h]])
                        /\ client[h].pc = "load" => attached[h] \subseteq shown[Who[h]]

StoresTrail == /\ Trails(relay.store, shown) /\ \A c \in Clients : Trails(client[c].store, shown)

RelayPart == HooksFollow /\ StoresTrail

LEMMA MaxOf ==
    ASSUME NEW S \in SUBSET Int, NEW x \in S, \A y \in S : y <= x
    PROVE  Max(S) = x
<1>1. \E y \in S : \A z \in S : y >= z
  OBVIOUS
<1>2. Max(S) \in S /\ \A z \in S : Max(S) >= z
  BY <1>1 DEF Max
<1>3. Max(S) \in Int /\ x \in Int /\ Max(S) <= x /\ Max(S) >= x
  BY <1>2
<1> QED BY <1>3

LEMMA SnapshotReads ==
    ASSUME CallsHoldTheLock, RevsRise
    PROVE  NextSeq(journal) = Len(journal) + 1 /\ JournalRev(journal) = LastRev
           /\ LastRev \in Nat /\ LastRev <= note.rev
<1>1. journal \in Seq(EventRows) /\ note.rev \in Nat
  BY DEF CallsHoldTheLock
<1>2. \A i \in DOMAIN journal : journal[i] \in EventRows /\ journal[i].rev \in Nat
  <2>1. \A i \in DOMAIN journal : journal[i] \in EventRows
    BY <1>1
  <2> QED BY <2>1 DEF EventRows
<1>3. DOMAIN journal = 1..Len(journal) /\ Len(journal) \in Nat
  BY <1>1
<1>4. Max({0} \cup {journal[i].seq : i \in DOMAIN journal}) = Len(journal)
  <2> DEFINE S == {0} \cup {journal[i].seq : i \in DOMAIN journal}
  <2>1. S = 0..Len(journal)
    BY <1>3 DEF RevsRise
  <2> HIDE DEF S
  <2>2. S \in SUBSET Int /\ Len(journal) \in S /\ \A y \in S : y <= Len(journal)
    BY <1>3, <2>1
  <2>3. Max(S) = Len(journal)
    BY <2>2, MaxOf
  <2> QED BY <2>3 DEF S
<1>5. Max({0} \cup {journal[i].rev : i \in DOMAIN journal}) = LastRev
  <2> DEFINE S == {0} \cup {journal[i].rev : i \in DOMAIN journal}
  <2>1. S \in SUBSET Int
    BY <1>2
  <2>2. LastRev \in S
    BY <1>3 DEF LastRev
  <2>3. \A y \in S : y <= LastRev
    BY <1>2, <1>3 DEF LastRev, RevsRise
  <2> HIDE DEF S
  <2>4. Max(S) = LastRev
    BY <2>1, <2>2, <2>3, MaxOf
  <2> QED BY <2>4 DEF S
<1>6. LastRev \in Nat /\ LastRev <= note.rev
  BY <1>1, <1>2, <1>3 DEF LastRev, RevsRise
<1>7. NextSeq(journal) = 1 + Len(journal)
  BY <1>4 DEF NextSeq
<1>8. JournalRev(journal) = LastRev
  BY <1>5 DEF JournalRev
<1> QED BY <1>3, <1>6, <1>7, <1>8

\* An event appended at the note's revision, its key a new one, keeps the journal
\* without gaps, as long as a skipped revision is marked as recovered.
LEMMA AppendKeepsOrder ==
    ASSUME CallsHoldTheLock, RevsRise, NEW key \in AnyKeys, NEW p \in Writers,
           key[1] \in SystemKinds => key[2] = note.rev,
           journal # << >> /\ note.rev > LastRev + 1 => key[1] = "state.recovered",
           ~HasKey(journal, key), note' = note,
           journal' = Append(journal, [seq |-> NextSeq(journal), rev |-> note.rev,
                                       key |-> key, actor |-> p])
    PROVE  /\ RevsRise' /\ journal' \in Seq(EventRows)
           /\ journal' # << >> /\ LastRev' = note.rev /\ HasKey(journal', key)
<1> DEFINE event == [seq |-> NextSeq(journal), rev |-> note.rev, key |-> key, actor |-> p]
           n == Len(journal)
<1>1. journal \in Seq(EventRows) /\ n \in Nat /\ note.rev \in Nat /\ DOMAIN journal = 1..n
  BY DEF CallsHoldTheLock
<1>2. event.seq = n + 1 /\ event.rev = note.rev /\ event.key = key
  BY SnapshotReads
<1>3. event \in EventRows
  BY <1>1, SnapshotReads DEF EventRows
<1> HIDE DEF event
<1>4. journal' = Append(journal, event)
  BY DEF event
<1>5. /\ journal' \in Seq(EventRows) /\ Len(journal') = n + 1 /\ DOMAIN journal' = 1..(n + 1)
      /\ journal'[n + 1] = event /\ \A i \in 1..n : journal'[i] = journal[i]
  BY <1>1, <1>3, <1>4
<1>6. \A i \in 1..n : journal[i] \in EventRows /\ journal[i].rev \in Nat
  <2>1. \A i \in 1..n : journal[i] \in EventRows
    BY <1>1
  <2> QED BY <2>1 DEF EventRows
<1>7. ASSUME NEW i \in DOMAIN journal'
      PROVE  /\ journal'[i].seq = i /\ journal'[i].rev <= note'.rev
             /\ journal'[i].key[1] \in SystemKinds => journal'[i].key[2] = journal'[i].rev
  BY <1>1, <1>2, <1>5 DEF RevsRise
<1>8. ASSUME NEW i \in DOMAIN journal', NEW j \in DOMAIN journal', i <= j
      PROVE  journal'[i].rev <= journal'[j].rev
  BY <1>1, <1>2, <1>5, <1>6, <1>8 DEF RevsRise
<1>9. ASSUME NEW i \in DOMAIN journal', NEW j \in DOMAIN journal',
             journal'[i].key = journal'[j].key
      PROVE  i = j
  <2>1. \A x \in 1..n : journal[x].key # key
    BY <1>1 DEF HasKey
  <2> QED BY <1>1, <1>2, <1>5, <1>9, <2>1 DEF RevsRise
<1>10. ASSUME NEW i \in 2..Len(journal'), journal'[i].rev - journal'[i - 1].rev > 1
       PROVE  journal'[i].key[1] = "state.recovered"
  <2>1. CASE i \in 2..n
    BY <1>1, <1>5, <1>10, <2>1 DEF RevsRise
  <2>2. CASE i = n + 1
    <3>0. n \in 1..n /\ i - 1 = n /\ journal # << >>
      BY <1>1, <1>5, <2>2
    <3>1. journal'[i - 1] = journal[n] /\ LastRev = journal[n].rev /\ LastRev \in Nat
      BY <1>5, <1>6, <3>0 DEF LastRev
    <3>3. journal'[i].rev = note.rev
      BY <1>2, <1>5, <2>2
    <3>2. note.rev > LastRev + 1
      BY <1>1, <1>10, <3>1, <3>3
    <3> QED BY <1>2, <1>5, <2>2, <3>1, <3>2
  <2> QED BY <1>1, <1>5, <2>1, <2>2
<1>11. RevsRise'
  BY <1>7, <1>8, <1>9, <1>10 DEF RevsRise
<1>12. journal' # << >> /\ LastRev' = note.rev
  BY <1>1, <1>2, <1>5 DEF LastRev
<1>13. HasKey(journal', key)
  BY <1>1, <1>2, <1>5 DEF HasKey
<1> QED BY <1>5, <1>11, <1>12, <1>13

\* A system key is in the journal only at its revision.
LEMMA KeyTellsRev ==
    ASSUME CallsHoldTheLock, RevsRise, NEW key \in AnyKeys, key[1] \in SystemKinds,
           key[2] = note.rev, HasKey(journal, key)
    PROVE  Level
<1>1. PICK i \in DOMAIN journal : journal[i].key = key
  BY DEF HasKey
<1>2. journal \in Seq(EventRows) /\ note.rev \in Nat
  BY DEF CallsHoldTheLock
<1>3. journal[i].rev = note.rev
  BY <1>1 DEF RevsRise
<1>4. journal # << >> /\ Len(journal) \in DOMAIN journal /\ i <= Len(journal)
  BY <1>1, <1>2
<1>5. journal[i].rev <= LastRev
  BY <1>1, <1>4 DEF RevsRise, LastRev
<1> QED BY <1>2, <1>3, <1>4, <1>5, SnapshotReads DEF Level

\* What an append does to the call that makes it: it goes on to its next step
\* with the journal in its snapshot and the key there, or it ends.
GoesOn(p, todo) == /\ lock' = lock
                   /\ writer' = [writer EXCEPT ![p].snap = journal', ![p].todo = todo]
Relays(p) == client' \in {client, [client EXCEPT ![p].pc = "seed"]}

LEMMA AppendStep ==
    ASSUME CallsHoldTheLock, RevsRise, NEW p \in Writers, lock = p, client[p].pc = "away",
           NEW key \in AnyKeys, key[1] \in SystemKinds => key[2] = note.rev,
           journal # << >> /\ note.rev > LastRev + 1 => key[1] = "state.recovered",
           note' = note, AppendBatch(p, key)
    PROVE  /\ RevsRise' /\ journal' \in Seq(EventRows) /\ Relays(p)
           /\ \/ GoesOn(p, Rest(p)) /\ HasKey(journal', key)
              \/ Ends(p) /\ client' = client
           /\ journal' = journal \/ (journal' # << >> /\ LastRev' = note.rev)
<1> DEFINE event == [seq |-> NextSeq(journal), rev |-> note.rev, key |-> key, actor |-> p]
<1>1. writer[p].snap = journal /\ journal \in Seq(EventRows)
  BY DEF CallsHoldTheLock
<1>2. ASSUME journal' = journal
      PROVE  RevsRise' /\ journal' \in Seq(EventRows)
  BY <1>1, <1>2 DEF RevsRise
<1>3. ASSUME journal' = Append(journal, event), ~HasKey(journal, key)
      PROVE  /\ RevsRise' /\ journal' \in Seq(EventRows)
             /\ journal' # << >> /\ LastRev' = note.rev /\ HasKey(journal', key)
  BY <1>3, AppendKeepsOrder
<1>4. CASE /\ HasKey(journal, key)
           /\ writer' = [writer EXCEPT ![p].todo = Rest(p)]
           /\ UNCHANGED <<journal, lock, client, jfaults>>
  <2>1. writer' = [writer EXCEPT ![p].snap = journal', ![p].todo = Rest(p)]
    BY <1>1, <1>4 DEF CallsHoldTheLock
  <2> QED BY <1>2, <1>4, <2>1 DEF GoesOn, Relays
<1>5. CASE /\ ~HasKey(journal, key)
           /\ journal' = Append(journal, event)
           /\ writer' = [writer EXCEPT ![p].snap = Append(journal, event), ![p].todo = Rest(p)]
           /\ client' = [client EXCEPT ![p].pc = "seed"]
           /\ UNCHANGED <<lock, jfaults>>
  BY <1>3, <1>5 DEF GoesOn, Relays
<1>6. CASE /\ ~HasKey(journal, key)
           /\ journal' \in {journal, Append(journal, event)}
           /\ AfterThrow(p, key)
           /\ UNCHANGED client
  <2>1. \/ GoesOn(p, Rest(p)) /\ HasKey(journal', key)
        \/ Ends(p)
    BY <1>6 DEF AfterThrow, GoesOn
  <2> QED BY <1>2, <1>3, <1>6, <2>1 DEF Relays
<1>7. \/ <1>4!1 \/ <1>5!1 \/ <1>6!1
  BY <1>1 DEF AppendBatch
<1> QED BY <1>4, <1>5, <1>6, <1>7

JournalPart == CallsHoldTheLock /\ RevsRise /\ CallsAreOnTrack
NoteType == [rev : Nat, claim : Writers \cup {Nobody}, lapsed : BOOLEAN]

LEMMA IdleShape ==
    /\ IsCall(IdleWriter) /\ IdleWriter.op = "none"
    /\ IsClient(Away) /\ Away.pc = "away"
BY DEF IsCall, IdleWriter, IsClient, Away, Agents

\* A call ends, and with it its access to the file.
LEMMA EndsKeeps ==
    ASSUME JournalPart, NEW p \in Writers, lock = p, Ends(p), note' \in NoteType,
           RevsRise', journal' \in Seq(EventRows),
           \/ client[p].pc = "away" /\ client' = client
           \/ client' = [client EXCEPT ![p] = Away]
    PROVE  JournalPart'
<1> USE ThreadJournalAssumption DEF JournalPart, CallsHoldTheLock
<1>1. IsMap(writer', Writers) /\ \A q \in Writers : IsCall(writer'[q])
  BY IdleShape DEF Ends, IsMap
<1>2. IsMap(client', Clients) /\ \A c \in Clients : IsClient(client'[c])
  <2>1. CASE client' = client
    BY <2>1
  <2>2. CASE client' = [client EXCEPT ![p] = Away]
    BY <2>2, IdleShape DEF IsMap
  <2> QED BY <2>1, <2>2
<1>3. ASSUME NEW q \in Writers
      PROVE  lock' # q /\ writer'[q].op = "none" /\ client'[q].pc = "away"
  <2>1. lock' # q
    BY DEF Ends
  <2>2. writer'[q].op = "none"
    BY IdleShape DEF Ends, IsMap
  <2>3. q \in Clients /\ p \in Clients
    BY DEF Clients
  <2>4. client'[q].pc = "away"
    BY SMTT(30), <2>3, IdleShape DEF IsMap
  <2> QED BY <2>1, <2>2, <2>4
<1>4. CallsAreOnTrack'
  BY <1>3 DEF CallsAreOnTrack
<1>5. CallsHoldTheLock'
  BY <1>1, <1>2, <1>3 DEF NoteType, Ends
<1> QED BY <1>4, <1>5

\* A call takes a step, in which it may have appended an event.
LEMMA CallGoesOn ==
    ASSUME JournalPart, NEW p \in Writers, lock = p, lock' = lock, Relays(p),
           NEW row, IsCall(row),
           row.op # "none", row.snap = journal', writer' = [writer EXCEPT ![p] = row],
           OnTrack(row)', note' \in NoteType, RevsRise', journal' \in Seq(EventRows)
    PROVE  JournalPart'
<1> USE ThreadJournalAssumption DEF JournalPart, CallsHoldTheLock
<1>1. IsMap(writer', Writers) /\ writer'[p] = row
      /\ \A q \in Writers \ {p} : writer'[q] = writer[q]
  BY DEF IsMap
<1>2. p \in Clients /\ IsMap(client', Clients) /\ \A q \in Writers \ {p} : client'[q] = client[q]
  BY ZenonT(30) DEF Relays, Clients, IsMap
<1>3. ASSUME NEW c \in Clients PROVE IsClient(client'[c])
  <2>1. ASSUME NEW r, IsClient(r) PROVE IsClient([r EXCEPT !.pc = "seed"])
    BY <2>1 DEF IsClient
  <2>2. client'[c] = client[c] \/ client'[c] = [client[c] EXCEPT !.pc = "seed"]
    <3>1. DOMAIN client = Clients
      BY DEF IsMap
    <3>2. CASE client' = client
      BY <3>2
    <3>3. CASE client' = [client EXCEPT ![p].pc = "seed"]
      BY <3>1, <3>3
    <3> QED BY <3>2, <3>3 DEF Relays
  <2> QED BY <2>1, <2>2
<1>4. \A q \in Writers : /\ (lock' = q) = (writer'[q].op # "none")
                         /\ client'[q].pc # "away" => lock' = q
                         /\ lock' = q => writer'[q].snap = journal'
  BY <1>1, <1>2
<1>5. CallsAreOnTrack'
  BY <1>1 DEF CallsAreOnTrack
<1>6. CallsHoldTheLock'
  BY <1>1, <1>2, <1>3, <1>4 DEF NoteType
<1> QED BY <1>5, <1>6

LEMMA JournalInitPart == JournalInit => JournalPart
<1> SUFFICES ASSUME JournalInit PROVE JournalPart
  OBVIOUS
<1> USE ThreadJournalAssumption
<1>1. note \in NoteType /\ journal \in Seq(EventRows) /\ lock = Nobody
  BY DEF JournalInit, NoteType
<1>2. IsMap(writer, Writers) /\ \A p \in Writers : IsCall(writer[p]) /\ writer[p].op = "none"
  BY IdleShape DEF JournalInit, IsMap
<1>3. /\ IsMap(client, Clients)
      /\ \A c \in Clients : IsClient(client[c]) /\ client[c].pc = "away"
  BY IdleShape DEF JournalInit, IsMap
<1>4. CallsHoldTheLock
  BY <1>1, <1>2, <1>3 DEF CallsHoldTheLock, Clients, NoteType
<1>5. RevsRise
  BY DEF JournalInit, RevsRise
<1>6. CallsAreOnTrack
  BY <1>1 DEF CallsAreOnTrack
<1> QED BY <1>4, <1>5, <1>6 DEF JournalPart

\* The steps of a call.
Snapped(r, snap, todo) == [r EXCEPT !.snap = snap, !.todo = todo]
LEMMA SnapRow ==
    ASSUME NEW r, IsCall(r), NEW snap, NEW todo
    PROVE  LET s == Snapped(r, snap, todo) IN
           /\ IsCall(s) /\ s.op = r.op /\ s.key = r.key /\ s.snap = snap /\ s.todo = todo
<1>1. PICK s : s = [r EXCEPT !.snap = snap, !.todo = todo]
  OBVIOUS
<1>2. s = [op |-> r.op, todo |-> todo, snap |-> snap, key |-> r.key]
  BY <1>1 DEF IsCall
<1>3. s = Snapped(r, snap, todo)
  BY <1>1 DEF Snapped
<1> QED BY <1>2, <1>3 DEF IsCall

Rested(r, todo) == [r EXCEPT !.todo = todo]
LEMMA TodoRow ==
    ASSUME NEW r, IsCall(r), NEW todo
    PROVE  LET s == Rested(r, todo) IN
           /\ IsCall(s) /\ s.op = r.op /\ s.key = r.key /\ s.snap = r.snap /\ s.todo = todo
<1>1. PICK s : s = [r EXCEPT !.todo = todo]
  OBVIOUS
<1>2. s = [op |-> r.op, todo |-> todo, snap |-> r.snap, key |-> r.key]
  BY <1>1 DEF IsCall
<1>3. s = Rested(r, todo)
  BY <1>1 DEF Rested
<1> QED BY <1>2, <1>3 DEF IsCall

Keyed(r, key, todo) == [r EXCEPT !.key = key, !.todo = todo]
LEMMA KeyRow ==
    ASSUME NEW r, IsCall(r), NEW key, NEW todo
    PROVE  LET s == Keyed(r, key, todo) IN
           /\ IsCall(s) /\ s.op = r.op /\ s.key = key /\ s.snap = r.snap /\ s.todo = todo
<1>1. PICK s : s = [r EXCEPT !.key = key, !.todo = todo]
  OBVIOUS
<1>2. s = [op |-> r.op, todo |-> todo, snap |-> r.snap, key |-> key]
  BY <1>1 DEF IsCall
<1>3. s = Keyed(r, key, todo)
  BY <1>1 DEF Keyed
<1> QED BY <1>2, <1>3 DEF IsCall

LEMMA NoteIsTyped == JournalPart => note \in NoteType /\ note.rev \in Nat
BY DEF JournalPart, CallsHoldTheLock, NoteType

\* A step that goes on after an append, to its next step.
LEMMA AppendGoesOn ==
    ASSUME JournalPart, NEW p \in Writers, lock = p, client[p].pc = "away", note' = note,
           NEW key \in AnyKeys, key[1] \in SystemKinds => key[2] = note.rev,
           journal # << >> /\ note.rev > LastRev + 1 => key[1] = "state.recovered",
           AppendBatch(p, key),
           ASSUME RevsRise', journal' \in Seq(EventRows), HasKey(journal', key),
                  journal' = journal \/ (journal' # << >> /\ LastRev' = note.rev),
                  NEW row, row.op = writer[p].op, row.key = writer[p].key,
                  row.todo = Rest(p)
           PROVE  OnTrack(row)'
    PROVE  JournalPart'
<1>1. /\ RevsRise' /\ journal' \in Seq(EventRows) /\ Relays(p)
      /\ \/ GoesOn(p, Rest(p)) /\ HasKey(journal', key)
         \/ Ends(p) /\ client' = client
      /\ journal' = journal \/ (journal' # << >> /\ LastRev' = note.rev)
  BY AppendStep DEF JournalPart
<1>2. note' \in NoteType
  BY NoteIsTyped
<1>3. CASE Ends(p) /\ client' = client
  BY <1>1, <1>2, <1>3, EndsKeeps
<1>4. CASE GoesOn(p, Rest(p)) /\ HasKey(journal', key)
  <2>1. IsCall(writer[p]) /\ writer[p].op # "none"
    BY DEF JournalPart, CallsHoldTheLock
  <2>2. PICK todo : todo = Rest(p)
    OBVIOUS
  <2>3. PICK snap : snap = journal'
    OBVIOUS
  <2>4. PICK row : row = Snapped(writer[p], snap, todo)
    OBVIOUS
  <2>5. /\ IsCall(row) /\ row.op = writer[p].op /\ row.key = writer[p].key
        /\ row.snap = journal' /\ row.todo = Rest(p)
    BY <2>1, <2>2, <2>3, <2>4, SnapRow
  <2>6. writer' = [writer EXCEPT ![p] = row] /\ lock' = lock
    BY <1>4, <2>2, <2>3, <2>4 DEF GoesOn, Snapped
  <2>7. OnTrack(row)'
    BY <1>1, <1>4, <2>5
  <2> QED BY <1>1, <1>2, <2>1, <2>5, <2>6, <2>7, CallGoesOn
<1> QED BY <1>1, <1>3, <1>4

LEMMA TodoParts ==
    /\ Head(<<"reconcile", "baseline", "mutate">>) = "reconcile"
    /\ Tail(<<"reconcile", "baseline", "mutate">>) = <<"baseline", "mutate">>
    /\ Head(<<"baseline", "mutate">>) = "baseline"
    /\ Tail(<<"baseline", "mutate">>) = <<"mutate">>
    /\ Head(<<"mutate">>) = "mutate" /\ Tail(<<"mutate">>) = << >>
    /\ Head(<<"mutate", "reconcile", "baseline", "record">>) = "mutate"
    /\ Tail(<<"mutate", "reconcile", "baseline", "record">>)
         = <<"reconcile", "baseline", "record">>
    /\ Head(<<"reconcile", "baseline", "record">>) = "reconcile"
    /\ Tail(<<"reconcile", "baseline", "record">>) = <<"baseline", "record">>
    /\ Head(<<"baseline", "record">>) = "baseline"
    /\ Tail(<<"baseline", "record">>) = <<"record">>
    /\ Head(<<"record">>) = "record" /\ Tail(<<"record">>) = << >>
    /\ Head(<<"record", "mutate">>) = "record" /\ Tail(<<"record", "mutate">>) = <<"mutate">>
OBVIOUS

\* A step that goes on without an append, the note as it was.
LEMMA RestGoesOn ==
    ASSUME JournalPart, NEW p \in Writers, lock = p,
           writer' = [writer EXCEPT ![p].todo = Rest(p)],
           UNCHANGED <<note, journal, lock, client>>,
           ASSUME NEW row, row.op = writer[p].op, row.key = writer[p].key, row.todo = Rest(p)
           PROVE  OnTrack(row)'
    PROVE  JournalPart'
<1>1. IsCall(writer[p]) /\ writer[p].op # "none" /\ writer[p].snap = journal
  BY DEF JournalPart, CallsHoldTheLock
<1>2. PICK todo : todo = Rest(p)
  OBVIOUS
<1>3. PICK row : row = Rested(writer[p], todo)
  OBVIOUS
<1>4. /\ IsCall(row) /\ row.op = writer[p].op /\ row.key = writer[p].key
      /\ row.snap = journal /\ row.todo = Rest(p)
  BY <1>1, <1>2, <1>3, TodoRow
<1>5. writer' = [writer EXCEPT ![p] = row]
  BY <1>2, <1>3 DEF Rested
<1>6. RevsRise' /\ journal' \in Seq(EventRows) /\ note' \in NoteType
  BY NoteIsTyped DEF JournalPart, RevsRise, CallsHoldTheLock
<1>7. Relays(p) /\ lock' = lock /\ row.op # "none" /\ row.snap = journal'
  BY <1>1, <1>4 DEF Relays
<1>8. OnTrack(row)'
  BY <1>4
<1> QED BY <1>4, <1>5, <1>6, <1>7, <1>8, CallGoesOn

LEMMA StandStill ==
    ASSUME JournalPart, UNCHANGED <<note, journal>>
    PROVE  RevsRise' /\ journal' \in Seq(EventRows) /\ note' \in NoteType
BY NoteIsTyped DEF JournalPart, RevsRise, CallsHoldTheLock

LEMMA ReconcileStep ==
    ASSUME JournalPart, NEW p \in Writers, Reconcile(p) PROVE JournalPart'
<1>1. lock = p /\ client[p].pc = "away" /\ note' = note /\ Head(writer[p].todo) = "reconcile"
  BY DEF Reconcile, AtStep
<1>2. /\ writer[p].snap = journal /\ OnTrack(writer[p])
      /\ JournalRev(journal) = LastRev /\ LastRev \in Nat /\ note.rev \in Nat
  BY <1>1, SnapshotReads, NoteIsTyped DEF JournalPart, CallsHoldTheLock, CallsAreOnTrack
<1>3. writer[p].todo # << >>
  BY DEF Reconcile, AtStep
<1>4. /\ writer[p].key \in AnyKeys
      /\ \/ Rest(p) = <<"baseline", "mutate">> /\ writer[p].op # "heal"
         \/ Rest(p) = <<"baseline", "record">> /\ OwnKey(writer[p])
  BY <1>1, <1>2, <1>3, TodoParts DEF OnTrack, Rest
<1>5. ASSUME NEW row, row.op = writer[p].op, row.key = writer[p].key, row.todo = Rest(p),
             journal' = << >> \/ Level'
      PROVE  OnTrack(row)'
  BY <1>1, <1>4, <1>5 DEF OnTrack, OwnKey
<1>6. CASE Ends(p) /\ UNCHANGED <<journal, client, jfaults>>
  BY <1>1, <1>6, StandStill, EndsKeeps
<1>7. CASE /\ journal = << >> \/ note.rev = JournalRev(journal)
           /\ writer' = [writer EXCEPT ![p].todo = Rest(p)]
           /\ UNCHANGED <<journal, lock, client, jfaults>>
  <2>1. journal' = << >> \/ Level'
    BY <1>1, <1>2, <1>7 DEF Level, LastRev
  <2>2. ASSUME NEW row, row.op = writer[p].op, row.key = writer[p].key, row.todo = Rest(p)
        PROVE  OnTrack(row)'
    BY <1>5, <2>1, <2>2
  <2> QED BY <1>1, <1>7, <2>2, RestGoesOn
<1>8. CASE AppendBatch(p, <<"state.recovered", note.rev>>)
  <2> DEFINE key == <<"state.recovered", note.rev>>
  <2>1. key \in AnyKeys /\ key[1] = "state.recovered" /\ key[2] = note.rev
        /\ "state.recovered" \in SystemKinds
    BY <1>2 DEF AnyKeys, SystemKinds
  <2> HIDE DEF key
  <2>2. ASSUME HasKey(journal', key),
               journal' = journal \/ (journal' # << >> /\ LastRev' = note.rev)
        PROVE  Level'
    <3>1. CASE journal' = journal
      BY <1>1, <2>1, <2>2, <3>1, KeyTellsRev DEF JournalPart, Level, LastRev
    <3>2. CASE journal' # << >> /\ LastRev' = note.rev
      BY <1>1, <3>2 DEF Level
    <3> QED BY <2>2, <3>1, <3>2
  <2>3. ASSUME RevsRise', journal' \in Seq(EventRows), HasKey(journal', key),
               journal' = journal \/ (journal' # << >> /\ LastRev' = note.rev),
               NEW row, row.op = writer[p].op, row.key = writer[p].key, row.todo = Rest(p)
        PROVE  OnTrack(row)'
    BY <1>5, <2>2, <2>3
  <2>4. AppendBatch(p, key)
    BY <1>8 DEF key
  <2> QED BY <1>1, <2>1, <2>3, <2>4, AppendGoesOn
<1> QED BY <1>2, <1>6, <1>7, <1>8 DEF Reconcile

LEMMA BaselineStep ==
    ASSUME JournalPart, NEW p \in Writers, EnsureOrderedBaseline(p) PROVE JournalPart'
<1>1. /\ lock = p /\ client[p].pc = "away" /\ note' = note
      /\ Head(writer[p].todo) = "baseline" /\ writer[p].todo # << >>
  BY DEF EnsureOrderedBaseline, AtStep
<1>2. /\ writer[p].snap = journal /\ OnTrack(writer[p])
      /\ LastRev \in Nat /\ note.rev \in Nat
  BY <1>1, SnapshotReads, NoteIsTyped DEF JournalPart, CallsHoldTheLock, CallsAreOnTrack
<1>3. /\ writer[p].key \in AnyKeys /\ (journal = << >> \/ Level)
      /\ \/ Rest(p) = <<"mutate">> /\ writer[p].op # "heal"
         \/ Rest(p) = <<"record">> /\ OwnKey(writer[p])
  BY <1>1, <1>2, TodoParts DEF OnTrack, Rest
<1>4. ASSUME NEW row, row.op = writer[p].op, row.key = writer[p].key, row.todo = Rest(p),
             Level'
      PROVE  OnTrack(row)'
  <2>1. Ahead'
    BY <1>4 DEF Level, Ahead
  <2> QED BY <1>1, <1>3, <1>4, <2>1 DEF OnTrack, OwnKey
<1>5. CASE /\ journal # << >>
           /\ writer' = [writer EXCEPT ![p].todo = Rest(p)]
           /\ UNCHANGED <<journal, lock, client, jfaults>>
  <2>1. Level'
    BY <1>1, <1>3, <1>5 DEF Level, LastRev
  <2>2. ASSUME NEW row, row.op = writer[p].op, row.key = writer[p].key, row.todo = Rest(p)
        PROVE  OnTrack(row)'
    BY <1>4, <2>1, <2>2
  <2> QED BY <1>1, <1>5, <2>2, RestGoesOn
<1>6. CASE journal = << >> /\ AppendBatch(p, <<"state.baseline", note.rev>>)
  <2> DEFINE key == <<"state.baseline", note.rev>>
  <2>1. key \in AnyKeys /\ key[2] = note.rev
    BY <1>2 DEF AnyKeys, SystemKinds
  <2>2. AppendBatch(p, key)
    BY <1>6
  <2> HIDE DEF key
  <2>3. ASSUME RevsRise', journal' \in Seq(EventRows), HasKey(journal', key),
               journal' = journal \/ (journal' # << >> /\ LastRev' = note.rev),
               NEW row, row.op = writer[p].op, row.key = writer[p].key, row.todo = Rest(p)
        PROVE  OnTrack(row)'
    <3>1. journal' # << >>
      BY <2>3 DEF HasKey
    <3>2. Level'
      BY <1>1, <1>6, <2>3, <3>1 DEF Level
    <3> QED BY <1>4, <2>3, <3>2
  <2> QED BY <1>1, <1>6, <2>1, <2>2, <2>3, AppendGoesOn
<1> QED BY <1>2, <1>5, <1>6 DEF EnsureOrderedBaseline

LEMMA RecordStep ==
    ASSUME JournalPart, NEW p \in Writers, Record(p) PROVE JournalPart'
<1>1. /\ lock = p /\ client[p].pc = "away" /\ note' = note
      /\ Head(writer[p].todo) = "record" /\ writer[p].todo # << >>
  BY DEF Record, AtStep
<1>2. OnTrack(writer[p]) /\ LastRev \in Nat /\ note.rev \in Nat
  BY <1>1, SnapshotReads, NoteIsTyped DEF JournalPart, CallsAreOnTrack
<1>3. PICK key : key = writer[p].key
  OBVIOUS
<1>4. /\ key \in AnyKeys /\ Ahead
      /\ \/ Rest(p) = << >> /\ OwnKey(writer[p])
         \/ /\ Rest(p) = <<"mutate">> /\ writer[p].op = "claim"
            /\ key = <<"slice.lease_expired", note.rev>>
  BY <1>1, <1>2, <1>3, TodoParts DEF OnTrack, Rest
<1>5. key[1] \in SystemKinds => key[2] = note.rev
  BY <1>3, <1>4 DEF OwnKey
<1>6. ~(journal # << >> /\ note.rev > LastRev + 1)
  BY <1>2, <1>4 DEF Ahead
<1>7. ASSUME RevsRise', journal' \in Seq(EventRows), HasKey(journal', key),
             journal' = journal \/ (journal' # << >> /\ LastRev' = note.rev),
             NEW row, row.op = writer[p].op, row.key = writer[p].key, row.todo = Rest(p)
      PROVE  OnTrack(row)'
  <2>1. CASE Rest(p) = << >>
    BY <1>3, <1>4, <1>7, <2>1 DEF OnTrack
  <2>2. CASE /\ Rest(p) = <<"mutate">> /\ writer[p].op = "claim"
             /\ key = <<"slice.lease_expired", note.rev>>
    <3>1. key[1] \in SystemKinds /\ key[2] = note.rev
      BY <2>2 DEF SystemKinds
    <3>2. ASSUME journal' = journal PROVE Level'
      BY <1>1, <1>4, <1>7, <3>1, <3>2, KeyTellsRev DEF JournalPart, Level, LastRev
    <3>3. ASSUME journal' # << >> /\ LastRev' = note.rev PROVE Level'
      BY <1>1, <3>3 DEF Level
    <3>4. Level'
      BY <1>7, <3>2, <3>3
    <3> QED BY <1>3, <1>4, <1>7, <2>2, <3>4 DEF OnTrack
  <2> QED BY <1>4, <2>1, <2>2
<1>8. AppendBatch(p, key)
  BY <1>3 DEF Record
<1> QED BY <1>1, <1>4, <1>5, <1>6, <1>7, <1>8, AppendGoesOn

\* A write of the note, that lands or fails or both.
LEMMA PersistStep ==
    ASSUME JournalPart, NEW p \in Writers, lock = p, client[p].pc = "away",
           NEW new \in NoteType, new.rev >= note.rev, NEW key, NEW todo,
           Persist(p, new, key, todo), UNCHANGED <<journal, client>>,
           ASSUME note' = new,
                  NEW row, row.op = writer[p].op, row.key = key, row.todo = todo
           PROVE  OnTrack(row)'
    PROVE  JournalPart'
<1>1. note' \in NoteType /\ note'.rev >= note.rev
  BY NoteIsTyped DEF Persist, NoteType
<1>2. journal \in Seq(EventRows) /\ \A i \in DOMAIN journal : journal[i].rev \in Nat
  <2>1. journal \in Seq(EventRows)
    BY DEF JournalPart, CallsHoldTheLock
  <2>2. \A i \in DOMAIN journal : journal[i] \in EventRows
    BY <2>1
  <2> QED BY <2>1, <2>2 DEF EventRows
<1>3. \A i \in DOMAIN journal' : journal'[i].rev <= note'.rev
  <2> SUFFICES ASSUME NEW i \in DOMAIN journal PROVE journal[i].rev <= note'.rev
    OBVIOUS
  <2>1. journal[i].rev <= note.rev
    BY DEF JournalPart, RevsRise
  <2> QED BY <1>1, <1>2, <2>1, NoteIsTyped DEF NoteType
<1>4. RevsRise' /\ journal' \in Seq(EventRows)
  BY <1>2, <1>3 DEF JournalPart, RevsRise
<1>5. CASE note' = new /\ lock' = lock
           /\ writer' = [writer EXCEPT ![p].key = key, ![p].todo = todo]
  <2>1. IsCall(writer[p]) /\ writer[p].op # "none" /\ writer[p].snap = journal
    BY DEF JournalPart, CallsHoldTheLock
  <2>2. PICK row : row = Keyed(writer[p], key, todo)
    OBVIOUS
  <2>3. /\ IsCall(row) /\ row.op = writer[p].op /\ row.key = key
        /\ row.snap = journal' /\ row.todo = todo
    BY <2>1, <2>2, KeyRow
  <2>4. writer' = [writer EXCEPT ![p] = row]
    BY <1>5, <2>2 DEF Keyed
  <2>5. OnTrack(row)'
    BY <1>5, <2>3
  <2>6. Relays(p)
    BY DEF Relays
  <2> QED BY <1>1, <1>4, <1>5, <2>1, <2>3, <2>4, <2>5, <2>6, CallGoesOn
<1>6. CASE Ends(p)
  BY <1>1, <1>4, <1>6, EndsKeeps
<1> QED BY <1>5, <1>6 DEF Persist

\* The call is about to write the note.
LEMMA MutateReads ==
    ASSUME JournalPart, NEW p \in Writers, AtStep(p, "mutate")
    PROVE  /\ lock = p /\ client[p].pc = "away" /\ note \in NoteType /\ note.rev \in Nat
           /\ LastRev \in Nat
           /\ \/ Level /\ writer[p].op # "heal" /\ Rest(p) = << >>
              \/ writer[p].op = "heal" /\ Rest(p) = <<"reconcile", "baseline", "record">>
<1>1. lock = p /\ client[p].pc = "away" /\ Head(writer[p].todo) = "mutate" /\ writer[p].todo # << >>
  BY DEF AtStep
<1>2. OnTrack(writer[p]) /\ note \in NoteType /\ note.rev \in Nat /\ LastRev \in Nat
  BY <1>1, NoteIsTyped, SnapshotReads DEF JournalPart, CallsAreOnTrack
<1> QED BY <1>1, <1>2, TodoParts DEF OnTrack, Rest

LEMMA AssignStep ==
    ASSUME JournalPart, NEW p \in Writers, Assign(p) PROVE JournalPart'
<1>1. /\ lock = p /\ client[p].pc = "away" /\ note \in NoteType /\ note.rev \in Nat
      /\ LastRev \in Nat
      /\ \/ Level /\ writer[p].op # "heal" /\ Rest(p) = << >>
         \/ writer[p].op = "heal" /\ Rest(p) = <<"reconcile", "baseline", "record">>
  BY MutateReads DEF Assign
<1>2. UNCHANGED <<journal, client>>
  BY DEF Assign, relayVars
<1>3. CASE writer[p].op = "heal" /\ Persist(p, [note EXCEPT !.rev = @ + 1],
                    <<"status_reconciled", note.rev + 1>>, Rest(p))
  <2> DEFINE key == <<"status_reconciled", note.rev + 1>>
  <2>1. PICK new : new = [note EXCEPT !.rev = @ + 1]
    OBVIOUS
  <2>2. new \in NoteType /\ new.rev = note.rev + 1 /\ new.rev >= note.rev
    BY <1>1, <2>1 DEF NoteType
  <2>3. key \in AnyKeys /\ key[2] = note.rev + 1
    BY <1>1 DEF AnyKeys, SystemKinds
  <2>4. Persist(p, new, key, Rest(p)) /\ Rest(p) = <<"reconcile", "baseline", "record">>
    BY <1>1, <1>3, <2>1
  <2> HIDE DEF key
  <2>5. ASSUME note' = new, NEW row, row.op = writer[p].op, row.key = key, row.todo = Rest(p)
        PROVE  OnTrack(row)'
    BY <2>2, <2>3, <2>4, <2>5 DEF OnTrack, OwnKey
  <2> QED BY <1>1, <1>2, <2>2, <2>4, <2>5, PersistStep
<1>4. CASE writer[p].op # "heal" /\ Persist(p, Mutated(Nobody),
                    <<"slice.assigned", note.rev + 1>>, <<"record">>)
  <2> DEFINE key == <<"slice.assigned", note.rev + 1>>
  <2>1. PICK new : new = Mutated(Nobody)
    OBVIOUS
  <2>2. new \in NoteType /\ new.rev = note.rev + 1 /\ new.rev >= note.rev
    BY <1>1, <2>1 DEF NoteType, Mutated
  <2>3. key \in AnyKeys /\ key[2] = note.rev + 1
    BY <1>1 DEF AnyKeys, SystemKinds
  <2>4. Persist(p, new, key, <<"record">>)
    BY <1>4, <2>1
  <2> HIDE DEF key
  <2>5. ASSUME note' = new, NEW row, row.op = writer[p].op, row.key = key,
               row.todo = <<"record">>
        PROVE  OnTrack(row)'
    <3>1. Ahead'
      BY <1>1, <1>2, <1>4, <2>2, <2>5 DEF Ahead, Level, LastRev
    <3> QED BY <2>2, <2>3, <2>5, <3>1 DEF OnTrack, OwnKey
  <2> QED BY <1>1, <1>2, <2>2, <2>4, <2>5, PersistStep
<1> QED BY <1>3, <1>4 DEF Assign

LEMMA ClaimStep ==
    ASSUME JournalPart, NEW p \in Writers, Claim(p) PROVE JournalPart'
<1>1. /\ lock = p /\ client[p].pc = "away" /\ note \in NoteType /\ note.rev \in Nat
      /\ LastRev \in Nat /\ Level /\ writer[p].op = "claim"
  BY MutateReads DEF Claim
<1>2. UNCHANGED <<journal, client>>
  BY DEF Claim, relayVars
<1>3. ASSUME NEW new \in NoteType, new.rev = note.rev + 1, note' = new PROVE Ahead'
  BY <1>1, <1>2, <1>3 DEF Ahead, Level, LastRev
<1>4. CASE Persist(p, Mutated(Nobody), <<"slice.lease_expired", note.rev + 1>>,
                   <<"record", "mutate">>)
  <2> DEFINE key == <<"slice.lease_expired", note.rev + 1>>
  <2>1. PICK new : new = Mutated(Nobody)
    OBVIOUS
  <2>2. new \in NoteType /\ new.rev = note.rev + 1 /\ new.rev >= note.rev
    BY <1>1, <2>1 DEF NoteType, Mutated
  <2>3. key \in AnyKeys /\ key = <<"slice.lease_expired", new.rev>>
    BY <1>1, <2>2 DEF AnyKeys, SystemKinds
  <2>4. Persist(p, new, key, <<"record", "mutate">>)
    BY <1>4, <2>1
  <2> HIDE DEF key
  <2>5. ASSUME note' = new, NEW row, row.op = writer[p].op, row.key = key,
               row.todo = <<"record", "mutate">>
        PROVE  OnTrack(row)'
    BY <1>1, <1>3, <2>2, <2>3, <2>5 DEF OnTrack
  <2> QED BY <1>1, <1>2, <2>2, <2>4, <2>5, PersistStep
<1>5. CASE Persist(p, Mutated(p), <<"slice.claimed", p>>, <<"record">>)
  <2> DEFINE key == <<"slice.claimed", p>>
  <2>1. PICK new : new = Mutated(p)
    OBVIOUS
  <2>2. new \in NoteType /\ new.rev = note.rev + 1 /\ new.rev >= note.rev
    BY <1>1, <2>1 DEF NoteType, Mutated
  <2>3. key \in AnyKeys /\ key[1] \notin SystemKinds
    BY DEF AnyKeys, SystemKinds
  <2>4. Persist(p, new, key, <<"record">>)
    BY <1>5, <2>1
  <2> HIDE DEF key
  <2>5. ASSUME note' = new, NEW row, row.op = writer[p].op, row.key = key,
               row.todo = <<"record">>
        PROVE  OnTrack(row)'
    BY <1>3, <2>2, <2>3, <2>5 DEF OnTrack, OwnKey
  <2> QED BY <1>1, <1>2, <2>2, <2>4, <2>5, PersistStep
<1>6. CASE /\ writer' = [writer EXCEPT ![p].key = <<"slice.claimed", p>>,
                                       ![p].todo = <<"record">>]
           /\ UNCHANGED <<note, lock, jfaults>>
  <2>1. PICK key : key = <<"slice.claimed", p>>
    OBVIOUS
  <2>2. key \in AnyKeys /\ key[1] \notin SystemKinds
    BY <2>1 DEF AnyKeys, SystemKinds
  <2>3. IsCall(writer[p]) /\ writer[p].op # "none" /\ writer[p].snap = journal
    BY <1>1 DEF JournalPart, CallsHoldTheLock
  <2>4. PICK row : row = Keyed(writer[p], key, <<"record">>)
    OBVIOUS
  <2>5. /\ IsCall(row) /\ row.op = writer[p].op /\ row.key = key
        /\ row.snap = journal' /\ row.todo = <<"record">>
    BY <1>2, <2>3, <2>4, KeyRow
  <2>6. writer' = [writer EXCEPT ![p] = row]
    BY <1>6, <2>1, <2>4 DEF Keyed
  <2>7. Ahead'
    BY <1>1, <1>2, <1>6 DEF Ahead, Level, LastRev
  <2>8. OnTrack(row)'
    BY <2>2, <2>5, <2>7 DEF OnTrack, OwnKey
  <2>9. RevsRise' /\ journal' \in Seq(EventRows) /\ note' \in NoteType /\ Relays(p)
    BY <1>2, <1>6, StandStill DEF Relays
  <2> QED BY <1>1, <1>6, <2>3, <2>5, <2>6, <2>8, <2>9, CallGoesOn
<1>7. CASE Ends(p) /\ UNCHANGED <<note, jfaults>>
  BY <1>1, <1>2, <1>7, StandStill, EndsKeeps
<1> QED BY <1>4, <1>5, <1>6, <1>7 DEF Claim

LEMMA BeginStep ==
    ASSUME JournalPart, NEW p \in Writers, BeginCall(p) PROVE JournalPart'
<1>1. PICK op \in {"claim", "assign", "heal"} :
        /\ lock = Nobody /\ lock' = p
        /\ writer' = [writer EXCEPT ![p] = [IdleWriter EXCEPT !.op = op, !.snap = journal,
             !.todo = IF op = "heal" THEN <<"mutate", "reconcile", "baseline", "record">>
                      ELSE <<"reconcile", "baseline", "mutate">>]]
        /\ UNCHANGED <<note, journal, client>>
  BY DEF BeginCall, relayVars
<1>2. PICK row : row = [IdleWriter EXCEPT !.op = op, !.snap = journal,
             !.todo = IF op = "heal" THEN <<"mutate", "reconcile", "baseline", "record">>
                      ELSE <<"reconcile", "baseline", "mutate">>]
  OBVIOUS
<1>3. /\ IsCall(row) /\ row.op = op /\ row.snap = journal
      /\ row.key = <<"state.baseline", 0>>
      /\ row.todo = IF op = "heal" THEN <<"mutate", "reconcile", "baseline", "record">>
                    ELSE <<"reconcile", "baseline", "mutate">>
  BY <1>2 DEF IdleWriter, IsCall
<1>4. row.key \in AnyKeys
  BY <1>3 DEF AnyKeys, SystemKinds
<1>5. OnTrack(row)'
  BY <1>3, <1>4 DEF OnTrack
<1>6. RevsRise' /\ journal' \in Seq(EventRows) /\ note' \in NoteType
  BY <1>1, StandStill
<1>7. /\ IsMap(writer, Writers) /\ IsMap(client, Clients)
      /\ \A q \in Writers : /\ IsCall(writer[q]) /\ writer[q].op = "none"
                            /\ client[q].pc = "away"
      /\ \A c \in Clients : IsClient(client[c])
  BY <1>1, ThreadJournalAssumption DEF JournalPart, CallsHoldTheLock
<1>8. writer' = [writer EXCEPT ![p] = row]
  BY <1>1, <1>2
<1>9. /\ IsMap(writer', Writers) /\ writer'[p] = row
      /\ \A q \in Writers \ {p} : writer'[q] = writer[q]
  BY <1>7, <1>8 DEF IsMap
<1>10. CallsHoldTheLock'
  BY <1>1, <1>3, <1>6, <1>7, <1>9 DEF CallsHoldTheLock, NoteType
<1>11. CallsAreOnTrack'
  BY <1>1, <1>5, <1>9 DEF CallsAreOnTrack
<1> QED BY <1>6, <1>10, <1>11 DEF JournalPart

\* A client of the file takes a step, and nothing of the plan changes.
LEMMA ClientMoves ==
    ASSUME JournalPart, NEW c \in Clients, NEW row, IsClient(row),
           client' = [client EXCEPT ![c] = row], UNCHANGED threadVars,
           c \in Hooks \/ client[c].pc # "away"
    PROVE  JournalPart'
<1>1. UNCHANGED <<note, journal, lock, writer>>
  BY DEF threadVars
<1>2. RevsRise' /\ journal' \in Seq(EventRows) /\ note' \in NoteType
  BY <1>1, StandStill
<1>3. IsMap(client, Clients) /\ \A d \in Clients : IsClient(client[d])
  BY DEF JournalPart, CallsHoldTheLock
<1>4. /\ IsMap(client', Clients) /\ \A d \in Clients : IsClient(client'[d])
      /\ \A d \in Clients \ {c} : client'[d] = client[d]
  BY <1>3 DEF IsMap
<1>5. \A q \in Writers : client'[q].pc # "away" => lock' = q
  BY <1>1, <1>4, ThreadJournalAssumption DEF JournalPart, CallsHoldTheLock, Clients
<1>6. CallsHoldTheLock'
  BY <1>1, <1>2, <1>4, <1>5 DEF JournalPart, CallsHoldTheLock, NoteType
<1>7. CallsAreOnTrack'
  BY <1>1 DEF JournalPart, CallsAreOnTrack, OnTrack, Level, Ahead, LastRev, OwnKey
<1> QED BY <1>2, <1>6, <1>7 DEF JournalPart

LEMMA ReturnOrDieStep ==
    ASSUME JournalPart, NEW p \in Writers, Return(p) \/ WriterDies(p) PROVE JournalPart'
<1>1. /\ lock = p /\ Ends(p) /\ UNCHANGED <<note, journal>>
      /\ \/ client[p].pc = "away" /\ client' = client
         \/ client' = [client EXCEPT ![p] = Away]
  BY DEF Return, WriterDies, relayVars
<1> QED BY <1>1, StandStill, EndsKeeps

LEMMA LapseStep ==
    ASSUME JournalPart, Lapse PROVE JournalPart'
<1>1. note' = [note EXCEPT !.lapsed = TRUE] /\ UNCHANGED <<journal, lock, writer, client>>
  BY DEF Lapse, relayVars
<1>2. note' \in NoteType /\ note'.rev = note.rev
  BY <1>1, NoteIsTyped DEF NoteType
<1>3. RevsRise'
  BY <1>1, <1>2 DEF JournalPart, RevsRise
<1>4. CallsHoldTheLock'
  BY <1>1, <1>2 DEF JournalPart, CallsHoldTheLock, NoteType
<1>5. CallsAreOnTrack'
  BY <1>1, <1>2 DEF JournalPart, CallsAreOnTrack, OnTrack, Level, Ahead, LastRev, OwnKey
<1> QED BY <1>3, <1>4, <1>5 DEF JournalPart

-----------------------------------------------------------------------------
(* The relay *)

LEMMA EmptyTrails == ASSUME NEW seen PROVE Trails(EmptyStore, seen)
<1>1. EmptyStore.cursor = << >> /\ EmptyStore.pending = {}
  BY DEF EmptyStore
<1>2. \A a \in Agents : CursorFor(EmptyStore, a) = 0
  BY <1>1 DEF CursorFor
<1>3. EmptyStore.pending = {n \in {} \X (1..0) : n[2] > CursorFor(EmptyStore, n[1])}
  BY <1>1
<1>4. \E rows \in SUBSET Agents, m \in Nat :
        EmptyStore.pending = {n \in rows \X (1..m) : n[2] > CursorFor(EmptyStore, n[1])}
  BY <1>3
<1> QED BY <1>1, <1>2, <1>4 DEF Trails

LEMMA MoreIsShown ==
    ASSUME NEW store, NEW seen, NEW more, Trails(store, seen),
           \A a \in Agents : seen[a] \subseteq more[a]
    PROVE  Trails(store, more)
BY DEF Trails

LEMMA FollowsMore ==
    ASSUME NEW seqs, NEW seen, NEW more, Follows(seqs, seen), seen \subseteq more
    PROVE  Follows(seqs, more)
BY DEF Follows

\* What was pending for an agent follows on what it has seen.
LEMMA PendingFollows ==
    ASSUME NEW store, NEW seen, Trails(store, seen), NEW a \in Agents,
           PendingSeqs(store, a) # {}
    PROVE  Follows(PendingSeqs(store, a), seen[a])
<1>1. PICK rows \in SUBSET Agents, m \in Nat :
        store.pending = {n \in rows \X (1..m) : n[2] > CursorFor(store, n[1])}
  BY DEF Trails
<1> DEFINE k == CursorFor(store, a)
<1>2. k \in Nat /\ 1..k \subseteq seen[a]
  BY DEF Trails
<1>3. \A x \in PendingSeqs(store, a) : a \in rows /\ x \in 1..m /\ x > k
  BY <1>1 DEF PendingSeqs
<1>4. ASSUME NEW x \in 1..m, x > k, a \in rows PROVE x \in PendingSeqs(store, a)
  <2>1. <<a, x>> \in store.pending
    BY <1>1, <1>4
  <2> QED BY <1>4, <2>1 DEF PendingSeqs
<1> HIDE DEF k
<1>5. PICK x : x \in PendingSeqs(store, a)
  OBVIOUS
<1>6. a \in rows /\ x \in 1..m /\ x > k
  BY <1>3, <1>5
<1>7. k < m
  BY <1>2, <1>6
<1>8. ASSUME NEW y \in PendingSeqs(store, a) PROVE y \in (k + 1)..m
  <2>1. y \in 1..m /\ y > k
    BY <1>3
  <2> QED BY <1>2, <2>1
<1>9. ASSUME NEW y \in (k + 1)..m PROVE y \in PendingSeqs(store, a)
  <2>1. y \in 1..m /\ y > k
    BY <1>2
  <2> QED BY <1>4, <1>6, <2>1
<1>10. PendingSeqs(store, a) = (k + 1)..m
  BY <1>8, <1>9
<1> QED BY <1>2, <1>7, <1>10 DEF Follows

LEMMA IngestTrails ==
    ASSUME NEW store, NEW seen, Trails(store, seen), NEW ids \in SUBSET Agents,
           NEW events, NEW n \in Nat, DOMAIN events = 1..n, \A i \in 1..n : events[i].seq = i
    PROVE  Trails(IngestJournalEvents(store, events, ids), seen)
<1> DEFINE rows == DOMAIN store.cursor \cup ids
           new == IngestJournalEvents(store, events, ids)
<1>1. {events[i].seq : i \in DOMAIN events} = 1..n
  OBVIOUS
<1>2. rows \subseteq Agents
  BY DEF Trails
<1>3. /\ new.cursor = [a \in rows |-> CursorFor(store, a)]
      /\ new.pending = {x \in rows \X (1..n) : x[2] > CursorFor(store, x[1])}
  BY <1>1 DEF IngestJournalEvents
<1>4. \A a \in Agents : CursorFor(new, a) = CursorFor(store, a)
  BY <1>3 DEF CursorFor
<1> HIDE DEF new, rows
<1>5. new.pending = {x \in rows \X (1..n) : x[2] > CursorFor(new, x[1])}
  BY <1>2, <1>3, <1>4
<1>6. DOMAIN new.cursor \subseteq Agents
  BY <1>2, <1>3
<1>7. \A a \in Agents : CursorFor(new, a) \in Nat /\ 1..CursorFor(new, a) \subseteq seen[a]
  BY <1>4 DEF Trails
<1>8. Trails(new, seen)
  BY <1>2, <1>5, <1>6, <1>7 DEF Trails
<1> QED BY <1>8 DEF new

LEMMA LargerOf ==
    ASSUME NEW m \in Nat, NEW n \in Nat
    PROVE  Max({m, n}) = IF m >= n THEN m ELSE n
<1> DEFINE S == {m, n}
<1>1. S \in SUBSET Int /\ m \in S /\ n \in S /\ \A y \in S : y = m \/ y = n
  OBVIOUS
<1> HIDE DEF S
<1>2. ASSUME m >= n PROVE Max(S) = m
  <2>1. \A y \in S : y <= m
    BY <1>1, <1>2
  <2> QED BY <1>1, <2>1, MaxOf
<1>3. ASSUME ~(m >= n) PROVE Max(S) = n
  <2>1. \A y \in S : y <= n
    BY <1>1, <1>3
  <2> QED BY <1>1, <2>1, MaxOf
<1>4. Max(S) = IF m >= n THEN m ELSE n
  BY <1>2, <1>3
<1> QED BY <1>4 DEF S

LEMMA ConfirmTrails ==
    ASSUME NEW store, NEW seen, Trails(store, seen), NEW a \in Agents, NEW seq \in Nat,
           1..seq \subseteq seen[a]
    PROVE  Trails(ConfirmDelivery(store, a, seq), seen)
<1> DEFINE upTo == Max({seq, CursorFor(store, a)})
           new == ConfirmDelivery(store, a, seq)
<1>1. CursorFor(store, a) \in Nat /\ 1..CursorFor(store, a) \subseteq seen[a]
  BY DEF Trails
<1>2. upTo = IF seq >= CursorFor(store, a) THEN seq ELSE CursorFor(store, a)
  BY <1>1, LargerOf
<1>3. /\ new.cursor = [b \in DOMAIN store.cursor \cup {a} |->
                         IF b = a THEN upTo ELSE store.cursor[b]]
      /\ new.pending = {n \in store.pending : n[1] # a \/ n[2] > upTo}
  BY DEF ConfirmDelivery
<1> HIDE DEF upTo
<1>4. upTo \in Nat /\ upTo >= CursorFor(store, a) /\ 1..upTo \subseteq seen[a]
  BY <1>1, <1>2
<1>5. \A b \in Agents : CursorFor(new, b) = IF b = a THEN upTo ELSE CursorFor(store, b)
  BY <1>3 DEF CursorFor
<1>6. PICK rows \in SUBSET Agents, m \in Nat :
        store.pending = {n \in rows \X (1..m) : n[2] > CursorFor(store, n[1])}
  BY DEF Trails
<1> HIDE DEF new
<1>7. new.pending = {n \in rows \X (1..m) : n[2] > CursorFor(new, n[1])}
  <2>1. ASSUME NEW n \in rows \X (1..m)
        PROVE  n \in new.pending <=> n[2] > CursorFor(new, n[1])
    <3>1. n[1] \in Agents /\ n[2] \in Nat
      OBVIOUS
    <3>2. n \in store.pending <=> n[2] > CursorFor(store, n[1])
      BY <1>6
    <3>3. CASE n[1] = a
      BY <1>1, <1>3, <1>4, <1>5, <3>1, <3>2, <3>3
    <3>4. CASE n[1] # a
      BY <1>3, <1>5, <3>1, <3>2, <3>4
    <3> QED BY <3>3, <3>4
  <2>2. new.pending \subseteq rows \X (1..m)
    BY <1>3, <1>6
  <2> QED BY <2>1, <2>2
<1>8. DOMAIN new.cursor \subseteq Agents
  BY <1>3 DEF Trails
<1>9. \A b \in Agents : CursorFor(new, b) \in Nat /\ 1..CursorFor(new, b) \subseteq seen[b]
  BY <1>4, <1>5 DEF Trails
<1>10. Trails(new, seen)
  BY <1>7, <1>8, <1>9 DEF Trails
<1> QED BY <1>10 DEF new

LEMMA RelayInitPart == JournalInit => RelayPart
<1> SUFFICES ASSUME JournalInit PROVE RelayPart
  OBVIOUS
<1>1. HooksFollow
  BY DEF JournalInit, HooksFollow, IsMap, Away, Clients
<1>2. Trails(relay.store, shown)
  BY EmptyTrails DEF JournalInit
<1>3. \A c \in Clients : client[c].store = EmptyStore
  BY DEF JournalInit, Away
<1>4. Trails(EmptyStore, shown)
  BY EmptyTrails
<1> QED BY <1>1, <1>2, <1>3, <1>4 DEF RelayPart, StoresTrail

\* A client takes a step, and more may have been shown.
LEMMA StoresKeep ==
    ASSUME JournalPart, StoresTrail, NEW c \in Clients, NEW row,
           client' = [client EXCEPT ![c] = row], Trails(row.store, shown'),
           Trails(relay'.store, shown'), \A a \in Agents : shown[a] \subseteq shown'[a]
    PROVE  StoresTrail'
<1>1. IsMap(client, Clients)
  BY DEF JournalPart, CallsHoldTheLock
<1>2. PICK seen : seen = shown'
  OBVIOUS
<1>3. \A a \in Agents : shown[a] \subseteq seen[a]
  BY <1>2
<1>4. ASSUME NEW d \in Clients PROVE Trails(client'[d].store, seen)
  <2>1. CASE d = c
    <3>1. client'[d] = row
      BY <1>1, <2>1 DEF IsMap
    <3> QED BY <1>2, <3>1
  <2>2. CASE d # c
    <3>1. client'[d] = client[d]
      BY <1>1, <2>2 DEF IsMap
    <3>2. PICK store : store = client[d].store
      OBVIOUS
    <3>3. Trails(store, shown)
      BY <3>2 DEF StoresTrail
    <3>4. PICK before : before = shown
      OBVIOUS
    <3>5. Trails(store, seen)
      BY <1>3, <3>3, <3>4, MoreIsShown
    <3> QED BY <3>1, <3>2, <3>5
  <2> QED BY <2>1, <2>2
<1> QED BY <1>2, <1>4 DEF StoresTrail

\* A writer's step leaves the hooks and every store as they are.
LEMMA WriterKeepsTrail ==
    ASSUME JournalPart, RelayPart, NEW p \in Writers, UNCHANGED <<relay, attached, shown>>,
           NEW row, row.store = client[p].store \/ row = Away,
           client' = [client EXCEPT ![p] = row]
    PROVE  RelayPart'
<1>1. p \in Clients /\ p \notin Hooks /\ IsMap(client, Clients)
  BY ThreadJournalAssumption DEF Clients, JournalPart, CallsHoldTheLock
<1>2. \A h \in Hooks : client'[h] = client[h]
  BY <1>1 DEF Clients, IsMap
<1>3. HooksFollow'
  BY <1>2 DEF RelayPart, HooksFollow
<1>4. Trails(relay'.store, shown') /\ \A a \in Agents : shown[a] \subseteq shown'[a]
  BY DEF RelayPart, StoresTrail
<1>5. Trails(row.store, shown)
  <2>1. CASE row.store = client[p].store
    BY <1>1, <2>1 DEF RelayPart, StoresTrail
  <2>2. CASE row = Away
    BY <2>2, EmptyTrails DEF Away
  <2> QED BY <2>1, <2>2
<1>6. Trails(row.store, shown')
  BY <1>5
<1>7. StoresTrail'
  BY <1>1, <1>4, <1>6, StoresKeep DEF RelayPart
<1> QED BY <1>3, <1>7 DEF RelayPart

LEMMA FileKeepsTrail ==
    ASSUME RelayPart, UNCHANGED relayVars PROVE RelayPart'
BY DEF RelayPart, HooksFollow, StoresTrail, relayVars

LEMMA WriterStepsTrail ==
    ASSUME JournalPart, RelayPart, NEW p \in Writers,
           \/ BeginCall(p) \/ Reconcile(p) \/ EnsureOrderedBaseline(p)
           \/ Assign(p) \/ Claim(p) \/ Record(p) \/ Return(p) \/ WriterDies(p)
    PROVE  RelayPart'
<1>1. /\ UNCHANGED <<relay, attached, shown>>
      /\ \/ client' = client
         \/ client' = [client EXCEPT ![p].pc = "seed"]
         \/ client' = [client EXCEPT ![p] = Away]
  <2>1. CASE \/ BeginCall(p) \/ Assign(p) \/ Claim(p) \/ Return(p)
    BY <2>1 DEF BeginCall, Assign, Claim, Return, relayVars
  <2>2. CASE WriterDies(p)
    BY <2>2 DEF WriterDies
  <2>3. CASE Reconcile(p)
    BY <2>3 DEF Reconcile, AppendBatch
  <2>4. CASE EnsureOrderedBaseline(p)
    BY <2>4 DEF EnsureOrderedBaseline, AppendBatch
  <2>5. CASE Record(p)
    BY <2>5 DEF Record, AppendBatch
  <2> QED BY <2>1, <2>2, <2>3, <2>4, <2>5
<1>2. CASE client' = client
  BY <1>1, <1>2, FileKeepsTrail DEF relayVars
<1>3. CASE client' = [client EXCEPT ![p] = Away]
  BY <1>1, <1>3, WriterKeepsTrail
<1>4. CASE client' = [client EXCEPT ![p].pc = "seed"]
  <2>1. PICK row : row = [client[p] EXCEPT !.pc = "seed"]
    OBVIOUS
  <2>2. p \in Clients /\ IsClient(client[p])
    BY DEF Clients, JournalPart, CallsHoldTheLock
  <2>3. row.store = client[p].store
    BY <2>1, <2>2 DEF IsClient
  <2>4. client' = [client EXCEPT ![p] = row]
    BY <1>4, <2>1
  <2> QED BY <1>1, <2>3, <2>4, WriterKeepsTrail
<1> QED BY <1>1, <1>2, <1>3, <1>4

LEMMA WriterCallStep ==
    ASSUME JournalPart, NEW p \in Writers,
           \/ BeginCall(p) \/ Reconcile(p) \/ EnsureOrderedBaseline(p)
           \/ Assign(p) \/ Claim(p) \/ Record(p) \/ Return(p) \/ WriterDies(p)
    PROVE  JournalPart'
BY BeginStep, ReconcileStep, BaselineStep, AssignStep, ClaimStep, RecordStep, ReturnOrDieStep

LEMMA LapseKeepsTrail == ASSUME RelayPart, Lapse PROVE RelayPart'
BY FileKeepsTrail DEF Lapse

\* The row of a client that takes a step.
LEMMA SteppedRow ==
    ASSUME NEW step, NEW store, NEW ids \in SUBSET Agents
    PROVE  LET s == [pc |-> step, store |-> store, ids |-> ids] IN
           IsClient(s) /\ s.pc = step /\ s.store = store /\ s.ids = ids
BY DEF IsClient

\* The agents that seedRelaySubscribers finds are agents of the plan.
LEMMA SeedStep ==
    ASSUME JournalPart, RelayPart, NEW p \in Writers, SeedSubscribers(p)
    PROVE  JournalPart' /\ RelayPart'
<1>1. p \in Clients /\ IsClient(client[p]) /\ client[p].pc = "seed" /\ lock = p
  BY DEF Clients, JournalPart, CallsHoldTheLock, SeedSubscribers
<1>2. writer[p].snap = journal /\ journal \in Seq(EventRows)
  BY <1>1 DEF JournalPart, CallsHoldTheLock
<1>3. \A i \in DOMAIN journal : journal[i].actor \in Agents
  <2>1. \A i \in DOMAIN journal : journal[i] \in EventRows
    BY <1>2
  <2> QED BY <2>1 DEF EventRows, Agents
<1>4. DOMAIN ReadStore.cursor \subseteq Agents
  BY EmptyTrails DEF ReadStore, RelayPart, StoresTrail, Trails
<1>5. SeedIds(p, journal) \in SUBSET Agents
  BY <1>3, <1>4 DEF SeedIds, Agents
<1>6. PICK ids \in SUBSET Agents : ids = SeedIds(p, writer[p].snap)
  BY <1>2, <1>5
<1>7. PICK row : row = [client[p] EXCEPT !.pc = "load", !.ids = ids]
  OBVIOUS
<1>8. row = [pc |-> "load", store |-> client[p].store, ids |-> ids]
  BY <1>1, <1>7 DEF IsClient
<1>9. IsClient(row) /\ row.store = client[p].store
  BY <1>8, SteppedRow
<1>10. /\ client' = [client EXCEPT ![p] = row]
       /\ UNCHANGED threadVars /\ UNCHANGED <<relay, attached, shown>>
  BY <1>6, <1>7 DEF SeedSubscribers
<1>11. JournalPart'
  BY <1>1, <1>9, <1>10, ClientMoves
<1>12. RelayPart'
  BY <1>9, <1>10, WriterKeepsTrail
<1> QED BY <1>11, <1>12

LEMMA ReadTrails == ASSUME RelayPart PROVE Trails(ReadStore, shown)
BY EmptyTrails DEF ReadStore, RelayPart, StoresTrail

\* A client goes on with its access, and nothing more is attached or shown.
LEMMA HooksKeep ==
    ASSUME JournalPart, RelayPart, NEW c \in Clients, NEW row, client[c].pc # "away",
           row.pc # "load", client' = [client EXCEPT ![c] = row], UNCHANGED <<attached, shown>>
    PROVE  HooksFollow'
<1>1. IsMap(client, Clients)
  BY DEF JournalPart, CallsHoldTheLock
<1>2. ASSUME NEW h \in Hooks
      PROVE  /\ attached[h] = {} => client'[h].pc = "away"
             /\ client'[h].pc = "load" => attached[h] \subseteq shown[Who[h]]
  <2>1. h \in Clients
    BY DEF Clients
  <2>2. CASE h = c
    BY <1>1, <2>1, <2>2 DEF IsMap, RelayPart, HooksFollow
  <2>3. CASE h # c
    BY <1>1, <2>1, <2>3 DEF IsMap, RelayPart, HooksFollow
  <2> QED BY <2>2, <2>3
<1> QED BY <1>2 DEF RelayPart, HooksFollow

\* What has been attached and shown reaches from 1 to its last seq.
LEMMA LastOfStretch ==
    ASSUME NEW seqs, NEW seen, Follows(seqs, seen), seqs \subseteq seen
    PROVE  Max(seqs) \in Nat /\ 1..Max(seqs) \subseteq seen
<1>1. PICK k \in Nat, m \in Nat : k < m /\ seqs = (k + 1)..m /\ 1..k \subseteq seen
  BY DEF Follows
<1>2. seqs \in SUBSET Int /\ m \in seqs /\ \A y \in seqs : y <= m
  BY <1>1
<1>3. Max(seqs) = m
  BY <1>2, MaxOf
<1>4. ASSUME NEW i \in 1..m PROVE i \in seen
  <2>1. CASE i \in 1..k
    BY <1>1, <2>1
  <2>2. CASE i \in (k + 1)..m
    BY <1>1, <2>2
  <2> QED BY <1>1, <2>1, <2>2
<1> QED BY <1>1, <1>3, <1>4

LEMMA LoadStep ==
    ASSUME JournalPart, RelayPart, NEW c \in Clients, LoadStore(c)
    PROVE  JournalPart' /\ RelayPart'
<1>1. IsClient(client[c]) /\ client[c].pc = "load"
  BY DEF JournalPart, CallsHoldTheLock, LoadStore
<1>2. PICK file : file = ReadStore
  OBVIOUS
<1>3. Trails(file, shown)
  BY <1>2, ReadTrails
<1>4. PICK seen : seen = shown
  OBVIOUS
<1>5. PICK store : store = IF c \in Writers
        THEN IngestJournalEvents(ReadStore, writer[c].snap, client[c].ids)
        ELSE ConfirmDelivery(ReadStore, Who[c], Max(attached[c]))
  OBVIOUS
<1>6. Trails(store, seen)
  <2>1. CASE c \in Writers
    <3>1. lock = c /\ writer[c].snap = journal
      BY <1>1, <2>1 DEF JournalPart, CallsHoldTheLock
    <3>2. PICK events : events = journal
      OBVIOUS
    <3>3. PICK n \in Nat : DOMAIN events = 1..n
      BY <3>2 DEF JournalPart, CallsHoldTheLock
    <3>4. \A i \in 1..n : events[i].seq = i
      BY <3>2, <3>3 DEF JournalPart, RevsRise
    <3>5. PICK ids \in SUBSET Agents : ids = client[c].ids
      BY <1>1 DEF IsClient
    <3>6. store = IngestJournalEvents(file, events, ids)
      BY <1>2, <1>5, <2>1, <3>1, <3>2, <3>5
    <3>7. Trails(IngestJournalEvents(file, events, ids), seen)
      BY <1>3, <1>4, <3>3, <3>4, IngestTrails
    <3> QED BY <3>6, <3>7
  <2>2. CASE c \notin Writers
    <3>1. c \in Hooks /\ Who[c] \in Agents
      BY <2>2, ThreadJournalAssumption DEF Clients, Agents
    <3>2. PICK seqs : seqs = attached[c]
      OBVIOUS
    <3>3. PICK a \in Agents : a = Who[c]
      BY <3>1
    <3>4. Follows(seqs, seen[a]) /\ seqs \subseteq seen[a]
      BY <1>1, <1>4, <3>1, <3>2, <3>3 DEF RelayPart, HooksFollow
    <3>5. PICK seq : seq = Max(seqs)
      OBVIOUS
    <3>6. seq \in Nat /\ 1..seq \subseteq seen[a]
      BY <3>4, <3>5, LastOfStretch
    <3>7. store = ConfirmDelivery(file, a, seq)
      BY <1>2, <1>5, <2>2, <3>2, <3>3, <3>5
    <3>8. Trails(ConfirmDelivery(file, a, seq), seen)
      BY <1>3, <1>4, <3>6, ConfirmTrails
    <3> QED BY <3>7, <3>8
  <2> QED BY <2>1, <2>2
<1>7. PICK row : row = [client[c] EXCEPT !.pc = "open", !.store = store]
  OBVIOUS
<1>8. row = [pc |-> "open", store |-> store, ids |-> client[c].ids]
  BY <1>1, <1>7 DEF IsClient
<1>9. IsClient(row) /\ row.pc = "open" /\ row.store = store
  BY <1>1, <1>8, SteppedRow DEF IsClient
<1>10. /\ client' = [client EXCEPT ![c] = row]
       /\ UNCHANGED threadVars /\ UNCHANGED <<relay, attached, shown>>
  BY <1>5, <1>7 DEF LoadStore
<1>11. JournalPart'
  BY <1>1, <1>9, <1>10, ClientMoves
<1>12. HooksFollow'
  BY <1>1, <1>9, <1>10, HooksKeep
<1>13. Trails(row.store, shown') /\ Trails(relay'.store, shown')
       /\ \A a \in Agents : shown[a] \subseteq shown'[a]
  BY <1>4, <1>6, <1>9, <1>10 DEF RelayPart, StoresTrail
<1>14. StoresTrail'
  BY <1>10, <1>13, StoresKeep DEF RelayPart
<1> QED BY <1>11, <1>12, <1>14 DEF RelayPart

LEMMA OpenStep ==
    ASSUME JournalPart, RelayPart, NEW c \in Clients, OpenStore(c)
    PROVE  JournalPart' /\ RelayPart'
<1>1. IsClient(client[c]) /\ client[c].pc = "open"
  BY DEF JournalPart, CallsHoldTheLock, OpenStore
<1>2. PICK row : row = [client[c] EXCEPT !.pc = "write"]
  OBVIOUS
<1>3. row = [pc |-> "write", store |-> client[c].store, ids |-> client[c].ids]
  BY <1>1, <1>2 DEF IsClient
<1>4. IsClient(row) /\ row.pc = "write" /\ row.store = client[c].store
  BY <1>1, <1>3, SteppedRow DEF IsClient
<1>5. /\ client' = [client EXCEPT ![c] = row] /\ relay'.store = EmptyStore
      /\ UNCHANGED threadVars /\ UNCHANGED <<attached, shown>>
  BY <1>2 DEF OpenStore
<1>6. JournalPart'
  BY <1>1, <1>4, <1>5, ClientMoves
<1>7. HooksFollow'
  BY <1>1, <1>4, <1>5, HooksKeep
<1>8. Trails(row.store, shown') /\ \A a \in Agents : shown[a] \subseteq shown'[a]
  BY <1>4, <1>5 DEF RelayPart, StoresTrail
<1>9. Trails(relay'.store, shown')
  BY <1>5, EmptyTrails
<1>10. StoresTrail'
  BY <1>5, <1>8, <1>9, StoresKeep DEF RelayPart
<1> QED BY <1>6, <1>7, <1>10 DEF RelayPart

LEMMA WriteStep ==
    ASSUME JournalPart, RelayPart, NEW c \in Clients, WriteStore(c)
    PROVE  JournalPart' /\ RelayPart'
<1>1. /\ client[c].pc = "write" /\ client' = [client EXCEPT ![c] = Away]
      /\ relay'.store \in {client[c].store, EmptyStore}
      /\ attached' = [h \in Hooks |-> IF h = c THEN {} ELSE attached[h]]
      /\ UNCHANGED threadVars /\ shown' = shown
  BY DEF WriteStore
<1>2. IsClient(Away) /\ Away.pc = "away" /\ Away.store = EmptyStore
  BY IdleShape DEF Away
<1>3. JournalPart'
  BY <1>1, <1>2, ClientMoves
<1>4. IsMap(client, Clients)
  BY DEF JournalPart, CallsHoldTheLock
<1>5. ASSUME NEW h \in Hooks
      PROVE  /\ attached'[h] = {} => client'[h].pc = "away"
             /\ attached'[h] # {} => Follows(attached'[h], shown'[Who[h]])
             /\ client'[h].pc = "load" => attached'[h] \subseteq shown'[Who[h]]
  <2>1. h \in Clients
    BY DEF Clients
  <2>2. CASE h = c
    BY <1>1, <1>2, <1>4, <2>1, <2>2 DEF IsMap
  <2>3. CASE h # c
    BY <1>1, <1>4, <2>1, <2>3 DEF IsMap, RelayPart, HooksFollow
  <2> QED BY <2>2, <2>3
<1>6. IsMap(attached', Hooks) /\ IsMap(shown', Agents)
  BY <1>1 DEF IsMap, RelayPart, HooksFollow
<1>7. HooksFollow'
  BY <1>5, <1>6 DEF HooksFollow
<1>8. Trails(relay'.store, shown') /\ \A a \in Agents : shown[a] \subseteq shown'[a]
  BY <1>1, EmptyTrails DEF RelayPart, StoresTrail
<1>9. Trails(Away.store, shown')
  BY <1>2, EmptyTrails
<1>10. StoresTrail'
  BY <1>1, <1>8, <1>9, StoresKeep DEF RelayPart
<1> QED BY <1>3, <1>7, <1>10 DEF RelayPart

LEMMA AttachStep ==
    ASSUME JournalPart, RelayPart, NEW h \in Hooks, Attach(h)
    PROVE  JournalPart' /\ RelayPart'
<1>1. PICK seqs : seqs = PendingSeqs(ReadStore, Who[h])
  OBVIOUS
<1>2. /\ attached[h] = {} /\ seqs # {} /\ attached' = [attached EXCEPT ![h] = seqs]
      /\ UNCHANGED <<note, journal, lock, writer, relay, client, shown>>
  BY <1>1 DEF Attach, threadVars
<1>3. JournalPart'
  BY <1>2 DEF JournalPart, CallsHoldTheLock, RevsRise, CallsAreOnTrack, OnTrack,
              Level, Ahead, LastRev, OwnKey
<1>4. Follows(seqs, shown[Who[h]])
  <2>1. PICK a \in Agents : a = Who[h]
    BY ThreadJournalAssumption DEF Agents
  <2>2. PICK store : store = ReadStore
    OBVIOUS
  <2>3. PICK seen : seen = shown
    OBVIOUS
  <2>4. Trails(store, seen)
    BY <2>2, <2>3, ReadTrails
  <2>5. seqs = PendingSeqs(store, a)
    BY <1>1, <2>1, <2>2
  <2>6. Follows(PendingSeqs(store, a), seen[a])
    BY <1>2, <2>4, <2>5, PendingFollows
  <2> QED BY <2>1, <2>3, <2>5, <2>6
<1>5. client[h].pc = "away" /\ IsMap(attached, Hooks) /\ IsMap(shown, Agents)
  BY <1>2 DEF RelayPart, HooksFollow
<1>6. IsMap(attached', Hooks) /\ attached'[h] = seqs
      /\ \A g \in Hooks \ {h} : attached'[g] = attached[g]
  BY <1>2, <1>5 DEF IsMap
<1>7. HooksFollow'
  BY <1>2, <1>4, <1>5, <1>6 DEF RelayPart, HooksFollow
<1>8. StoresTrail'
  BY <1>2 DEF RelayPart, StoresTrail
<1> QED BY <1>3, <1>7, <1>8 DEF RelayPart

\* The output reaches the host: what it shows grows, and is then confirmed.
LEMMA EmitStep ==
    ASSUME JournalPart, RelayPart, NEW h \in Hooks, Emit(h)
    PROVE  JournalPart' /\ RelayPart'
<1>1. /\ attached[h] # {} /\ client[h].pc = "away" /\ UNCHANGED threadVars /\ relay' = relay
      /\ shown' = [shown EXCEPT ![Who[h]] =
                     IF h \in Injects THEN shown[Who[h]] \cup attached[h] ELSE shown[Who[h]]]
      /\ IF h \in Injects
         THEN client' = [client EXCEPT ![h].pc = "load"] /\ attached' = attached
         ELSE attached' = [attached EXCEPT ![h] = {}] /\ client' = client
  BY DEF Emit, DeliverySucceeded
<1>2. /\ h \in Clients /\ Who[h] \in Agents /\ IsMap(client, Clients)
      /\ IsClient(client[h]) /\ IsMap(attached, Hooks) /\ IsMap(shown, Agents)
  BY ThreadJournalAssumption
     DEF Clients, Agents, JournalPart, CallsHoldTheLock, RelayPart, HooksFollow
<1>3. PICK row : row = IF h \in Injects THEN [client[h] EXCEPT !.pc = "load"] ELSE client[h]
  OBVIOUS
<1>4. row = [pc |-> IF h \in Injects THEN "load" ELSE "away",
             store |-> client[h].store, ids |-> client[h].ids]
  BY <1>1, <1>2, <1>3 DEF IsClient
<1>5. IsClient(row) /\ row.store = client[h].store
      /\ row.pc = IF h \in Injects THEN "load" ELSE "away"
  BY <1>2, <1>4, SteppedRow DEF IsClient
<1>6. client' = [client EXCEPT ![h] = row]
  BY <1>1, <1>2, <1>3 DEF IsMap
<1>7. JournalPart'
  BY <1>1, <1>2, <1>5, <1>6, ClientMoves
<1>8. /\ IsMap(shown', Agents) /\ IsMap(attached', Hooks)
      /\ \A a \in Agents : shown[a] \subseteq shown'[a]
      /\ h \in Injects => attached[h] \subseteq shown'[Who[h]]
  <2>1. IsMap(shown', Agents) /\ \A a \in Agents : shown[a] \subseteq shown'[a]
    BY <1>1, <1>2 DEF IsMap
  <2>2. IsMap(attached', Hooks)
    BY <1>1, <1>2 DEF IsMap
  <2>3. h \in Injects => attached[h] \subseteq shown'[Who[h]]
    BY <1>1, <1>2 DEF IsMap
  <2> QED BY <2>1, <2>2, <2>3
<1>9. ASSUME NEW g \in Hooks
      PROVE  /\ attached'[g] = {} => client'[g].pc = "away"
             /\ attached'[g] # {} => Follows(attached'[g], shown'[Who[g]])
             /\ client'[g].pc = "load" => attached'[g] \subseteq shown'[Who[g]]
  <2>1. g \in Clients /\ Who[g] \in Agents
    BY ThreadJournalAssumption DEF Clients, Agents
  <2>2. /\ attached[g] # {} => Follows(attached[g], shown[Who[g]])
        /\ attached[g] = {} => client[g].pc = "away"
        /\ client[g].pc = "load" => attached[g] \subseteq shown[Who[g]]
    BY DEF RelayPart, HooksFollow
  <2>3. shown[Who[g]] \subseteq shown'[Who[g]]
    BY <1>8, <2>1
  <2>4. attached[g] # {} => Follows(attached[g], shown'[Who[g]])
    <3>1. PICK seqs : seqs = attached[g]
      OBVIOUS
    <3>2. PICK seen : seen = shown[Who[g]]
      OBVIOUS
    <3>3. PICK more : more = shown'[Who[g]]
      OBVIOUS
    <3>4. seqs # {} => Follows(seqs, more)
      BY <2>2, <2>3, <3>1, <3>2, <3>3, FollowsMore
    <3> QED BY <3>1, <3>3, <3>4
  <2>5. CASE g = h /\ h \in Injects
    <3>1. attached' = attached /\ client'[h].pc = "load"
      BY <1>1, <1>2, <1>5, <1>6, <2>5 DEF IsMap
    <3> QED BY <1>1, <1>8, <2>4, <2>5, <3>1
  <2>6. CASE g = h /\ h \notin Injects
    <3>1. attached'[h] = {} /\ client'[h].pc = "away"
      BY <1>1, <1>2, <2>6 DEF IsMap
    <3> QED BY <2>6, <3>1
  <2>7. CASE g # h
    <3>1. attached'[g] = attached[g] /\ client'[g] = client[g]
      BY <1>1, <1>2, <2>1, <2>7 DEF IsMap
    <3> QED BY <2>2, <2>3, <2>4, <3>1
  <2> QED BY <2>5, <2>6, <2>7
<1>10. HooksFollow'
  BY <1>8, <1>9 DEF HooksFollow
<1>11. Trails(client[h].store, shown') /\ Trails(relay'.store, shown')
  <2>1. PICK seen : seen = shown
    OBVIOUS
  <2>2. PICK more : more = shown'
    OBVIOUS
  <2>3. PICK file : file = relay.store
    OBVIOUS
  <2>4. PICK own : own = client[h].store
    OBVIOUS
  <2>5. Trails(file, seen) /\ Trails(own, seen) /\ \A a \in Agents : seen[a] \subseteq more[a]
    BY <1>2, <1>8, <2>1, <2>2, <2>3, <2>4 DEF RelayPart, StoresTrail
  <2>6. Trails(file, more) /\ Trails(own, more)
    BY <2>5, MoreIsShown
  <2> QED BY <1>1, <2>2, <2>3, <2>4, <2>6
<1>12. Trails(row.store, shown')
  BY <1>5, <1>11
<1>13. StoresTrail'
  BY <1>2, <1>6, <1>8, <1>11, <1>12, StoresKeep DEF RelayPart
<1> QED BY <1>7, <1>10, <1>13 DEF RelayPart

LEMMA UndeliveredStep ==
    ASSUME JournalPart, RelayPart, NEW h \in Hooks, Undelivered(h)
    PROVE  JournalPart' /\ RelayPart'
<1>1. /\ client' = [client EXCEPT ![h] = Away] /\ UNCHANGED threadVars
      /\ attached' = [attached EXCEPT ![h] = {}] /\ UNCHANGED <<relay, shown>>
  BY DEF Undelivered
<1>2. IsClient(Away) /\ Away.pc = "away" /\ Away.store = EmptyStore
  BY IdleShape DEF Away
<1>3. h \in Clients /\ IsMap(client, Clients) /\ IsMap(attached, Hooks)
  BY DEF Clients, JournalPart, CallsHoldTheLock, RelayPart, HooksFollow
<1>4. JournalPart'
  BY <1>1, <1>2, <1>3, ClientMoves
<1>5. ASSUME NEW g \in Hooks
      PROVE  \/ attached'[g] = {} /\ client'[g].pc = "away"
             \/ attached'[g] = attached[g] /\ client'[g] = client[g]
  <2>1. g \in Clients
    BY DEF Clients
  <2> QED BY <1>1, <1>2, <1>3, <2>1 DEF IsMap
<1>6. IsMap(attached', Hooks)
  BY <1>1, <1>3 DEF IsMap
<1>7. HooksFollow'
  BY <1>1, <1>2, <1>5, <1>6 DEF RelayPart, HooksFollow
<1>8. Trails(relay'.store, shown') /\ \A a \in Agents : shown[a] \subseteq shown'[a]
  BY <1>1 DEF RelayPart, StoresTrail
<1>9. Trails(Away.store, shown')
  BY <1>2, EmptyTrails
<1>10. StoresTrail'
  BY <1>1, <1>3, <1>8, <1>9, StoresKeep DEF RelayPart
<1> QED BY <1>4, <1>7, <1>10 DEF RelayPart

-----------------------------------------------------------------------------
JournalInv == JournalPart /\ RelayPart

LEMMA JournalInitInv == JournalInit => JournalInv
BY JournalInitPart, RelayInitPart DEF JournalInv

LEMMA JournalStepInv == JournalInv /\ [JournalNext]_journalVars => JournalInv'
<1> SUFFICES ASSUME JournalPart, RelayPart, [JournalNext]_journalVars
             PROVE  JournalPart' /\ RelayPart'
  BY DEF JournalInv
<1>1. ASSUME NEW p \in Writers,
             \/ BeginCall(p) \/ Reconcile(p) \/ EnsureOrderedBaseline(p)
             \/ Assign(p) \/ Claim(p) \/ Record(p) \/ Return(p) \/ WriterDies(p)
      PROVE  JournalPart' /\ RelayPart'
  BY <1>1, WriterCallStep, WriterStepsTrail
<1>2. ASSUME NEW p \in Writers, SeedSubscribers(p) PROVE JournalPart' /\ RelayPart'
  BY <1>2, SeedStep
<1>3. CASE Lapse
  BY <1>3, LapseStep, LapseKeepsTrail
<1>4. ASSUME NEW c \in Clients, LoadStore(c) \/ OpenStore(c) \/ WriteStore(c)
      PROVE  JournalPart' /\ RelayPart'
  BY <1>4, LoadStep, OpenStep, WriteStep
<1>5. ASSUME NEW h \in Hooks, Attach(h) \/ Emit(h) \/ Undelivered(h)
      PROVE  JournalPart' /\ RelayPart'
  BY <1>5, AttachStep, EmitStep, UndeliveredStep
<1>6. CASE UNCHANGED journalVars
  <2>1. UNCHANGED <<note, journal, lock, writer, client>> /\ UNCHANGED relayVars
    BY <1>6 DEF journalVars, threadVars, relayVars
  <2>2. JournalPart'
    BY <2>1 DEF JournalPart, CallsHoldTheLock, RevsRise, CallsAreOnTrack, OnTrack,
                Level, Ahead, LastRev, OwnKey
  <2> QED BY <2>1, <2>2, FileKeepsTrail
<1> QED BY <1>1, <1>2, <1>3, <1>4, <1>5, <1>6 DEF JournalNext

LEMMA JournalInvImplies == JournalInv => EventsAreAccountedFor
<1> SUFFICES ASSUME JournalPart, RelayPart PROVE EventsAreAccountedFor
  BY DEF JournalInv
<1>1. /\ JournalRev(journal) <= note.rev /\ journal \in Seq(EventRows)
  BY SnapshotReads DEF JournalPart, CallsHoldTheLock
<1>2. JournalIsGapless
  BY DEF JournalPart, RevsRise, JournalIsGapless
<1>3. SkippedRevsAreMarked
  <2>1. ASSUME NEW i \in 2..Len(journal)
        PROVE  /\ journal[i - 1].rev <= journal[i].rev
               /\ journal[i].rev - journal[i - 1].rev > 1 => journal[i].key[1] = "state.recovered"
    <3>1. i \in DOMAIN journal /\ i - 1 \in DOMAIN journal /\ i - 1 <= i
      BY <1>1
    <3> QED BY <3>1 DEF JournalPart, RevsRise
  <2> QED BY <1>1, <2>1 DEF SkippedRevsAreMarked
<1>4. ASSUME NEW store, Trails(store, shown)
      PROVE  \A a \in DOMAIN store.cursor : 1..store.cursor[a] \subseteq shown[a]
  BY <1>4 DEF Trails, CursorFor
<1>5. \A store \in Stores : Trails(store, shown)
  BY ReadTrails DEF Stores, RelayPart, StoresTrail
<1>6. CursorTrailsDelivery
  BY <1>4, <1>5 DEF CursorTrailsDelivery
<1> QED BY <1>2, <1>3, <1>6 DEF EventsAreAccountedFor, JournalAccountsForRevs

\* After any interleaving of calls that fail, die or find another's lock, and of
\* hooks that read and write one file with them, every revision of the note is in
\* the journal once, in order, and a skipped one is marked; and no cursor, on disk
\* or about to be written, has passed an event that its agent was not shown.
THEOREM EventsAreKeptAndDelivered == JournalSpec => []EventsAreAccountedFor
<1>1. JournalSpec => []JournalInv
  BY JournalInitInv, JournalStepInv, PTL DEF JournalSpec
<1> QED BY <1>1, JournalInvImplies, PTL

-----------------------------------------------------------------------------
(* The claims: SliceClaims *)

\* The shapes of a plan, of a claim in it and of an envelope.
ClaimRows == [key : Keys, worker : Workers, token : Nat, rev : Nat]
SliceRows == [status : {"open", "done", "superseded"}, to : Workers \cup {NoWorker},
              gen : Nat, claim : ClaimRows \cup {NoClaim}]
IsPlan(after) == /\ after = [s \in DOMAIN after |-> after[s]] /\ DOMAIN after \subseteq Slices
                  /\ \A s \in DOMAIN after : after[s] \in SliceRows
EnvelopeRows == [worker : Workers, token : Nat, rev : Nat]
EnvelopeIds == Slices \X Nat \X Keys
HasClaim(after, s) == s \in DOMAIN after /\ after[s].claim # NoClaim

\* Every claim in a plan was made by revision rev, with a token up to last.
ClaimsBy(after, rev) == \A s \in DOMAIN after : HasClaim(after, s) => after[s].claim.rev <= rev

PlansHaveShape ==
    /\ plan = [rev |-> plan.rev, slices |-> plan.slices] /\ plan.rev \in Nat
    /\ IsPlan(plan.slices) /\ ClaimsBy(plan.slices, plan.rev)
    /\ \A past \in revs : /\ IsPlan(past) /\ ClaimsBy(past, plan.rev)
                          /\ DOMAIN past \subseteq DOMAIN plan.slices \cup forgotten

EnvelopesHaveShape ==
    /\ secrets = [i \in DOMAIN secrets |-> secrets[i]] /\ DOMAIN secrets \subseteq EnvelopeIds
    /\ \A i \in DOMAIN secrets : /\ secrets[i] \in EnvelopeRows /\ secrets[i].token <= issued
                                 /\ i[1] \in DOMAIN plan.slices \cup forgotten
    /\ \A i, j \in DOMAIN secrets : secrets[i].token = secrets[j].token => i = j
    /\ issued \in Nat /\ \A t \in revoked : t \in Nat /\ t <= issued
    /\ \A r \in granted : r \in Nat /\ r <= plan.rev

\* Some generation is beyond them all.
GensUpTo(n) == /\ \A s \in DOMAIN plan.slices : SliceAt(s).gen <= n
               /\ \A past \in revs : \A s \in DOMAIN past : past[s].gen <= n
               /\ \A i \in DOMAIN secrets : i[2] <= n
GensAreBounded == \E n \in Nat : GensUpTo(n)

\* The token of a claim is on no envelope but its own.
TokensHaveOneClaim ==
    \A s \in DOMAIN plan.slices : Claimed(s) =>
      /\ SliceAt(s).claim.token <= issued
      /\ \A i \in DOMAIN secrets : secrets[i].token = SliceAt(s).claim.token =>
                                     i = ClaimIdFor(s, SliceAt(s))

\* The envelope of a revoked token is of a generation that has passed.
RevokedAreBehind ==
    \A i \in DOMAIN secrets :
      secrets[i].token \in revoked /\ i[1] \in DOMAIN plan.slices \ forgotten =>
        i[2] < SliceAt(i[1]).gen

\* A claim of the last write has its envelope if that write has its history.
LatestClaimIsWhole ==
    plan.slices \in revs =>
      \A s \in DOMAIN plan.slices : Claimed(s) /\ SliceAt(s).claim.rev = plan.rev => HasSecret(s)

\* A write makes one claim.
ClaimRevsDiffer ==
    \A s, x \in DOMAIN plan.slices :
      Claimed(s) /\ Claimed(x) /\ SliceAt(s).claim.rev = SliceAt(x).claim.rev => s = x

ClaimInv ==
    /\ PlansHaveShape /\ EnvelopesHaveShape /\ GensAreBounded /\ TokensHaveOneClaim
    /\ RevokedAreBehind /\ LatestClaimIsWhole /\ AnsweredClaimHasItsSecret
    /\ ClaimRevsDiffer

-----------------------------------------------------------------------------
(* Least and greatest *)

LEMMA LeastNat ==
    ASSUME NEW S \in SUBSET Nat, S # {}
    PROVE  \E x \in S : \A y \in S : x <= y
<1> DEFINE R == StrictSubsetOrdering(Nat)
           T == {0..x : x \in S}
<1>1. IsWellFoundedOn(R, FiniteSubsetsOf(Nat))
  BY FS_StrictSubsetOrderingWellFounded
<1>2. T \subseteq FiniteSubsetsOf(Nat) /\ T # {}
  <2>1. ASSUME NEW x \in S PROVE 0..x \in FiniteSubsetsOf(Nat)
    <3>1. IsFiniteSet(0..x)
      BY FS_Interval
    <3> QED BY <3>1 DEF FiniteSubsetsOf
  <2> QED BY <2>1
<1>3. PICK t \in T : \A u \in T : <<u, t>> \notin R
  <2> HIDE DEF R, T
  <2> QED BY <1>1, <1>2, WFMin
<1>4. PICK x \in S : t = 0..x
  OBVIOUS
<1>5. ASSUME NEW y \in S PROVE x <= y
  <2>1. <<0..y, 0..x>> \notin R
    BY <1>3, <1>4
  <2>2. 0..y \in SUBSET Nat /\ 0..x \in SUBSET Nat
    OBVIOUS
  <2>3. 0..y \subseteq 0..x => 0..y = 0..x
    BY <2>1, <2>2 DEF StrictSubsetOrdering
  <2>4. CASE ~(x <= y)
    <3>1. 0..y \subseteq 0..x /\ x \in 0..x /\ x \notin 0..y
      BY <2>4
    <3> QED BY <2>3, <3>1
  <2> QED BY <2>4
<1> QED BY <1>5

LEMMA MinOf ==
    ASSUME NEW S \in SUBSET Nat, S # {}
    PROVE  Min(S) \in S /\ \A y \in S : Min(S) <= y
BY LeastNat DEF Min

LEMMA MaxOfBounded ==
    ASSUME NEW S \in SUBSET Nat, S # {}, NEW n \in Nat, \A y \in S : y <= n
    PROVE  Max(S) \in S /\ \A y \in S : y <= Max(S)
<1> DEFINE Above == {m \in Nat : \A y \in S : y <= m}
<1>1. PICK m \in Above : \A k \in Above : m <= k
  <2>1. Above \in SUBSET Nat /\ n \in Above
    OBVIOUS
  <2> HIDE DEF Above
  <2> QED BY <2>1, LeastNat
<1>2. m \in S
  <2>1. PICK y \in S : TRUE
    OBVIOUS
  <2>2. CASE m = 0
    BY <1>1, <2>1, <2>2
  <2>3. CASE m # 0
    <3>1. m - 1 \in Nat /\ m - 1 \notin Above
      BY <1>1, <2>3
    <3>2. PICK z \in S : ~(z <= m - 1)
      BY <3>1
    <3>3. z = m
      BY <1>1, <3>2
    <3> QED BY <3>2, <3>3
  <2> QED BY <2>2, <2>3
<1>3. \E x \in S : \A y \in S : x >= y
  BY <1>1, <1>2
<1>4. Max(S) \in S /\ \A y \in S : Max(S) >= y
  BY <1>3 DEF Max
<1> QED BY <1>4

-----------------------------------------------------------------------------
(* A write of the plan, whatever comes of it *)

NextStore(store) ==
    /\ store = [i \in DOMAIN store |-> store[i]]
    /\ DOMAIN secrets \subseteq DOMAIN store /\ DOMAIN store \subseteq EnvelopeIds
    /\ \A i \in DOMAIN secrets : store[i] = secrets[i]
    /\ issued' \in {issued, issued + 1}
    /\ \A i \in DOMAIN store \ DOMAIN secrets :
         /\ store[i] \in EnvelopeRows /\ i[1] \in DOMAIN plan.slices
         /\ store[i].token = issued + 1 /\ issued' = issued + 1
    /\ \A i, j \in DOMAIN store \ DOMAIN secrets : i = j

KeptClaim(after, s) == /\ Claimed(s) /\ after[s].claim = SliceAt(s).claim
                        /\ after[s].gen = SliceAt(s).gen
MadeClaim(after, store, s) ==
    LET id == ClaimIdFor(s, after[s]) IN
    /\ id \in DOMAIN store /\ store[id].token = after[s].claim.token
    /\ store[id].worker = after[s].claim.worker

\* The plan after a write that landed, and after one that did not.
PlanGoesOn(after, store, rev) ==
    /\ IsPlan(after) /\ rev \in {plan.rev, plan.rev + 1}
    /\ \A s \in DOMAIN after : s \in DOMAIN plan.slices => SliceAt(s).gen <= after[s].gen
    /\ \A s \in DOMAIN after : HasClaim(after, s) =>
         \/ KeptClaim(after, s)
         \/ MadeClaim(after, store, s) /\ after[s].claim.rev = rev /\ rev = plan.rev + 1
    /\ \A s, x \in DOMAIN after :
         HasClaim(after, s) /\ HasClaim(after, x) =>
           KeptClaim(after, s) \/ KeptClaim(after, x) \/ s = x

LEMMA StoreGoesOn ==
    ASSUME ClaimInv, NEW store, NextStore(store), NEW D,
           secrets' = [i \in DOMAIN store \ D |-> store[i]],
           DOMAIN plan.slices \subseteq DOMAIN plan'.slices \cup forgotten',
           forgotten \subseteq forgotten',
           \A t \in revoked' : t \in Nat /\ t <= issued,
           \A r \in granted' : r \in Nat /\ r <= plan'.rev
    PROVE  EnvelopesHaveShape'
<1> USE DEF ClaimInv, EnvelopesHaveShape, NextStore
<1>1. DOMAIN secrets' = DOMAIN store \ D /\ \A i \in DOMAIN secrets' : secrets'[i] = store[i]
  OBVIOUS
<1>2. issued \in Nat /\ issued' \in Nat /\ issued <= issued'
  OBVIOUS
<1>3. ASSUME NEW i \in DOMAIN store
      PROVE  /\ store[i] \in EnvelopeRows /\ store[i].token <= issued'
             /\ i[1] \in DOMAIN plan'.slices \cup forgotten'
  <2>1. CASE i \in DOMAIN secrets
    BY <1>2, <2>1 DEF EnvelopeRows
  <2>2. CASE i \notin DOMAIN secrets
    BY <1>2, <2>2
  <2> QED BY <2>1, <2>2
<1>4. ASSUME NEW i \in DOMAIN store, NEW j \in DOMAIN store, store[i].token = store[j].token
      PROVE  i = j
  <2>1. \A k \in DOMAIN secrets : store[k].token \in Nat /\ store[k].token <= issued
    BY DEF EnvelopeRows
  <2>2. CASE i \in DOMAIN secrets /\ j \in DOMAIN secrets
    BY <1>4, <2>2
  <2>3. CASE i \notin DOMAIN secrets \/ j \notin DOMAIN secrets
    BY <1>2, <1>4, <2>1, <2>3
  <2> QED BY <2>2, <2>3
<1>5. secrets' = [i \in DOMAIN secrets' |-> secrets'[i]] /\ DOMAIN secrets' \subseteq EnvelopeIds
  BY <1>1
<1>6. \A i \in DOMAIN secrets' : /\ secrets'[i] \in EnvelopeRows /\ secrets'[i].token <= issued'
                                 /\ i[1] \in DOMAIN plan'.slices \cup forgotten'
  BY <1>1, <1>3
<1>7. \A i, j \in DOMAIN secrets' : secrets'[i].token = secrets'[j].token => i = j
  BY <1>1, <1>4
<1>8. \A t \in revoked' : t \in Nat /\ t <= issued'
  BY <1>2
<1> QED BY <1>2, <1>5, <1>6, <1>7, <1>8

\* No other envelope has the token of a claim, and those of the tokens that the
\* write has revoked are behind.
LEMMA TokensGoOn ==
    ASSUME ClaimInv, NEW store, NextStore(store), NEW D,
           secrets' = [i \in DOMAIN store \ D |-> store[i]],
           NEW after, after = plan'.slices, PlanGoesOn(after, store, plan'.rev),
           EnvelopesHaveShape'
    PROVE  TokensHaveOneClaim'
<1> USE DEF ClaimInv, EnvelopesHaveShape, NextStore
<1>1. DOMAIN secrets' = DOMAIN store \ D /\ \A i \in DOMAIN secrets' : secrets'[i] = store[i]
  OBVIOUS
<1>2. issued \in Nat /\ issued' \in Nat /\ issued <= issued'
  OBVIOUS
<1>3. \A i \in DOMAIN store : store[i].token \in Nat
  BY DEF EnvelopeRows
<1>4. ASSUME NEW s \in DOMAIN after, HasClaim(after, s)
      PROVE  /\ after[s].claim.token <= issued'
             /\ \A i \in DOMAIN secrets' : secrets'[i].token = after[s].claim.token =>
                                             i = ClaimIdFor(s, after[s])
  <2>1. after[s].claim.token \in Nat
    BY <1>4 DEF PlanGoesOn, IsPlan, SliceRows, ClaimRows, HasClaim
  <2>2. CASE KeptClaim(after, s)
    <3>1. s \in DOMAIN plan.slices /\ Claimed(s)
      BY <2>2 DEF KeptClaim, Claimed
    <3>2. /\ after[s].claim.token <= issued
          /\ \A i \in DOMAIN secrets : secrets[i].token = after[s].claim.token =>
                                         i = ClaimIdFor(s, after[s])
      BY <2>2, <3>1 DEF KeptClaim, TokensHaveOneClaim, ClaimIdFor
    <3>3. \A i \in DOMAIN store : store[i].token = after[s].claim.token => i \in DOMAIN secrets
      BY <1>2, <2>1, <3>2
    <3> QED BY <1>1, <1>2, <2>1, <3>2, <3>3
  <2>3. CASE MadeClaim(after, store, s)
    <3>1. \A k \in DOMAIN secrets : store[k].token \in Nat /\ store[k].token <= issued
      BY DEF EnvelopeRows
    <3>2. \A i, j \in DOMAIN store : store[i].token = store[j].token => i = j
      BY <1>2, <3>1
    <3>3. \A i \in DOMAIN store : store[i].token <= issued'
      BY <1>2, <3>1
    <3> QED BY <1>1, <2>3, <3>2, <3>3 DEF MadeClaim
  <2> QED BY <1>4, <2>2, <2>3 DEF PlanGoesOn
<1> QED BY <1>4 DEF TokensHaveOneClaim, Claimed, SliceAt, HasClaim

LEMMA RevokedGoOn ==
    ASSUME ClaimInv, NEW store, NextStore(store), NEW D,
           secrets' = [i \in DOMAIN store \ D |-> store[i]],
           NEW after, after = plan'.slices, PlanGoesOn(after, store, plan'.rev),
           Revokes
    PROVE  RevokedAreBehind'
<1> USE DEF ClaimInv, EnvelopesHaveShape, NextStore
<1>1. DOMAIN secrets' = DOMAIN store \ D /\ \A i \in DOMAIN secrets' : secrets'[i] = store[i]
  OBVIOUS
<1>2. /\ forgotten' = forgotten \cup (DOMAIN plan.slices \ DOMAIN after)
      /\ \A s \in DOMAIN after \cap DOMAIN plan.slices :
           /\ SliceAt(s).gen \in Nat /\ after[s].gen \in Nat /\ SliceAt(s).gen <= after[s].gen
  BY DEF Revokes, PlanGoesOn, IsPlan, PlansHaveShape, SliceRows, SliceAt
<1>3. ASSUME NEW t \in revoked', t \notin revoked
      PROVE  \E s \in DOMAIN plan.slices \cap DOMAIN after :
               /\ Claimed(s) /\ SliceAt(s).claim.token = t /\ SliceAt(s).gen < after[s].gen
  BY <1>2, <1>3 DEF Revokes
<1>4. \A t \in revoked' : t \in Nat /\ t <= issued
  <2>1. ASSUME NEW s \in DOMAIN plan.slices, Claimed(s)
        PROVE  SliceAt(s).claim.token \in Nat /\ SliceAt(s).claim.token <= issued
    BY <2>1 DEF PlansHaveShape, IsPlan, SliceRows, ClaimRows, Claimed, TokensHaveOneClaim, SliceAt
  <2> QED BY <1>3, <2>1
<1>5. ASSUME NEW i \in DOMAIN secrets', secrets'[i].token \in revoked',
             i[1] \in DOMAIN after \ forgotten'
      PROVE  i[2] < after[i[1]].gen
  <2>1. i \in DOMAIN store /\ store[i].token \in revoked'
    BY <1>1, <1>5
  <2>2. i \in DOMAIN secrets /\ secrets[i].token = store[i].token
    BY <1>4, <2>1
  <2>3. i[1] \in DOMAIN plan.slices \ forgotten
    BY <1>2, <1>5, <2>2
  <2>4. i[2] \in Nat
    BY <2>2 DEF EnvelopeIds
  <2>5. CASE secrets[i].token \in revoked
    <3>1. i[2] < SliceAt(i[1]).gen
      BY <2>2, <2>3, <2>5 DEF RevokedAreBehind
    <3> QED BY <1>2, <1>5, <2>3, <2>4, <3>1
  <2>6. CASE secrets[i].token \notin revoked
    <3>1. PICK s \in DOMAIN plan.slices \cap DOMAIN after :
            /\ Claimed(s) /\ SliceAt(s).claim.token = secrets[i].token
            /\ SliceAt(s).gen < after[s].gen
      BY <1>3, <2>1, <2>2, <2>6
    <3>2. i = ClaimIdFor(s, SliceAt(s))
      BY <2>2, <3>1 DEF TokensHaveOneClaim
    <3> QED BY <3>1, <3>2 DEF ClaimIdFor
  <2> QED BY <2>5, <2>6
<1> QED BY <1>5 DEF RevokedAreBehind, SliceAt

\* What a write that landed, or did not, may have deleted: no envelope of a claim
\* that was there before, and of a new one only if the write has no history.
Spared(after, store, D) ==
    /\ \A s \in DOMAIN after : HasClaim(after, s) /\ KeptClaim(after, s) =>
         ClaimIdFor(s, after[s]) \notin D
    /\ after \in revs' => \A s \in DOMAIN after :
         HasClaim(after, s) => ClaimIdFor(s, after[s]) \notin D

LEMMA LatestGoesOn ==
    ASSUME ClaimInv, NEW store, NextStore(store), NEW D,
           secrets' = [i \in DOMAIN store \ D |-> store[i]],
           NEW after, after = plan'.slices, PlanGoesOn(after, store, plan'.rev),
           Spared(after, store, D), plan'.rev = plan.rev /\ after \in revs' => plan.slices \in revs
    PROVE  LatestClaimIsWhole'
<1> USE DEF ClaimInv, NextStore
<1>1. DOMAIN secrets' = DOMAIN store \ D /\ \A i \in DOMAIN secrets' : secrets'[i] = store[i]
  OBVIOUS
<1>2. plan.rev \in Nat
  BY DEF PlansHaveShape
<1>3. ASSUME after \in revs', NEW s \in DOMAIN after, HasClaim(after, s),
             after[s].claim.rev = plan'.rev
      PROVE  LET id == ClaimIdFor(s, after[s]) IN
             /\ id \in DOMAIN secrets' /\ secrets'[id].token = after[s].claim.token
             /\ secrets'[id].worker = after[s].claim.worker
  <2>1. ClaimIdFor(s, after[s]) \notin D
    BY <1>3 DEF Spared
  <2>2. CASE MadeClaim(after, store, s)
    BY <1>1, <2>1, <2>2 DEF MadeClaim
  <2>3. CASE KeptClaim(after, s)
    <3>1. s \in DOMAIN plan.slices /\ Claimed(s) /\ SliceAt(s).claim.rev <= plan.rev
      BY <2>3 DEF KeptClaim, Claimed, PlansHaveShape, ClaimsBy, HasClaim, SliceAt
    <3>2. plan'.rev = plan.rev
      BY <1>2, <1>3, <2>3, <3>1 DEF KeptClaim, PlanGoesOn
    <3>3. HasSecret(s)
      BY <1>3, <2>3, <3>1, <3>2 DEF LatestClaimIsWhole, KeptClaim
    <3> QED BY <1>1, <2>1, <2>3, <3>3 DEF HasSecret, KeptClaim, ClaimIdFor
  <2> QED BY <1>3, <2>2, <2>3 DEF PlanGoesOn
<1> QED BY <1>3 DEF LatestClaimIsWhole, HasSecret, SliceAt, Claimed, HasClaim

LEMMA AnsweredGoesOn ==
    ASSUME ClaimInv, NEW store, NextStore(store), NEW D,
           secrets' = [i \in DOMAIN store \ D |-> store[i]],
           NEW after, after = plan'.slices, PlanGoesOn(after, store, plan'.rev),
           Spared(after, store, D), LatestClaimIsWhole',
           granted' \subseteq granted \cup IF after \in revs' THEN {plan'.rev} ELSE {}
    PROVE  AnsweredClaimHasItsSecret'
<1> USE DEF ClaimInv, NextStore
<1>1. DOMAIN secrets' = DOMAIN store \ D /\ \A i \in DOMAIN secrets' : secrets'[i] = store[i]
  OBVIOUS
<1>2. plan.rev \in Nat /\ \A r \in granted : r \in Nat /\ r <= plan.rev
  BY DEF PlansHaveShape, EnvelopesHaveShape
<1>3. ASSUME NEW s \in DOMAIN after, HasClaim(after, s), after[s].claim.rev \in granted'
      PROVE  LET id == ClaimIdFor(s, after[s]) IN
             /\ id \in DOMAIN secrets' /\ secrets'[id].token = after[s].claim.token
             /\ secrets'[id].worker = after[s].claim.worker
  <2>1. CASE after[s].claim.rev = plan'.rev /\ after \in revs'
    <3>1. (Claimed(s) /\ SliceAt(s).claim.rev = plan.rev)' /\ s \in DOMAIN plan'.slices
      BY <1>3, <2>1 DEF Claimed, SliceAt, HasClaim
    <3>2. HasSecret(s)'
      BY <2>1, <3>1 DEF LatestClaimIsWhole
    <3> QED BY <3>2 DEF HasSecret, SliceAt
  <2>2. CASE after[s].claim.rev \in granted
    <3>1. KeptClaim(after, s)
      BY <1>2, <1>3, <2>2 DEF PlanGoesOn
    <3>2. s \in DOMAIN plan.slices /\ HasSecret(s)
      BY <2>2, <3>1 DEF KeptClaim, Claimed, AnsweredClaimHasItsSecret
    <3>3. ClaimIdFor(s, after[s]) \notin D
      BY <1>3, <3>1 DEF Spared
    <3> QED BY <1>1, <3>1, <3>2, <3>3 DEF HasSecret, KeptClaim, ClaimIdFor
  <2> QED BY <1>3, <2>1, <2>2
<1> QED BY <1>3 DEF AnsweredClaimHasItsSecret, HasSecret, SliceAt, Claimed, HasClaim

LEMMA PlansGoOn ==
    ASSUME ClaimInv, NEW store, NEW after, NEW rev, plan' = [rev |-> rev, slices |-> after],
           PlanGoesOn(after, store, rev), revs' \subseteq revs \cup {after},
           forgotten' = forgotten \cup (DOMAIN plan.slices \ DOMAIN after)
    PROVE  PlansHaveShape'
<1> USE DEF ClaimInv, PlansHaveShape
<1>1. plan'.rev = rev /\ plan'.slices = after
  OBVIOUS
<1>2. plan.rev \in Nat /\ rev \in Nat /\ plan.rev <= rev
  BY DEF PlanGoesOn
<1>3. ASSUME NEW s \in DOMAIN after, HasClaim(after, s) PROVE after[s].claim.rev <= rev
  <2>1. after[s].claim.rev \in Nat
    BY <1>3 DEF PlanGoesOn, IsPlan, SliceRows, ClaimRows, HasClaim
  <2>2. CASE KeptClaim(after, s)
    BY <1>2, <2>1, <2>2 DEF KeptClaim, Claimed, ClaimsBy, HasClaim, SliceAt
  <2>3. CASE after[s].claim.rev = rev
    BY <2>1, <2>3
  <2> QED BY <1>3, <2>2, <2>3 DEF PlanGoesOn
<1>4. ClaimsBy(after, rev) /\ IsPlan(after)
  BY <1>3 DEF ClaimsBy, PlanGoesOn
<1>5. ASSUME NEW past \in revs'
      PROVE  /\ IsPlan(past) /\ ClaimsBy(past, rev)
             /\ DOMAIN past \subseteq DOMAIN after \cup forgotten'
  <2>1. CASE past = after
    BY <1>4, <2>1
  <2>2. CASE past \in revs
    <3>1. ASSUME NEW s \in DOMAIN past, HasClaim(past, s) PROVE past[s].claim.rev <= rev
      <4>1. past[s].claim.rev \in Nat /\ past[s].claim.rev <= plan.rev
        BY <2>2, <3>1 DEF ClaimsBy, IsPlan, SliceRows, ClaimRows, HasClaim
      <4> QED BY <1>2, <4>1
    <3> QED BY <2>2, <3>1 DEF ClaimsBy
  <2> QED BY <2>1, <2>2
<1> QED BY <1>1, <1>2, <1>4, <1>5

\* What the caller of persistPlan sees to.
CanWrite(store, after, gone, lost) ==
    /\ NextStore(store) /\ PlanGoesOn(after, store, plan.rev + 1)
    /\ \A s \in DOMAIN after : HasClaim(after, s) => ClaimIdFor(s, after[s]) \notin gone
    /\ \A s \in DOMAIN plan.slices : Claimed(s) => ClaimIdFor(s, SliceAt(s)) \notin lost
    /\ \E n \in Nat : /\ GensUpTo(n) /\ \A s \in DOMAIN after : after[s].gen <= n
                      /\ \A i \in DOMAIN store : i[2] <= n

LEMMA ClaimWriteKeepsInv ==
    ASSUME ClaimInv, NEW store, NEW after, NEW gone, NEW lost, NEW seen,
           CanWrite(store, after, gone, lost), PersistPlan(store, after, gone, lost, seen),
           Revokes,
           granted' \subseteq granted \cup IF plan'.slices \in revs' THEN {plan'.rev} ELSE {}
    PROVE  ClaimInv'
<1> DEFINE next == [rev |-> plan.rev + 1, slices |-> after]
<1>1. PICK D \in {gone, lost, {}} :
        /\ secrets' = [i \in DOMAIN store \ D |-> store[i]]
        /\ \/ plan' = next /\ revs' = revs \cup {after} /\ D \in {gone, {}}
           \/ plan' = next /\ revs' = revs
           \/ plan' = plan /\ revs' = revs /\ D \in {lost, {}}
  <2>1. CASE /\ plan' = next /\ revs' = revs \cup {after}
             /\ \/ secrets' = [i \in DOMAIN store \ gone |-> store[i]]
                \/ secrets' = [i \in DOMAIN store \ {} |-> store[i]]
    BY <2>1
  <2>2. CASE /\ plan' = next /\ revs' = revs
             /\ \/ secrets' = [i \in DOMAIN store \ gone |-> store[i]]
                \/ secrets' = [i \in DOMAIN store \ {} |-> store[i]]
                \/ secrets' = [i \in DOMAIN store \ lost |-> store[i]]
    BY <2>2
  <2>3. CASE /\ plan' = plan /\ revs' = revs
             /\ \/ secrets' = [i \in DOMAIN store \ lost |-> store[i]]
                \/ secrets' = [i \in DOMAIN store \ {} |-> store[i]]
    BY <2>3
  <2> QED BY <2>1, <2>2, <2>3 DEF PersistPlan
<1>2. /\ plan = [rev |-> plan.rev, slices |-> plan.slices] /\ plan.rev \in Nat
      /\ IsPlan(plan.slices)
  BY DEF ClaimInv, PlansHaveShape
<1>3. NextStore(store) /\ PlanGoesOn(after, store, plan.rev + 1)
  BY DEF CanWrite
<1>4. ASSUME NEW s, Claimed(s), KeptClaim(after, s), s \in DOMAIN after
      PROVE  ClaimIdFor(s, after[s]) \notin lost /\ ClaimIdFor(s, after[s]) \notin gone
  <2>1. s \in DOMAIN plan.slices /\ ClaimIdFor(s, after[s]) = ClaimIdFor(s, SliceAt(s))
        /\ HasClaim(after, s)
    BY <1>4 DEF Claimed, KeptClaim, ClaimIdFor, HasClaim
  <2> QED BY <1>4, <2>1 DEF CanWrite
<1>5. PICK new, rev :
        /\ plan' = [rev |-> rev, slices |-> new] /\ PlanGoesOn(new, store, rev)
        /\ Spared(new, store, D) /\ revs' \subseteq revs \cup {new}
        /\ rev = plan.rev /\ new \in revs' => plan.slices \in revs
        /\ new \in {after, plan.slices}
  <2>1. CASE plan' = plan /\ revs' = revs /\ D \in {lost, {}}
    <3>1. PlanGoesOn(plan.slices, store, plan.rev)
      BY <1>2 DEF PlanGoesOn, KeptClaim, SliceAt, Claimed, HasClaim, IsPlan, SliceRows
    <3>2. Spared(plan.slices, store, D)
      BY <2>1 DEF Spared, CanWrite, Claimed, HasClaim, SliceAt
    <3> QED BY <1>2, <2>1, <3>1, <3>2
  <2>2. CASE plan' = next /\ revs' = revs \cup {after} /\ D \in {gone, {}}
    <3>1. Spared(after, store, D)
      BY <2>2 DEF Spared, CanWrite
    <3> QED BY <1>2, <1>3, <2>2, <3>1
  <2>3. CASE plan' = next /\ revs' = revs
    <3>1. ASSUME NEW s \in DOMAIN after, HasClaim(after, s), KeptClaim(after, s)
          PROVE  ClaimIdFor(s, after[s]) \notin D
      BY <1>4, <3>1 DEF KeptClaim
    <3>2. ASSUME after \in revs, NEW s \in DOMAIN after, HasClaim(after, s)
          PROVE  KeptClaim(after, s)
      BY <1>2, <1>3, <3>2 DEF ClaimInv, PlansHaveShape, ClaimsBy, PlanGoesOn
    <3>3. Spared(after, store, D)
      BY <2>3, <3>1, <3>2 DEF Spared
    <3> QED BY <1>2, <1>3, <2>3, <3>3
  <2> QED BY <1>1, <2>1, <2>2, <2>3
<1>6. plan'.rev = rev /\ plan'.slices = new
  BY <1>5
<1>7. forgotten' = forgotten \cup (DOMAIN plan.slices \ DOMAIN new)
  BY <1>6 DEF Revokes
<1>8. PlansHaveShape'
  BY <1>5, <1>7, PlansGoOn
<1>9. EnvelopesHaveShape'
  <2>1. DOMAIN plan.slices \subseteq DOMAIN plan'.slices \cup forgotten' /\ forgotten \subseteq forgotten'
    BY <1>6, <1>7
  <2>2. \A t \in revoked' : t \in Nat /\ t <= issued
    <3>1. ASSUME NEW s \in DOMAIN plan.slices, Claimed(s)
          PROVE  SliceAt(s).claim.token \in Nat /\ SliceAt(s).claim.token <= issued
      BY <1>2, <3>1
         DEF ClaimInv, IsPlan, SliceRows, ClaimRows, Claimed, TokensHaveOneClaim, SliceAt
    <3>2. \A t \in revoked : t \in Nat /\ t <= issued
      BY DEF ClaimInv, EnvelopesHaveShape
    <3> QED BY <3>1, <3>2 DEF Revokes
  <2>3. \A r \in granted' : r \in Nat /\ r <= plan'.rev
    <3>1. \A r \in granted : r \in Nat /\ r <= plan.rev
      BY DEF ClaimInv, EnvelopesHaveShape
    <3>2. rev \in {plan.rev, plan.rev + 1}
      BY <1>5 DEF PlanGoesOn
    <3> QED BY <1>2, <1>6, <3>1, <3>2
  <2> QED BY <1>1, <1>3, <2>1, <2>2, <2>3, StoreGoesOn
<1>10. PlanGoesOn(new, store, plan'.rev) /\ new = plan'.slices
       /\ (plan'.rev = plan.rev /\ new \in revs' => plan.slices \in revs)
       /\ granted' \subseteq granted \cup IF new \in revs' THEN {plan'.rev} ELSE {}
  BY <1>5, <1>6
<1>11. TokensHaveOneClaim'
  BY <1>1, <1>3, <1>9, <1>10, TokensGoOn
<1>12. RevokedAreBehind'
  BY <1>1, <1>3, <1>10, RevokedGoOn
<1>13. LatestClaimIsWhole'
  BY <1>1, <1>3, <1>5, <1>10, LatestGoesOn
<1>14. AnsweredClaimHasItsSecret'
  BY <1>1, <1>3, <1>5, <1>10, <1>13, AnsweredGoesOn
<1>15. GensAreBounded'
  <2>1. PICK n \in Nat : /\ GensUpTo(n) /\ \A s \in DOMAIN after : after[s].gen <= n
                         /\ \A i \in DOMAIN store : i[2] <= n
    BY DEF CanWrite
  <2>2. \A s \in DOMAIN new : new[s].gen <= n
    BY <1>5, <2>1 DEF GensUpTo, SliceAt
  <2>3. DOMAIN secrets' \subseteq DOMAIN store
    BY <1>1
  <2>4. \A past \in revs' : \A s \in DOMAIN past : past[s].gen <= n
    BY <1>5, <2>1, <2>2 DEF GensUpTo
  <2>5. GensUpTo(n)'
    BY <1>6, <2>1, <2>2, <2>3, <2>4 DEF GensUpTo, SliceAt
  <2> QED BY <2>5 DEF GensAreBounded
<1>16. ASSUME NEW s \in DOMAIN new, NEW x \in DOMAIN new, HasClaim(new, s), HasClaim(new, x),
              new[s].claim.rev = new[x].claim.rev
       PROVE  s = x
  <2>1. ASSUME NEW y \in DOMAIN new, KeptClaim(new, y)
        PROVE  new[y].claim.rev \in Nat /\ new[y].claim.rev <= plan.rev /\ y \in DOMAIN plan.slices
    BY <1>2, <2>1 DEF ClaimInv, PlansHaveShape, ClaimsBy, KeptClaim, Claimed, HasClaim, SliceAt,
                      IsPlan, SliceRows, ClaimRows
  <2>2. CASE KeptClaim(new, s) /\ KeptClaim(new, x)
    BY <1>16, <2>1, <2>2 DEF ClaimInv, ClaimRevsDiffer, KeptClaim, Claimed
  <2>3. CASE ~KeptClaim(new, s) /\ KeptClaim(new, x)
    BY <1>2, <1>5, <1>16, <2>1, <2>3 DEF PlanGoesOn
  <2>4. CASE KeptClaim(new, s) /\ ~KeptClaim(new, x)
    BY <1>2, <1>5, <1>16, <2>1, <2>4 DEF PlanGoesOn
  <2> QED BY <1>5, <1>16, <2>2, <2>3, <2>4 DEF PlanGoesOn
<1>17. ClaimRevsDiffer'
  BY <1>6, <1>16 DEF ClaimRevsDiffer, Claimed, SliceAt, HasClaim
<1> QED BY <1>8, <1>9, <1>11, <1>12, <1>13, <1>14, <1>15, <1>17 DEF ClaimInv

-----------------------------------------------------------------------------
(* The operations *)

LEMMA ClaimInitInv == ClaimInit => ClaimInv
<1> SUFFICES ASSUME ClaimInit PROVE ClaimInv
  OBVIOUS
<1> USE SliceClaimsAssumption DEF ClaimInit
<1>1. NewSlice \in SliceRows /\ NewSlice.claim = NoClaim /\ NewSlice.gen = 0
  BY DEF NewSlice, SliceRows
<1>2. /\ plan = [rev |-> plan.rev, slices |-> plan.slices] /\ plan.rev = 0
      /\ DOMAIN plan.slices = First /\ \A s \in First : plan.slices[s] = NewSlice
      /\ plan.slices = [s \in DOMAIN plan.slices |-> plan.slices[s]]
  OBVIOUS
<1>3. IsPlan(plan.slices) /\ \A s \in DOMAIN plan.slices : ~Claimed(s)
  BY <1>1, <1>2 DEF IsPlan, Claimed, SliceAt
<1>4. PlansHaveShape
  BY <1>2, <1>3 DEF PlansHaveShape, ClaimsBy, HasClaim, Claimed, SliceAt
<1>5. EnvelopesHaveShape
  BY DEF EnvelopesHaveShape
<1>6. GensUpTo(0)
  BY <1>1, <1>2 DEF GensUpTo, SliceAt
<1>7. GensAreBounded
  BY <1>6 DEF GensAreBounded
<1>8. /\ TokensHaveOneClaim /\ RevokedAreBehind /\ LatestClaimIsWhole
      /\ AnsweredClaimHasItsSecret /\ ClaimRevsDiffer
  BY <1>3 DEF TokensHaveOneClaim, RevokedAreBehind, LatestClaimIsWhole,
              AnsweredClaimHasItsSecret, ClaimRevsDiffer
<1> QED BY <1>4, <1>5, <1>7, <1>8 DEF ClaimInv

\* A write that makes no claim, and deletes no envelope of one that it keeps.
LEMMA MutateKeepsInv ==
    ASSUME ClaimInv, NEW after, NEW gone, Mutate(after, gone), IsPlan(after),
           \A s \in DOMAIN after : s \in DOMAIN plan.slices => SliceAt(s).gen <= after[s].gen,
           \A s \in DOMAIN after : HasClaim(after, s) =>
             KeptClaim(after, s) /\ ClaimIdFor(s, after[s]) \notin gone,
           NEW m \in Nat, \A s \in DOMAIN after : after[s].gen <= m
    PROVE  ClaimInv'
<1>1. /\ PersistPlan(secrets, after, gone, {}, TRUE) /\ Revokes
      /\ UNCHANGED <<issued, lapsed, granted>>
  BY DEF Mutate
<1>2. NextStore(secrets)
  BY <1>1 DEF ClaimInv, EnvelopesHaveShape, NextStore
<1>3. PlanGoesOn(after, secrets, plan.rev + 1)
  BY DEF PlanGoesOn
<1>4. PICK n \in Nat : GensUpTo(n)
  BY DEF ClaimInv, GensAreBounded
<1>5. \E k \in Nat : k >= n /\ k >= m
  <2>1. n + m \in Nat /\ n + m >= n /\ n + m >= m
    OBVIOUS
  <2> QED BY <2>1
<1>6. PICK k \in Nat : k >= n /\ k >= m
  BY <1>5
<1>7. GensUpTo(k)
  <2>1. \A s \in DOMAIN plan.slices : SliceAt(s).gen \in Nat
    BY DEF ClaimInv, PlansHaveShape, IsPlan, SliceRows, SliceAt
  <2>2. \A past \in revs : \A s \in DOMAIN past : past[s].gen \in Nat
    BY DEF ClaimInv, PlansHaveShape, IsPlan, SliceRows
  <2>3. \A i \in DOMAIN secrets : i[2] \in Nat
    BY DEF ClaimInv, EnvelopesHaveShape, EnvelopeIds
  <2> QED BY <1>4, <1>6, <2>1, <2>2, <2>3 DEF GensUpTo
<1>8. \A s \in DOMAIN after : after[s].gen <= k
  <2>1. \A s \in DOMAIN after : after[s].gen \in Nat
    BY DEF IsPlan, SliceRows
  <2> QED BY <1>6, <2>1
<1>9. CanWrite(secrets, after, gone, {})
  BY <1>2, <1>3, <1>7, <1>8 DEF CanWrite, GensUpTo
<1> QED BY <1>1, <1>9, ClaimWriteKeepsInv

\* One slice is replaced by one without a claim.
LEMMA ReplaceKeepsInv ==
    ASSUME ClaimInv, NEW s \in DOMAIN plan.slices, NEW slice \in SliceRows,
           slice.claim = NoClaim, SliceAt(s).gen <= slice.gen,
           Mutate(Replaced(s, slice), Without(s))
    PROVE  ClaimInv'
<1>1. PICK after : after = Replaced(s, slice)
  OBVIOUS
<1>2. IsPlan(plan.slices)
  BY DEF ClaimInv, PlansHaveShape
<1>3. /\ after = [x \in DOMAIN after |-> after[x]] /\ DOMAIN after = DOMAIN plan.slices
      /\ after[s] = slice /\ \A x \in DOMAIN after \ {s} : after[x] = SliceAt(x)
  BY <1>1, <1>2 DEF Replaced, SliceAt, IsPlan
<1>4. IsPlan(after)
  BY <1>2, <1>3 DEF IsPlan, SliceAt
<1>5. \A x \in DOMAIN plan.slices : SliceAt(x).gen \in Nat
  BY <1>2 DEF IsPlan, SliceRows, SliceAt
<1>6. \A x \in DOMAIN after : x \in DOMAIN plan.slices => SliceAt(x).gen <= after[x].gen
  BY <1>3, <1>5
<1>7. ASSUME NEW x \in DOMAIN after, HasClaim(after, x)
      PROVE  KeptClaim(after, x) /\ ClaimIdFor(x, after[x]) \notin Without(s)
  <2>1. x # s /\ after[x] = SliceAt(x)
    BY <1>3, <1>7 DEF HasClaim
  <2> QED BY <1>3, <1>7, <2>1 DEF KeptClaim, Claimed, HasClaim, ClaimIdFor, Without
<1>8. PICK n \in Nat : GensUpTo(n)
  BY DEF ClaimInv, GensAreBounded
<1>9. slice.gen \in Nat
  BY DEF SliceRows
<1>10. n + slice.gen \in Nat /\ \A x \in DOMAIN after : after[x].gen <= n + slice.gen
  BY <1>3, <1>5, <1>8, <1>9 DEF GensUpTo
<1>11. Mutate(after, Without(s))
  BY <1>1
<1> QED BY <1>4, <1>6, <1>7, <1>10, <1>11, MutateKeepsInv

\* A slice is its four fields.
LEMMA RowForm ==
    ASSUME NEW r \in SliceRows
    PROVE  /\ r = [status |-> r.status, to |-> r.to, gen |-> r.gen, claim |-> r.claim]
           /\ r.status \in {"open", "done", "superseded"} /\ r.to \in Workers \cup {NoWorker}
           /\ r.gen \in Nat
BY DEF SliceRows

LEMMA FormRow ==
    ASSUME NEW status \in {"open", "done", "superseded"}, NEW to \in Workers \cup {NoWorker},
           NEW gen \in Nat, NEW x, x = [status |-> status, to |-> to, gen |-> gen, claim |-> NoClaim]
    PROVE  x \in SliceRows /\ x.gen = gen /\ x.claim = NoClaim
BY DEF SliceRows

LEMMA OneSliceStep ==
    ASSUME ClaimInv, NEW s \in Slices,
           \/ ExpireStaleClaim(s) \/ Complete(s) \/ \E w \in Workers : AssignSlice(w, s)
           \/ \E status \in {"open", "done"} : UpdateSlice(s, status)
           \/ Replan(s) /\ s \in DOMAIN plan.slices
    PROVE  ClaimInv'
<1>1. s \in DOMAIN plan.slices
  BY DEF ExpireStaleClaim, Complete, AssignSlice, UpdateSlice, Claimed
<1>2. PICK r : r = SliceAt(s)
  OBVIOUS
<1>3. /\ r = [status |-> r.status, to |-> r.to, gen |-> r.gen, claim |-> r.claim]
      /\ r.status \in {"open", "done", "superseded"} /\ r.to \in Workers \cup {NoWorker}
      /\ r.gen \in Nat
  <2>1. r \in SliceRows
    BY <1>1, <1>2 DEF ClaimInv, PlansHaveShape, IsPlan, SliceAt
  <2> QED BY <2>1, RowForm
<1>4. ASSUME NEW status \in {"open", "done", "superseded"}, NEW to \in Workers \cup {NoWorker},
             NEW gen \in Nat, gen >= r.gen, NEW slice,
             slice = [status |-> status, to |-> to, gen |-> gen, claim |-> NoClaim],
             Mutate(Replaced(s, slice), Without(s))
      PROVE  ClaimInv'
  <2>1. slice \in SliceRows /\ slice.gen = gen /\ slice.claim = NoClaim
    BY <1>4, FormRow
  <2>2. SliceAt(s).gen <= slice.gen
    BY <1>2, <1>3, <1>4, <2>1
  <2> QED BY <1>1, <1>4, <2>1, <2>2, ReplaceKeepsInv
<1>5. CASE ExpireStaleClaim(s)
  <2>1. PICK slice : slice = Invalidated(r)
    OBVIOUS
  <2>2. slice = [status |-> r.status, to |-> r.to, gen |-> r.gen + 1, claim |-> NoClaim]
    BY <1>3, <2>1 DEF Invalidated
  <2>3. Mutate(Replaced(s, slice), Without(s))
    BY <1>2, <1>5, <2>1 DEF ExpireStaleClaim
  <2> QED BY <1>3, <1>4, <2>2, <2>3
<1>6. CASE Complete(s)
  <2>1. PICK slice : slice = [r EXCEPT !.status = "done", !.claim = NoClaim]
    OBVIOUS
  <2>2. slice = [status |-> "done", to |-> r.to, gen |-> r.gen, claim |-> NoClaim]
    BY <1>3, <2>1
  <2>3. Mutate(Replaced(s, slice), Without(s))
    BY <1>2, <1>6, <2>1 DEF Complete
  <2> QED BY <1>3, <1>4, <2>2, <2>3
<1>7. ASSUME NEW w \in Workers, AssignSlice(w, s) PROVE ClaimInv'
  <2>1. PICK slice : slice = [r EXCEPT !.to = w, !.claim = NoClaim,
                                       !.gen = IF r.to = NoWorker THEN @ ELSE @ + 1]
    OBVIOUS
  <2>2. PICK gen \in Nat : gen = IF r.to = NoWorker THEN r.gen ELSE r.gen + 1
    BY <1>3
  <2>3. slice = [status |-> r.status, to |-> w, gen |-> gen, claim |-> NoClaim]
    BY <1>3, <2>1, <2>2
  <2>4. Mutate(Replaced(s, slice), Without(s))
    BY <1>2, <1>7, <2>1 DEF AssignSlice
  <2> QED BY <1>3, <1>4, <2>2, <2>3, <2>4
<1>8. ASSUME NEW status \in {"open", "done"}, UpdateSlice(s, status) PROVE ClaimInv'
  <2>1. PICK t : t = [r EXCEPT !.status = status]
    OBVIOUS
  <2>2. t = [status |-> status, to |-> r.to, gen |-> r.gen, claim |-> r.claim]
    BY <1>3, <2>1
  <2>3. PICK slice : slice = IF Claimed(s) THEN Invalidated(t) ELSE t
    OBVIOUS
  <2>4. PICK gen \in Nat : gen = IF Claimed(s) THEN r.gen + 1 ELSE r.gen
    BY <1>3
  <2>5. slice = [status |-> status, to |-> r.to, gen |-> gen, claim |-> NoClaim]
    <3>1. CASE Claimed(s)
      BY <2>2, <2>3, <2>4, <3>1 DEF Invalidated
    <3>2. CASE ~Claimed(s)
      BY <1>1, <1>2, <2>2, <2>3, <2>4, <3>2 DEF Claimed
    <3> QED BY <3>1, <3>2
  <2>6. Mutate(Replaced(s, slice), Without(s))
    BY <1>2, <1>8, <2>1, <2>3 DEF UpdateSlice
  <2> QED BY <1>3, <1>4, <2>4, <2>5, <2>6
<1>9. CASE Replan(s) /\ s \in DOMAIN plan.slices
  <2>1. PICK status \in {r.status, "superseded"} :
          Mutate(Replaced(s, Invalidated([r EXCEPT !.status = status])), Without(s))
    BY <1>2, <1>9 DEF Replan
  <2>2. PICK t : t = [r EXCEPT !.status = status]
    OBVIOUS
  <2>3. t = [status |-> status, to |-> r.to, gen |-> r.gen, claim |-> r.claim]
    BY <1>3, <2>2
  <2>4. PICK slice : slice = Invalidated(t)
    OBVIOUS
  <2>5. PICK gen \in Nat : gen = r.gen + 1
    BY <1>3
  <2>6. slice = [status |-> status, to |-> r.to, gen |-> gen, claim |-> NoClaim]
    BY <2>3, <2>4, <2>5 DEF Invalidated
  <2>7. Mutate(Replaced(s, slice), Without(s))
    BY <2>1, <2>2, <2>4
  <2>8. status \in {"open", "done", "superseded"} /\ gen >= r.gen
    BY <1>3, <2>5
  <2> QED BY <1>3, <1>4, <2>6, <2>7, <2>8
<1> QED BY <1>5, <1>6, <1>7, <1>8, <1>9

LEMMA AddSliceStep ==
    ASSUME ClaimInv, NEW s \in Slices, s \notin DOMAIN plan.slices, Replan(s)
    PROVE  ClaimInv'
<1>1. PICK after : after = [x \in DOMAIN plan.slices \cup {s} |->
                                IF x = s THEN NewSlice ELSE SliceAt(x)]
  OBVIOUS
<1>2. IsPlan(plan.slices)
  BY DEF ClaimInv, PlansHaveShape
<1>3. NewSlice \in SliceRows /\ NewSlice.claim = NoClaim /\ NewSlice.gen = 0
  BY SliceClaimsAssumption DEF NewSlice, SliceRows
<1>4. /\ DOMAIN after = DOMAIN plan.slices \cup {s} /\ after[s] = NewSlice
      /\ \A x \in DOMAIN plan.slices : after[x] = SliceAt(x)
      /\ after = [x \in DOMAIN after |-> after[x]]
  BY <1>1
<1>5. IsPlan(after)
  BY <1>2, <1>3, <1>4 DEF IsPlan, SliceAt
<1>6. \A x \in DOMAIN plan.slices : SliceAt(x).gen \in Nat
  BY <1>2 DEF IsPlan, SliceRows, SliceAt
<1>7. \A x \in DOMAIN after : x \in DOMAIN plan.slices => SliceAt(x).gen <= after[x].gen
  BY <1>4, <1>6
<1>8. \A x \in DOMAIN after : HasClaim(after, x) =>
        KeptClaim(after, x) /\ ClaimIdFor(x, after[x]) \notin {}
  BY <1>3, <1>4 DEF KeptClaim, Claimed, HasClaim
<1>9. PICK n \in Nat : GensUpTo(n)
  BY DEF ClaimInv, GensAreBounded
<1>10. \A x \in DOMAIN after : after[x].gen <= n
  BY <1>3, <1>4, <1>9 DEF GensUpTo
<1>11. Mutate(after, {})
  BY <1>1 DEF Replan
<1> QED BY <1>5, <1>7, <1>8, <1>9, <1>10, <1>11, MutateKeepsInv

\* Every slice that a restore leaves is beyond its generation before.
LEMMA FloorIsBeyond ==
    ASSUME ClaimInv, NEW snapshot \in revs
    PROVE  /\ GenerationFloor(snapshot) \in Nat
           /\ \A s \in DOMAIN plan.slices : SliceAt(s).gen < GenerationFloor(snapshot)
<1> DEFINE S == {plan.rev + 1} \cup {SliceAt(s).gen + 1 : s \in DOMAIN plan.slices}
                               \cup {snapshot[s].gen + 1 : s \in DOMAIN snapshot}
<1>1. \A s \in DOMAIN plan.slices : SliceAt(s).gen \in Nat
  BY DEF ClaimInv, PlansHaveShape, IsPlan, SliceRows, SliceAt
<1>2. \A s \in DOMAIN snapshot : snapshot[s].gen \in Nat
  BY DEF ClaimInv, PlansHaveShape, IsPlan, SliceRows
<1>3. plan.rev \in Nat
  BY DEF ClaimInv, PlansHaveShape
<1>4. PICK n \in Nat : GensUpTo(n)
  BY DEF ClaimInv, GensAreBounded
<1>5. S \in SUBSET Nat /\ plan.rev + 1 \in S /\ S # {}
  BY <1>1, <1>2, <1>3
<1>6. n + plan.rev + 1 \in Nat /\ \A y \in S : y <= n + plan.rev + 1
  BY <1>1, <1>2, <1>3, <1>4 DEF GensUpTo
<1>7. \A s \in DOMAIN plan.slices : SliceAt(s).gen + 1 \in S
  OBVIOUS
<1> HIDE DEF S
<1>8. Max(S) \in S /\ \A y \in S : y <= Max(S)
  BY <1>5, <1>6, MaxOfBounded
<1>9. PICK m \in Nat : m = Max(S)
  BY <1>5, <1>8
<1>10. ASSUME NEW s \in DOMAIN plan.slices PROVE SliceAt(s).gen < m
  <2>1. SliceAt(s).gen + 1 <= m
    BY <1>7, <1>8, <1>9
  <2> QED BY <1>1, <2>1
<1>11. m = GenerationFloor(snapshot)
  BY <1>9 DEF S, GenerationFloor
<1> QED BY <1>10, <1>11

LEMMA RestoreStep == ASSUME ClaimInv, Restore PROVE ClaimInv'
<1>1. PICK snapshot \in revs :
        Mutate(Restored(snapshot), ClaimIdsOf(plan.slices) \cup ClaimIdsOf(snapshot))
  BY DEF Restore
<1>2. PICK floor : floor = GenerationFloor(snapshot)
  OBVIOUS
<1>3. floor \in Nat /\ \A s \in DOMAIN plan.slices : SliceAt(s).gen < floor
  BY <1>2, FloorIsBeyond
<1>4. PICK after : after = Restored(snapshot)
  OBVIOUS
<1>5. IsPlan(snapshot)
  BY DEF ClaimInv, PlansHaveShape
<1>6. ASSUME NEW s \in DOMAIN snapshot
      PROVE  after[s] \in SliceRows /\ after[s].gen = floor /\ after[s].claim = NoClaim
  <2>1. PICK r : r = snapshot[s]
    OBVIOUS
  <2>2. /\ r = [status |-> r.status, to |-> r.to, gen |-> r.gen, claim |-> r.claim]
        /\ r.status \in {"open", "done", "superseded"} /\ r.to \in Workers \cup {NoWorker}
    BY <1>5, <2>1, RowForm DEF IsPlan
  <2>3. PICK x : x = [r EXCEPT !.gen = floor, !.claim = NoClaim]
    OBVIOUS
  <2>4. x = [status |-> r.status, to |-> r.to, gen |-> floor, claim |-> NoClaim]
    BY <2>2, <2>3
  <2>5. after[s] = x
    BY <1>2, <1>4, <2>1, <2>3 DEF Restored
  <2> QED BY <1>3, <2>2, <2>4, <2>5, FormRow
<1>7. DOMAIN after = DOMAIN snapshot /\ after = [s \in DOMAIN after |-> after[s]]
  BY <1>4 DEF Restored
<1>8. IsPlan(after)
  BY <1>5, <1>6, <1>7 DEF IsPlan
<1>9. \A s \in DOMAIN plan.slices : SliceAt(s).gen \in Nat
  BY DEF ClaimInv, PlansHaveShape, IsPlan, SliceRows, SliceAt
<1>10. \A s \in DOMAIN after : s \in DOMAIN plan.slices => SliceAt(s).gen <= after[s].gen
  BY <1>3, <1>6, <1>7, <1>9
<1>11. PICK gone : gone = ClaimIdsOf(plan.slices) \cup ClaimIdsOf(snapshot)
  OBVIOUS
<1>12. \A s \in DOMAIN after : HasClaim(after, s) =>
         KeptClaim(after, s) /\ ClaimIdFor(s, after[s]) \notin gone
  BY <1>6, <1>7 DEF HasClaim
<1>13. \A s \in DOMAIN after : after[s].gen <= floor
  BY <1>3, <1>6, <1>7
<1>14. Mutate(after, gone)
  BY <1>1, <1>4, <1>11
<1> QED BY <1>3, <1>8, <1>10, <1>12, <1>13, <1>14, MutateKeepsInv

LEMMA ReplayStep ==
    ASSUME ClaimInv, NEW s \in Slices, NEW w \in Workers, NEW k \in Keys, ReplayClaim(w, s, k)
    PROVE  ClaimInv'
<1>1. /\ UNCHANGED <<plan, revs, secrets, issued, lapsed, cfaults, revoked, forgotten>>
      /\ granted' = granted \cup {SliceAt(s).claim.rev} /\ Claimed(s) /\ HasSecret(s)
  BY DEF ReplayClaim
<1>2. s \in DOMAIN plan.slices /\ SliceAt(s).claim.rev \in Nat /\ SliceAt(s).claim.rev <= plan.rev
  BY <1>1 DEF Claimed, ClaimInv, PlansHaveShape, IsPlan, SliceRows, ClaimRows, ClaimsBy, HasClaim,
              SliceAt
<1>3. PlansHaveShape' /\ GensAreBounded' /\ TokensHaveOneClaim' /\ RevokedAreBehind'
      /\ LatestClaimIsWhole' /\ ClaimRevsDiffer'
  BY <1>1 DEF ClaimInv, PlansHaveShape, GensAreBounded, GensUpTo, TokensHaveOneClaim,
              RevokedAreBehind, LatestClaimIsWhole, ClaimRevsDiffer, Claimed, SliceAt, HasSecret
<1>4. \A r \in granted' : r \in Nat /\ r <= plan.rev
  BY <1>1, <1>2 DEF ClaimInv, EnvelopesHaveShape
<1>5. EnvelopesHaveShape'
  BY <1>1, <1>4 DEF ClaimInv, EnvelopesHaveShape
<1>6. ASSUME NEW x \in DOMAIN plan.slices, Claimed(x), SliceAt(x).claim.rev \in granted'
      PROVE  HasSecret(x)
  BY <1>1, <1>2, <1>6 DEF ClaimInv, ClaimRevsDiffer, AnsweredClaimHasItsSecret
<1>7. AnsweredClaimHasItsSecret'
  BY <1>1, <1>6 DEF AnsweredClaimHasItsSecret, Claimed, SliceAt, HasSecret
<1> QED BY <1>3, <1>5, <1>7 DEF ClaimInv

LEMMA ClaimsStandStill ==
    ASSUME ClaimInv, UNCHANGED <<plan, revs, secrets, issued, granted, revoked, forgotten>>
    PROVE  ClaimInv'
BY DEF ClaimInv, PlansHaveShape, GensAreBounded, GensUpTo, TokensHaveOneClaim,
       RevokedAreBehind, LatestClaimIsWhole, ClaimRevsDiffer, EnvelopesHaveShape,
       AnsweredClaimHasItsSecret, Claimed, SliceAt, HasSecret

\* The walk past lapsed envelopes ends, at a generation that is not lower.
LEMMA FreeGenIsFree ==
    ASSUME ClaimInv, NEW s \in DOMAIN plan.slices, NEW k \in Keys
    PROVE  FreeGen(s, k) \in Nat /\ SliceAt(s).gen <= FreeGen(s, k)
<1> DEFINE Near == {SliceAt(s).gen} \cup {i[2] + 1 : i \in DOMAIN secrets}
           Free(g) == /\ g >= SliceAt(s).gen
                      /\ <<s, g, k>> \in DOMAIN secrets =>
                           secrets[<<s, g, k>>].token \notin lapsed
           S == {g \in Near : Free(g)}
<1>1. SliceAt(s).gen \in Nat
  BY DEF ClaimInv, PlansHaveShape, IsPlan, SliceRows, SliceAt
<1>2. \A i \in DOMAIN secrets : i[2] \in Nat
  BY DEF ClaimInv, EnvelopesHaveShape, EnvelopeIds
<1>3. PICK n \in Nat : GensUpTo(n)
  BY DEF ClaimInv, GensAreBounded
<1>4. Near \in SUBSET Nat /\ Near # {} /\ SliceAt(s).gen \in Near
  BY <1>1, <1>2
<1>5. \A y \in Near : y <= n + 1
  BY <1>1, <1>2, <1>3 DEF GensUpTo
<1>6. \A i \in DOMAIN secrets : i[2] + 1 \in Near
  OBVIOUS
<1>7. PICK m \in Near : \A y \in Near : y <= m
  <2> HIDE DEF Near
  <2>1. n + 1 \in Nat
    OBVIOUS
  <2>2. Max(Near) \in Near /\ \A y \in Near : y <= Max(Near)
    BY <1>4, <1>5, <2>1, MaxOfBounded
  <2> QED BY <2>2
<1>8. <<s, m, k>> \notin DOMAIN secrets
  <2>1. ASSUME <<s, m, k>> \in DOMAIN secrets PROVE FALSE
    <3>1. m + 1 \in Near
      BY <1>6, <2>1
    <3> HIDE DEF Near
    <3>2. m \in Nat /\ m + 1 <= m
      BY <1>4, <1>7, <3>1
    <3> QED BY <3>2
  <2> QED BY <2>1
<1>9. m \in S
  <2>1. m >= SliceAt(s).gen
    BY <1>1, <1>4, <1>7
  <2> QED BY <1>7, <1>8, <2>1
<1>10. S \in SUBSET Nat /\ S # {}
  BY <1>4, <1>9
<1>11. \A g \in S : SliceAt(s).gen <= g
  BY <1>1, <1>4
<1>12. Min(S) \in S
  <2> HIDE DEF S
  <2> QED BY <1>10, MinOf
<1>13. FreeGen(s, k) = Min(S)
  BY DEF FreeGen
<1> HIDE DEF S
<1> QED BY <1>10, <1>11, <1>12, <1>13

LEMMA ClaimSliceStep ==
    ASSUME ClaimInv, NEW s \in Slices, NEW w \in Workers, NEW k \in Keys, ClaimSlice(w, s, k)
    PROVE  ClaimInv'
<1>1. s \in DOMAIN plan.slices /\ ~Claimed(s)
  BY DEF ClaimSlice
<1>2. PICK gen \in Nat : gen = FreeGen(s, k) /\ SliceAt(s).gen <= gen
  BY <1>1, FreeGenIsFree
<1>3. PICK id : id = <<s, gen, k>>
  OBVIOUS
<1>4. PICK stale : stale = {<<s, g, k>> : g \in SliceAt(s).gen..(gen - 1)}
  OBVIOUS
<1>5. PICK env : env = IF id \in DOMAIN secrets THEN secrets[id]
                       ELSE [worker |-> w, token |-> issued + 1, rev |-> plan.rev + 1]
  OBVIOUS
<1>6. PICK store : store = [i \in DOMAIN secrets \cup {id} |-> IF i = id THEN env ELSE secrets[i]]
  OBVIOUS
<1>7. PICK claim : claim = [key |-> k, worker |-> w, token |-> env.token, rev |-> plan.rev + 1]
  OBVIOUS
<1>8. PICK slice : slice = [SliceAt(s) EXCEPT !.gen = gen, !.claim = claim]
  OBVIOUS
<1>9. PICK after : after = Replaced(s, slice)
  OBVIOUS
<1>10. /\ env.worker = w
       /\ issued' = IF id \in DOMAIN secrets THEN issued ELSE issued + 1
       /\ PersistPlan(store, after, stale, stale \cup {id}, env.rev = plan.rev + 1)
       /\ granted' \in {granted} \cup IF plan'.slices \in revs' THEN {granted \cup {plan'.rev}}
                                      ELSE {}
       /\ Revokes
  BY <1>2, <1>3, <1>4, <1>5, <1>6, <1>7, <1>8, <1>9 DEF ClaimSlice
<1>11. /\ plan.rev \in Nat /\ issued \in Nat /\ IsPlan(plan.slices)
       /\ secrets = [i \in DOMAIN secrets |-> secrets[i]] /\ DOMAIN secrets \subseteq EnvelopeIds
       /\ \A i \in DOMAIN secrets : secrets[i] \in EnvelopeRows
  BY DEF ClaimInv, PlansHaveShape, EnvelopesHaveShape
<1>12. /\ env \in EnvelopeRows /\ env.token \in Nat
       /\ id \notin DOMAIN secrets => env.token = issued + 1
  BY <1>5, <1>11 DEF EnvelopeRows
<1>13. id \in EnvelopeIds /\ id[1] = s
  BY <1>3 DEF EnvelopeIds
<1>14. /\ DOMAIN store = DOMAIN secrets \cup {id} /\ store[id] = env
       /\ \A i \in DOMAIN secrets : store[i] = secrets[i]
       /\ store = [i \in DOMAIN store |-> store[i]]
  BY <1>5, <1>6
<1>15. NextStore(store)
  BY <1>1, <1>10, <1>11, <1>12, <1>13, <1>14 DEF NextStore
<1>16. slice \in SliceRows /\ slice.gen = gen /\ slice.claim = claim
  <2>1. PICK r : r = SliceAt(s)
    OBVIOUS
  <2>2. /\ r = [status |-> r.status, to |-> r.to, gen |-> r.gen, claim |-> r.claim]
        /\ r.status \in {"open", "done", "superseded"} /\ r.to \in Workers \cup {NoWorker}
    BY <1>1, <1>11, <2>1, RowForm DEF IsPlan, SliceAt
  <2>3. slice = [status |-> r.status, to |-> r.to, gen |-> gen, claim |-> claim]
    BY <1>8, <2>1, <2>2
  <2>4. claim \in ClaimRows
    BY <1>7, <1>11, <1>12 DEF ClaimRows
  <2> QED BY <2>2, <2>3, <2>4 DEF SliceRows
<1>17. /\ after = [x \in DOMAIN after |-> after[x]] /\ DOMAIN after = DOMAIN plan.slices
       /\ after[s] = slice /\ \A x \in DOMAIN after \ {s} : after[x] = SliceAt(x)
  BY <1>1, <1>9, <1>11 DEF Replaced, SliceAt, IsPlan
<1>18. IsPlan(after)
  BY <1>11, <1>16, <1>17 DEF IsPlan, SliceAt
<1>19. \A x \in DOMAIN plan.slices : SliceAt(x).gen \in Nat
  BY <1>11 DEF IsPlan, SliceRows, SliceAt
<1>20. \A x \in DOMAIN after : x \in DOMAIN plan.slices => SliceAt(x).gen <= after[x].gen
  BY <1>2, <1>16, <1>17, <1>19
<1>21. ClaimIdFor(s, after[s]) = id
  BY <1>3, <1>7, <1>16, <1>17 DEF ClaimIdFor
<1>22. MadeClaim(after, store, s) /\ after[s].claim.rev = plan.rev + 1
  BY <1>7, <1>10, <1>14, <1>16, <1>17, <1>21 DEF MadeClaim
<1>23. \A x \in DOMAIN after \ {s} : HasClaim(after, x) => KeptClaim(after, x)
  BY <1>17 DEF KeptClaim, Claimed, HasClaim
<1>24. PlanGoesOn(after, store, plan.rev + 1)
  BY <1>18, <1>20, <1>22, <1>23 DEF PlanGoesOn
<1>25. \A x \in DOMAIN after : HasClaim(after, x) => ClaimIdFor(x, after[x]) \notin stale
  <2>1. id \notin stale
    BY <1>1, <1>2, <1>3, <1>4, <1>19
  <2>2. \A x \in DOMAIN after \ {s} : ClaimIdFor(x, after[x]) \notin stale
    BY <1>4 DEF ClaimIdFor
  <2> QED BY <1>21, <2>1, <2>2
<1>26. \A x \in DOMAIN plan.slices : Claimed(x) => ClaimIdFor(x, SliceAt(x)) \notin stale \cup {id}
  BY <1>1, <1>3, <1>4 DEF ClaimIdFor
<1>27. \E n \in Nat : /\ GensUpTo(n) /\ \A x \in DOMAIN after : after[x].gen <= n
                      /\ \A i \in DOMAIN store : i[2] <= n
  <2>1. PICK n \in Nat : GensUpTo(n)
    BY DEF ClaimInv, GensAreBounded
  <2>2. PICK m \in Nat : m = n + gen
    OBVIOUS
  <2>3. \A past \in revs : \A x \in DOMAIN past : past[x].gen \in Nat
    BY DEF ClaimInv, PlansHaveShape, IsPlan, SliceRows
  <2>4. \A i \in DOMAIN secrets : i[2] \in Nat
    BY <1>11 DEF EnvelopeIds
  <2>5. GensUpTo(m)
    BY <1>19, <2>1, <2>2, <2>3, <2>4 DEF GensUpTo
  <2>6. \A x \in DOMAIN after : after[x].gen <= m
    BY <1>16, <1>17, <2>2, <2>5 DEF GensUpTo
  <2>7. id[2] <= m
    BY <1>3, <2>2
  <2>8. \A i \in DOMAIN store : i[2] <= m
    BY <1>14, <2>5, <2>7 DEF GensUpTo
  <2> QED BY <2>5, <2>6, <2>8
<1>28. CanWrite(store, after, stale, stale \cup {id})
  BY <1>15, <1>24, <1>25, <1>26, <1>27 DEF CanWrite
<1>29. granted' \subseteq granted \cup IF plan'.slices \in revs' THEN {plan'.rev} ELSE {}
  BY <1>10
<1> QED BY <1>10, <1>28, <1>29, ClaimWriteKeepsInv

LEMMA ClaimStepInv == ClaimInv /\ [ClaimNext]_claimVars => ClaimInv'
<1> SUFFICES ASSUME ClaimInv, [ClaimNext]_claimVars PROVE ClaimInv'
  OBVIOUS
<1>1. ASSUME NEW s \in Slices, ExpireStaleClaim(s) \/ Complete(s) \/ Replan(s) PROVE ClaimInv'
  <2>1. CASE Replan(s) /\ s \notin DOMAIN plan.slices
    BY <2>1, AddSliceStep
  <2>2. CASE ExpireStaleClaim(s) \/ Complete(s) \/ (Replan(s) /\ s \in DOMAIN plan.slices)
    BY <2>2, OneSliceStep
  <2> QED BY <1>1, <2>1, <2>2
<1>2. ASSUME NEW s \in Slices, NEW w \in Workers, NEW k \in Keys,
             ClaimSlice(w, s, k) \/ ReplayClaim(w, s, k)
      PROVE  ClaimInv'
  BY <1>2, ClaimSliceStep, ReplayStep
<1>3. ASSUME NEW s \in Slices, \E w \in Workers : AssignSlice(w, s) PROVE ClaimInv'
  BY <1>3, OneSliceStep
<1>4. ASSUME NEW s \in Slices, \E status \in {"open", "done"} : UpdateSlice(s, status)
      PROVE  ClaimInv'
  BY <1>4, OneSliceStep
<1>5. CASE Restore
  BY <1>5, RestoreStep
<1>6. ASSUME NEW t \in Tokens, LeaseEnds(t) PROVE ClaimInv'
  BY <1>6, ClaimsStandStill DEF LeaseEnds
<1>7. CASE UNCHANGED claimVars
  BY <1>7, ClaimsStandStill DEF claimVars
<1> QED BY <1>1, <1>2, <1>3, <1>4, <1>5, <1>6, <1>7 DEF ClaimNext

LEMMA ClaimInvImplies == ClaimInv => EnvelopesMatchClaims
<1> SUFFICES ASSUME ClaimInv PROVE EnvelopesMatchClaims
  OBVIOUS
<1>1. ASSUME NEW s \in DOMAIN plan.slices \ forgotten, Claimed(s),
             SliceAt(s).claim.token \in Authorised, SliceAt(s).claim.token \in revoked
      PROVE  FALSE
  <2>1. PICK x \in DOMAIN plan.slices :
          Claimed(x) /\ HasSecret(x) /\ SliceAt(x).claim.token = SliceAt(s).claim.token
    BY <1>1 DEF Authorised
  <2>2. PICK id : id = ClaimIdFor(x, SliceAt(x))
    OBVIOUS
  <2>3. id \in DOMAIN secrets /\ secrets[id].token = SliceAt(s).claim.token
    BY <2>1, <2>2 DEF HasSecret
  <2>4. id = ClaimIdFor(s, SliceAt(s))
    BY <1>1, <2>3 DEF ClaimInv, TokensHaveOneClaim
  <2>5. id[1] = s /\ id[2] = SliceAt(s).gen
    BY <2>4 DEF ClaimIdFor
  <2>6. id[2] < SliceAt(s).gen
    BY <1>1, <2>3, <2>5 DEF ClaimInv, RevokedAreBehind
  <2>7. SliceAt(s).gen \in Nat
    BY <1>1 DEF ClaimInv, PlansHaveShape, IsPlan, SliceRows, SliceAt
  <2> QED BY <2>5, <2>6, <2>7
<1>2. RevokedStaysRevoked
  BY <1>1 DEF RevokedStaysRevoked
<1> QED BY <1>2 DEF ClaimInv, EnvelopesMatchClaims

\* Whatever writes fail or die between a note and its envelopes, a worker that was
\* answered finds its token as long as the plan shows its claim, and a token whose
\* generation has passed never authorises again.
THEOREM ClaimsKeepTheirSecrets == ClaimSpec => []EnvelopesMatchClaims
<1>1. ClaimSpec => []ClaimInv
  BY ClaimInitInv, ClaimStepInv, PTL DEF ClaimSpec
<1> QED BY <1>1, ClaimInvImplies, PTL

-----------------------------------------------------------------------------
(* The parts side by side *)

\* In every behaviour of the four parts the journal of a plan loses no event, its
\* relay takes none for delivered that was not, and the events tell the plan.
THEOREM JournalStaysTrue == ThreadsSpec => []JournalIsTrue
<1>1. ThreadsInit => JournalInv /\ GraphInv
  BY JournalInitInv, GraphInitInv DEF ThreadsInit
<1>2. ASSUME JournalInv /\ GraphInv, [ThreadsNext]_threadsVars PROVE JournalInv' /\ GraphInv'
  <2>1. [JournalNext]_journalVars
    BY <1>2 DEF ThreadsNext, threadsVars
  <2>2. [GraphNext]_graphVars
    BY <1>2 DEF ThreadsNext, threadsVars
  <2> QED BY <1>2, <2>1, <2>2, JournalStepInv, GraphStepInv
<1>3. JournalInv /\ GraphInv => JournalIsTrue
  BY JournalInvImplies DEF GraphInv, JournalIsTrue
<1> QED BY <1>1, <1>2, <1>3, PTL DEF ThreadsSpec
===============================================================================
