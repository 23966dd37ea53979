------------------------------ MODULE ThreadLock ------------------------------
(***************************************************************************)
(* The cross-process lock of one Thread (plugins/minni/src/thread-lock.ts):*)
(* a directory made with mkdir, an owner.json inside it, and recovery of a *)
(* directory left behind by a dead process. Every file-system call names   *)
(* the directory by its path and is a step of its own, so another process  *)
(* may replace what the path names between any two of them.                *)
(* A call below is one execution of withThreadLock in a process of its     *)
(* own, with an operation id of its own.                                   *)
(***************************************************************************)
EXTENDS Naturals, FiniteSets

CONSTANTS
    Calls,      \* executions of withThreadLock
    Mortal,     \* calls whose process may die
    NoOwner,    \* the directory has no owner.json
    Torn,       \* owner.json was created and has no content yet
    Markers,    \* the platform tells process start markers (Linux)
    Stalls,     \* a live process may sit longer than staleMs between two steps
    MaxDirs,    \* mkdirs that may succeed
    MaxFaults   \* owner writes and releases that fail for good

ASSUME LockAssumption ==
    /\ Mortal \subseteq Calls
    /\ {NoOwner, Torn} \cap Calls = {} /\ NoOwner # Torn
    /\ Markers \in BOOLEAN /\ Stalls \in BOOLEAN
    /\ MaxDirs \in Nat /\ MaxFaults \in Nat

Dirs == 1..MaxDirs

Points == {"idle", "open", "fill", "stat", "in", "read", "check", "rm",
           "look", "rename", "busy", "done", "failed", "dead"}

VARIABLES
    at,      \* the directory the lock path names (0: none)
    owner,   \* owner.json of each directory
    aged,    \* directories whose mtime is older than staleMs
    nDirs,   \* directories made so far
    pc,      \* program counter of each call
    mine,    \* the directory a call's owner.json was created in
    known,   \* directory identity: judged by a recovery, or taken at acquire
    alive,   \* processes that run
    reused,  \* dead processes whose pid runs another program
    theft,   \* history: a call took a directory other than the one it knew, or
             \* judged one that its live maker had not finished to publish
    faults

files == <<at, owner, aged, nDirs>>
vars == <<files, pc, mine, known, alive, reused, theft, faults>>

-----------------------------------------------------------------------------
\* ownerLooksLive: the pid runs, and not under another start marker.
LooksLive(c) == alive[c] \/ (reused[c] /\ ~Markers)

\* Mutant: age alone is enough.
RecoverableByAge(d) == d \in aged

\* Mutant: an owner file that does not parse is taken for a live owner.
RecoverableIfParsed(d) ==
    /\ d \in aged
    /\ owner[d] = NoOwner \/ (owner[d] \in Calls /\ ~LooksLive(owner[d]))

\* recoveryReason: older than staleMs, and without an owner that looks live.
Recoverable(d) ==
    /\ d \in aged
    /\ owner[d] \in Calls => ~LooksLive(owner[d])

\* A live call is between its mkdir and the content of its owner.json.
Publishing == \E x \in Calls : pc[x] \in {"open", "fill"}

Go(c, point) == pc' = [pc EXCEPT ![c] = point]

-----------------------------------------------------------------------------
(* Acquire *)

\* mkdir(lockDir): the path was free.
MakeDir(c) ==
    /\ pc[c] = "idle" /\ at = 0 /\ nDirs < MaxDirs
    /\ nDirs' = nDirs + 1 /\ at' = nDirs + 1
    /\ Go(c, "open")
    /\ UNCHANGED <<owner, aged, mine, known, alive, reused, theft, faults>>

\* mkdir(lockDir): EEXIST.
FindDir(c) ==
    /\ pc[c] = "idle" /\ at # 0
    /\ Go(c, "look")
    /\ UNCHANGED <<files, mine, known, alive, reused, theft, faults>>

\* Mutant: the call forgets which directory it published in.
CreateOwnerUnrecorded(c) ==
    /\ pc[c] = "open" /\ at # 0 /\ owner[at] = NoOwner
    /\ owner' = [owner EXCEPT ![at] = Torn]
    /\ aged' = aged \ {at}
    /\ Go(c, "fill")
    /\ UNCHANGED <<at, nDirs, mine, known, alive, reused, theft, faults>>

\* writeFile(ownerPath, flag wx) creates the file in whatever directory the
\* path names now; the new entry renews that directory's mtime.
CreateOwner(c) ==
    /\ pc[c] = "open" /\ at # 0 /\ owner[at] = NoOwner
    /\ owner' = [owner EXCEPT ![at] = Torn]
    /\ aged' = aged \ {at}
    /\ mine' = [mine EXCEPT ![c] = at]
    /\ Go(c, "fill")
    /\ UNCHANGED <<at, nDirs, known, alive, reused, theft, faults>>

\* The directory is gone (the call fails), or it has an owner.json already:
\* the catch removes what the path names, and since the error is EEXIST too
\* the loop goes on as if mkdir had raised it.
CreateOwnerFails(c) ==
    /\ pc[c] = "open"
    /\ IF at = 0 THEN Go(c, "failed") /\ UNCHANGED <<at, theft>>
       ELSE /\ owner[at] # NoOwner
            /\ at' = 0 /\ theft' = TRUE
            /\ Go(c, "look")
    /\ UNCHANGED <<owner, aged, nDirs, mine, known, alive, reused, faults>>

\* The content arrives through the open file.
FillOwner(c) ==
    /\ pc[c] = "fill"
    /\ owner' = [owner EXCEPT ![mine[c]] = c]
    /\ Go(c, "stat")
    /\ UNCHANGED <<at, aged, nDirs, mine, known, alive, reused, theft, faults>>

\* The content cannot be written (no space, I/O error): the catch removes what
\* the path names and the call fails.
FillOwnerFails(c) ==
    /\ pc[c] = "fill" /\ faults < MaxFaults
    /\ at' = 0 /\ theft' = (theft \/ at \notin {0, mine[c]})
    /\ faults' = faults + 1
    /\ Go(c, "failed")
    /\ UNCHANGED <<owner, aged, nDirs, mine, known, alive, reused>>

\* acquiredIdentity: stat(lockDir), best effort.
TakeIdentity(c) ==
    /\ pc[c] = "stat"
    /\ known' = [known EXCEPT ![c] = at]
    /\ Go(c, "in")
    /\ UNCHANGED <<files, mine, alive, reused, theft, faults>>

-----------------------------------------------------------------------------
(* Wait and recover *)

\* Owner and age are read, and the owner's process is looked up. (One step: a
\* directory that replaces the one just read is younger than staleMs.)
Look(c) ==
    /\ pc[c] = "look"
    /\ IF at # 0 /\ Recoverable(at)
       THEN /\ known' = [known EXCEPT ![c] = at]
            /\ theft' = (theft \/ Publishing)
            /\ Go(c, "rename")
       ELSE /\ UNCHANGED <<known, theft>>
            /\ \/ Go(c, "idle")   \* sleep(pollMs)
               \/ Go(c, "busy")   \* ThreadBusyError at the deadline
    /\ UNCHANGED <<files, mine, alive, reused, faults>>

\* rename(lockDir, quarantineDir) and rm: the path is not looked at again.
Quarantine(c) ==
    /\ pc[c] = "rename"
    /\ at' = 0
    /\ theft' = (theft \/ at \notin {0, known[c]})
    /\ Go(c, "idle")
    /\ UNCHANGED <<owner, aged, nDirs, mine, known, alive, reused, faults>>

\* The caller of a call that gave up calls again (it owns nothing, so a new
\* operation id makes no difference).
CallAgain(c) ==
    /\ pc[c] = "busy"
    /\ Go(c, "idle")
    /\ UNCHANGED <<files, mine, known, alive, reused, theft, faults>>

-----------------------------------------------------------------------------
(* Release *)

\* fn() returned or threw.
Finish(c) ==
    /\ pc[c] = "in"
    /\ Go(c, "read")
    /\ UNCHANGED <<files, mine, known, alive, reused, theft, faults>>

\* readOwnerStrict: missing, unparseable or replaced owners end the release.
ReadOwner(c) ==
    /\ pc[c] = "read"
    /\ IF at # 0 /\ owner[at] = c
       THEN Go(c, IF known[c] = 0 THEN "rm" ELSE "check")
       ELSE Go(c, "done")
    /\ UNCHANGED <<files, mine, known, alive, reused, theft, faults>>

\* stat(lockDir) against the identity taken at acquire.
CheckIdentity(c) ==
    /\ pc[c] = "check"
    /\ Go(c, IF at = known[c] THEN "rm" ELSE "done")
    /\ UNCHANGED <<files, mine, known, alive, reused, theft, faults>>

\* rm(lockDir, recursive): whatever the path names by now.
Remove(c) ==
    /\ pc[c] = "rm"
    /\ at' = 0
    /\ theft' = (theft \/ at \notin {0, mine[c]})
    /\ Go(c, "done")
    /\ UNCHANGED <<owner, aged, nDirs, mine, known, alive, reused, faults>>

\* Three owner reads, the stat or the rm fail: the error is surfaced, the
\* directory stays.
ReleaseFails(c) ==
    /\ pc[c] \in {"read", "check", "rm"} /\ faults < MaxFaults
    /\ faults' = faults + 1
    /\ Go(c, "done")
    /\ UNCHANGED <<files, mine, known, alive, reused, theft>>

-----------------------------------------------------------------------------
(* The world *)

Die(c) ==
    /\ c \in Mortal /\ alive[c]
    /\ alive' = [alive EXCEPT ![c] = FALSE]
    /\ Go(c, "dead")
    /\ UNCHANGED <<files, mine, known, reused, theft, faults>>

ReusePid(c) ==
    /\ ~alive[c] /\ ~reused[c]
    /\ reused' = [reused EXCEPT ![c] = TRUE]
    /\ UNCHANGED <<files, pc, mine, known, alive, theft, faults>>

\* staleMs pass. Unless live processes stall, none of them is then between
\* mkdir and the owner's content.
Age ==
    /\ at # 0 /\ at \notin aged
    /\ Stalls \/ ~Publishing
    /\ aged' = aged \cup {at}
    /\ UNCHANGED <<at, owner, nDirs, pc, mine, known, alive, reused, theft, faults>>

-----------------------------------------------------------------------------
Init ==
    /\ at = 0 /\ aged = {} /\ nDirs = 0
    /\ owner = [d \in Dirs |-> NoOwner]
    /\ pc = [c \in Calls |-> "idle"]
    /\ mine = [c \in Calls |-> 0] /\ known = [c \in Calls |-> 0]
    /\ alive = [c \in Calls |-> TRUE] /\ reused = [c \in Calls |-> FALSE]
    /\ theft = FALSE /\ faults = 0

Run(c) ==
    \/ MakeDir(c) \/ FindDir(c) \/ CreateOwner(c) \/ CreateOwnerFails(c)
    \/ FillOwner(c) \/ TakeIdentity(c)
    \/ Look(c) \/ Quarantine(c) \/ CallAgain(c)
    \/ Finish(c) \/ ReadOwner(c) \/ CheckIdentity(c) \/ Remove(c)

Next ==
    \/ \E c \in Calls : MakeDir(c)
    \/ \E c \in Calls : FindDir(c)
    \/ \E c \in Calls : CreateOwner(c)
    \/ \E c \in Calls : CreateOwnerFails(c)
    \/ \E c \in Calls : FillOwner(c)
    \/ \E c \in Calls : FillOwnerFails(c)
    \/ \E c \in Calls : TakeIdentity(c)
    \/ \E c \in Calls : Look(c)
    \/ \E c \in Calls : Quarantine(c)
    \/ \E c \in Calls : CallAgain(c)
    \/ \E c \in Calls : Finish(c)
    \/ \E c \in Calls : ReadOwner(c)
    \/ \E c \in Calls : CheckIdentity(c)
    \/ \E c \in Calls : Remove(c)
    \/ \E c \in Calls : ReleaseFails(c)
    \/ \E c \in Calls : Die(c)
    \/ \E c \in Calls : ReusePid(c)
    \/ Age

Spec == Init /\ [][Next]_vars

\* Every live process runs on (its timers fire, its callback returns), callers
\* that were turned away come back, and time passes.
LiveSpec == Spec /\ (\A c \in Calls : WF_vars(Run(c))) /\ WF_vars(Age)

-----------------------------------------------------------------------------
(* Properties *)

\* Counters, paths and program counters stay in range, and a call that has
\* published an owner.json knows the directory it is in.
TypeOK ==
    /\ at \in 0..nDirs /\ nDirs \in 0..MaxDirs
    /\ owner \in [Dirs -> Calls \cup {NoOwner, Torn}]
    /\ aged \subseteq Dirs
    /\ pc \in [Calls -> Points]
    /\ mine \in [Calls -> 0..nDirs] /\ known \in [Calls -> 0..nDirs]
    /\ alive \in [Calls -> BOOLEAN] /\ reused \in [Calls -> BOOLEAN]
    /\ theft \in BOOLEAN /\ faults \in 0..MaxFaults
    /\ \A c \in Calls : pc[c] \in {"fill", "stat", "in", "read", "check", "rm"}
                            => mine[c] # 0

\* Calls that have acquired the lock and not yet removed it.
Holders == {c \in Calls : pc[c] \in {"stat", "in", "read", "check", "rm"}}

\* As long as no call took a directory other than the one it had judged or
\* made, and no live maker stalled for longer than staleMs, whoever holds the
\* lock owns the directory the path names: recovery and release, whatever they
\* interleave with, never pull it away.
HolderHasDirectory ==
    ~theft => \A c \in Holders : at # 0 /\ at = mine[c] /\ owner[at] = c

\* Every call of a process that survives gets its turn in the end: a lock left
\* by a process that died at any step of acquire or release is recovered.
EveryCallEnds == \A c \in Calls \ Mortal : <>(pc[c] \in {"done", "failed"})

\* "Do not steal a live owner": the directory of a live call that is in its
\* critical section stays where it is.
LiveOwnerIsKept ==
    [][\A c \in Calls :
          pc[c] = "in" /\ at # 0 /\ owner[at] = c /\ pc'[c] = "in" => at' = at]_vars
=============================================================================
