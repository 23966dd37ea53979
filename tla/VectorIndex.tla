----------------------------- MODULE VectorIndex -----------------------------
(* The semantic index of a daemon: vectors held in memory (faiss_index.py),  *)
(* loaded on demand and kept up to date by the handlers (retrieval.py), with  *)
(* a copy on disk (faiss_persist.py) and rows in chunk_embeddings that other  *)
(* connections write too (the vault sweep of minnid.py, the command line).    *)
(*                                                                            *)
(* A chunk stands for a row and for its vector: the index is right about a    *)
(* position when the vector there is the one of the id it is listed under.    *)
EXTENDS Naturals, Sequences, FiniteSets, SequencesExt

CONSTANTS
    Stores,      \* index_durable_document calls
    Purges,      \* purge_durable_document calls
    Sweeps,      \* vault sweeps, on their own connection
    Searches,    \* searches with the default budget
    Rebuilders,  \* `faiss --rebuild` of the command line, in its own process
    NoCall,
    LoadTries,   \* attempts at a rebuild (3 in the code)
    MaxIndexCalls, \* bound: calls that take part in one behaviour
    MaxChunk,    \* bound: chunk ids handed out
    MaxIndexFaults \* bound: rollbacks, failed sweeps and restarts

ASSUME IndexConstants ==
    /\ MaxChunk \in Nat /\ MaxIndexFaults \in Nat
    /\ NoCall \notin Stores \cup Purges \cup Sweeps \cup Searches \cup Rebuilders
    /\ Stores \cap (Purges \cup Sweeps \cup Searches \cup Rebuilders) = {}
    /\ Rebuilders \cap (Purges \cup Sweeps \cup Searches) = {}
    /\ Purges \cap (Sweeps \cup Searches) = {} /\ Sweeps \cap Searches = {}

IndexCalls == Stores \cup Purges \cup Sweeps \cup Searches \cup Rebuilders
Chunk == 1..MaxChunk

VARIABLES
    rows,       \* chunk_ids in chunk_embeddings
    chunks,     \* the last chunk id handed out (AUTOINCREMENT: never reused)
    writer,     \* who has the write transaction open across two steps
    index,      \* the FAISSIndex of the daemon
    disk,       \* index.faiss and index.manifest.json
    loading,    \* who holds _faiss_load_lock
    call,       \* the calls in progress
    unseen,     \* history: rows the index was never told about, after a fault
    indexFaults

indexVars == <<rows, chunks, writer, index, disk, loading, call, unseen, indexFaults>>

IndexPcs == {"idle", "write", "refresh", "behind", "tombstone", "invalidate",
             "load", "disk", "restore", "sample", "select", "verify", "publish",
             "save", "manifest", "done"}

(* compute_db_checksum: row count and last id. The last time of a row is left *)
(* out: it can only tell more states apart.                                   *)
Checksum(R) == IF R = {} THEN <<0, 0>> ELSE <<Cardinality(R), Max(R)>>

\* SELECT chunk_id, embedding: rows in the order of their ids.
Selected(R) == CHOOSE s \in [1..Cardinality(R) -> R] :
                   \A i, j \in 1..Cardinality(R) : i < j => s[i] < s[j]

ColdIndex(gen) == [ready |-> FALSE, sound |-> TRUE, gen |-> gen,
                   ids |-> <<>>, vecs |-> <<>>, live |-> {}]

\* _apply_state_locked: a full build, published at once.
Built(ids, vecs, sound) ==
    [ready |-> TRUE, sound |-> sound, gen |-> index.gen,
     ids |-> ids, vecs |-> vecs, live |-> ToSet(ids)]

\* Chunks a search of index ix can return with their own vector.
Findable(ix) == {c \in ix.live :
    \E i \in DOMAIN ix.ids : i \in DOMAIN ix.vecs /\ ix.ids[i] = c /\ ix.vecs[i] = c}

\* save holds the lock of the index from the first file to the manifest.
IndexUnlocked == \A c \in IndexCalls \ Rebuilders : call[c].pc # "manifest"

NoManifest == [ids |-> <<>>, sum |-> <<>>, honest |-> TRUE]

IdleCall == [pc |-> "idle", old |-> {}, new |-> {}, gen |-> 0, sum |-> <<>>,
             got |-> <<>>, honest |-> TRUE, tries |-> 0]
Over == [IdleCall EXCEPT !.pc = "done"]

IndexInit ==
    /\ rows = {1} /\ chunks = 1
    /\ writer = NoCall /\ loading = NoCall
    /\ index = ColdIndex(0)
    /\ disk = [file |-> <<>>, manifest |-> NoManifest]
    /\ \E absent \in SUBSET IndexCalls :
          /\ Cardinality(IndexCalls \ absent) <= MaxIndexCalls
          /\ call = [c \in IndexCalls |-> IF c \in absent THEN Over ELSE IdleCall]
    /\ unseen = {} /\ indexFaults = 0

At(c, pc) == call[c].pc = pc
\* A call keeps nothing when it is over.
Ends(c) == call' = [call EXCEPT ![c] = Over]
Goto(c, pc) == call' = [call EXCEPT ![c].pc = pc]
NewChunk == chunks + 1

\* Mutant: rows are added to a cold index too.
AddedWhenCold(ids) == [index EXCEPT !.ids = @ \o Selected(ids \ index.live), !.live = @ \cup ids,
                                    !.vecs = @ \o Selected(ids \ index.live)]

\* add_batch, remove_batch: nothing unless warm; an id that is there is skipped.
Added(ids) ==
    IF ~index.ready THEN index
    ELSE LET fresh == Selected(ids \ index.live)
         IN  [index EXCEPT !.ids = @ \o fresh, !.vecs = @ \o fresh,
                           !.live = @ \cup ids]
Tombstoned(ids) == IF index.ready THEN [index EXCEPT !.live = @ \ ids] ELSE index

-----------------------------------------------------------------------------
(* Handlers that write rows *)

\* Inside the write transaction the replaced chunk is dropped from the live
\* index, before the transaction commits.
StoreRemoves(s) ==
    /\ At(s, "idle") /\ writer = NoCall /\ IndexUnlocked
    /\ chunks < MaxChunk
    /\ \E old \in {{}} \cup {{r} : r \in rows} :
          /\ index' = Tombstoned(old)
          /\ call' = [call EXCEPT ![s].pc = "write", ![s].old = old]
    /\ writer' = s
    /\ UNCHANGED <<rows, chunks, disk, loading, unseen, indexFaults>>

StoreCommits(s) ==
    /\ s \in Stores /\ At(s, "write")
    /\ rows' = (rows \ call[s].old) \cup {NewChunk}
    /\ chunks' = NewChunk
    /\ writer' = NoCall
    /\ call' = [call EXCEPT ![s].pc = "refresh", ![s].new = {NewChunk}]
    /\ UNCHANGED <<index, disk, loading, unseen, indexFaults>>

\* The transaction fails: the row stays, the index has already lost it.
StoreRollsBack(s) ==
    /\ s \in Stores /\ At(s, "write") /\ indexFaults < MaxIndexFaults
    /\ writer' = NoCall
    /\ unseen' = unseen \cup call[s].old
    /\ indexFaults' = indexFaults + 1
    /\ Ends(s)
    /\ UNCHANGED <<rows, chunks, index, disk, loading>>

\* _refresh_live_faiss: a cold index is tried again behind the load lock, so
\* that a load which had read the rows before this commit is waited out.
Refresh(s) ==
    /\ At(s, "refresh") /\ IndexUnlocked
    /\ index' = Added(call[s].new)
    /\ IF index.ready THEN Ends(s) ELSE Goto(s, "behind")
    /\ UNCHANGED <<rows, chunks, writer, disk, loading, unseen, indexFaults>>

RefreshBehindLoad(s) ==
    /\ At(s, "behind") /\ loading = NoCall /\ IndexUnlocked
    /\ index' = Added(call[s].new)
    /\ Ends(s)
    /\ UNCHANGED <<rows, chunks, writer, disk, loading, unseen, indexFaults>>

\* The refresh raises: the index is dropped and loaded again at once.
RefreshFails(s) ==
    /\ At(s, "refresh") /\ IndexUnlocked /\ indexFaults < MaxIndexFaults
    /\ index' = ColdIndex(index.gen + 1)
    /\ indexFaults' = indexFaults + 1
    /\ Goto(s, "load")
    /\ UNCHANGED <<rows, chunks, writer, disk, loading, unseen>>

PurgeCommits(p) ==
    /\ At(p, "idle") /\ writer = NoCall
    /\ \E r \in rows :
          /\ rows' = rows \ {r}
          /\ call' = [call EXCEPT ![p].pc = "tombstone", ![p].old = {r}]
    /\ UNCHANGED <<chunks, writer, index, disk, loading, unseen, indexFaults>>

Tombstone(p) ==
    /\ At(p, "tombstone") /\ IndexUnlocked
    /\ index' = Tombstoned(call[p].old)
    /\ Ends(p)
    /\ UNCHANGED <<rows, chunks, writer, disk, loading, unseen, indexFaults>>

-----------------------------------------------------------------------------
(* The vault sweep: one transaction per file, on a connection of its own *)

SweepWritesFile(w) ==
    /\ call[w].pc \in {"idle", "write"} /\ w \in Sweeps /\ writer = NoCall
    /\ \E old \in {{}} \cup {{r} : r \in rows} :
          \/ /\ chunks < MaxChunk
             /\ rows' = (rows \ old) \cup {NewChunk} /\ chunks' = NewChunk
             /\ call' = [call EXCEPT ![w].pc = "write", ![w].new = @ \cup {NewChunk}]
          \/ /\ old # {}
             /\ rows' = rows \ old /\ UNCHANGED chunks
             /\ Goto(w, "write")
    /\ UNCHANGED <<writer, index, disk, loading, unseen, indexFaults>>

\* The prune raises after files were committed: the sweep reports nothing.
SweepFails(w) ==
    /\ w \in Sweeps /\ At(w, "write") /\ indexFaults < MaxIndexFaults
    /\ unseen' = unseen \cup call[w].new
    /\ indexFaults' = indexFaults + 1
    /\ Ends(w)
    /\ UNCHANGED <<rows, chunks, writer, index, disk, loading>>

\* _invalidate_shared_faiss, and the load on the thread of the sweep.
SweepInvalidates(w) ==
    /\ w \in Sweeps /\ At(w, "write") /\ IndexUnlocked
    /\ index' = ColdIndex(index.gen + 1)
    /\ Goto(w, "load")
    /\ UNCHANGED <<rows, chunks, writer, disk, loading, unseen, indexFaults>>

-----------------------------------------------------------------------------
(* Loading: _ensure_faiss_loaded and try_load_from_disk *)

Search(q) ==
    /\ q \in Searches /\ At(q, "idle")
    /\ IF index.ready THEN Ends(q) ELSE Goto(q, "load")
    /\ UNCHANGED <<rows, chunks, writer, index, disk, loading, unseen, indexFaults>>

LoadIsWarm(c) ==
    /\ At(c, "load") /\ index.ready
    /\ Ends(c)
    /\ UNCHANGED <<rows, chunks, writer, index, disk, loading, unseen, indexFaults>>

\* A search out of budget neither waits for the lock nor starts a rebuild.
SearchGivesUp(q) ==
    /\ q \in Searches /\ call[q].pc \in {"load", "sample"}
    /\ loading' = IF loading = q THEN NoCall ELSE loading
    /\ Ends(q)
    /\ UNCHANGED <<rows, chunks, writer, index, disk, unseen, indexFaults>>

LoadLocks(c) ==
    /\ At(c, "load") /\ ~index.ready /\ loading = NoCall
    /\ loading' = c
    /\ Goto(c, "disk")
    /\ UNCHANGED <<rows, chunks, writer, index, disk, unseen, indexFaults>>

\* The load is over: the lock is given back.
Loaded(c) == loading' = NoCall /\ Ends(c)

\* Someone else loaded it while this call waited for the lock; or the manifest
\* is read and asked for the checksum of the rows as they are.
LoadLooksAtDisk(c) ==
    /\ At(c, "disk")
    /\ IF index.ready THEN Loaded(c)
       ELSE /\ call' = [call EXCEPT
                ![c].pc = IF disk.manifest.sum = Checksum(rows)
                          THEN "restore" ELSE "sample",
                ![c].gen = index.gen,
                ![c].sum = Checksum(rows),
                ![c].got = disk.manifest.ids, ![c].honest = disk.manifest.honest]
            /\ UNCHANGED loading
    /\ UNCHANGED <<rows, chunks, writer, index, disk, unseen, indexFaults>>

\* The fence: neither the rows nor the generation moved during the disk read.
Restore(c) ==
    /\ At(c, "restore") /\ IndexUnlocked
    /\ IF index.gen = call[c].gen /\ Checksum(rows) = call[c].sum
       THEN /\ index' = Built(call[c].got, disk.file,
                              call[c].honest /\ call[c].got = disk.file)
            /\ Loaded(c)
       ELSE /\ Goto(c, "sample")
            /\ UNCHANGED <<index, loading>>
    /\ UNCHANGED <<rows, chunks, writer, disk, unseen, indexFaults>>

\* Three attempts in the code; then the index stays cold.
LoadSamples(c) ==
    /\ At(c, "sample")
    /\ IF call[c].tries = LoadTries
       THEN /\ IndexUnlocked
            /\ index' = ColdIndex(index.gen + 1)
            /\ Loaded(c)
       ELSE /\ call' = [call EXCEPT ![c].pc = "select", ![c].gen = index.gen,
                                    ![c].sum = Checksum(rows), ![c].tries = @ + 1]
            /\ UNCHANGED <<index, loading>>
    /\ UNCHANGED <<rows, chunks, writer, disk, unseen, indexFaults>>

LoadSelects(c) ==
    /\ At(c, "select")
    /\ IF rows = {}
       THEN /\ IndexUnlocked
            /\ index' = ColdIndex(index.gen + 1)
            /\ Loaded(c)
       ELSE /\ call' = [call EXCEPT ![c].pc = "verify", ![c].got = Selected(rows)]
            /\ UNCHANGED <<index, loading>>
    /\ UNCHANGED <<rows, chunks, writer, disk, unseen, indexFaults>>

\* Was the staged build made from the rows its checksum was taken of?
LoadVerifies(c) ==
    /\ At(c, "verify")
    /\ Goto(c, IF Checksum(rows) = call[c].sum THEN "publish" ELSE "sample")
    /\ UNCHANGED <<rows, chunks, writer, index, disk, loading, unseen, indexFaults>>

\* Mutant: commit_staged does not compare generations.
LoadPublishesOld(c) ==
    /\ At(c, "publish") /\ IndexUnlocked
    /\ index' = Built(call[c].got, call[c].got, TRUE)
            /\ unseen' = unseen \ ToSet(call[c].got)
    /\ Goto(c, "save")
    /\ UNCHANGED <<rows, chunks, writer, disk, loading, indexFaults>>

\* commit_staged
LoadPublishes(c) ==
    /\ At(c, "publish") /\ IndexUnlocked
    /\ IF index.gen = call[c].gen
       THEN /\ index' = Built(call[c].got, call[c].got, TRUE)
            /\ unseen' = unseen \ ToSet(call[c].got)
            /\ Goto(c, "save")
       ELSE /\ Goto(c, "sample")
            /\ UNCHANGED <<index, unseen>>
    /\ UNCHANGED <<rows, chunks, writer, disk, loading, indexFaults>>

-----------------------------------------------------------------------------
(* Saving: the index file is replaced first, the manifest last *)

\* The live index as it is by now, under the checksum of the rows it was built
\* from.
SaveFile(c) ==
    /\ c \notin Rebuilders /\ At(c, "save") /\ IndexUnlocked
    /\ IF index.ready
       THEN /\ disk' = [disk EXCEPT !.file = index.vecs]
            /\ call' = [call EXCEPT ![c].pc = "manifest", ![c].got = index.ids]
            /\ UNCHANGED loading
       ELSE Loaded(c) /\ UNCHANGED disk
    /\ UNCHANGED <<rows, chunks, writer, index, unseen, indexFaults>>

Manifest(c, honest) == [ids |-> call[c].got, sum |-> call[c].sum, honest |-> honest]

SaveManifest(c) ==
    /\ c \notin Rebuilders /\ At(c, "manifest")
    /\ disk' = [disk EXCEPT !.manifest = Manifest(c, TRUE)]
    /\ Loaded(c)
    /\ UNCHANGED <<rows, chunks, writer, index, unseen, indexFaults>>

\* faiss --rebuild: reads the rows, builds, and only then takes the checksum.
RebuilderReads(b) ==
    /\ b \in Rebuilders /\ At(b, "idle") /\ rows # {}
    /\ call' = [call EXCEPT ![b].pc = "save", ![b].got = Selected(rows)]
    /\ UNCHANGED <<rows, chunks, writer, index, disk, loading, unseen, indexFaults>>

RebuilderSavesFile(b) ==
    /\ b \in Rebuilders /\ At(b, "save")
    /\ disk' = [disk EXCEPT !.file = call[b].got]
    /\ call' = [call EXCEPT ![b].pc = "manifest", ![b].sum = Checksum(rows)]
    /\ UNCHANGED <<rows, chunks, writer, index, loading, unseen, indexFaults>>

RebuilderSavesManifest(b) ==
    /\ b \in Rebuilders /\ At(b, "manifest")
    /\ disk' = [disk EXCEPT !.manifest =
                   Manifest(b, call[b].sum = Checksum(ToSet(call[b].got)))]
    /\ Ends(b)
    /\ UNCHANGED <<rows, chunks, writer, index, loading, unseen, indexFaults>>

-----------------------------------------------------------------------------
\* The daemon goes down and comes back: an open transaction is rolled back,
\* files stay as they are, the index is cold.
DaemonRestarts ==
    /\ indexFaults < MaxIndexFaults
    /\ call' = [c \in IndexCalls |->
          IF c \in Rebuilders \/ At(c, "idle") THEN call[c]
          ELSE Over]
    /\ index' = ColdIndex(0)
    /\ writer' = NoCall /\ loading' = NoCall
    /\ indexFaults' = indexFaults + 1
    /\ UNCHANGED <<rows, chunks, disk, unseen>>

IndexNext ==
    \/ \E s \in Stores : \/ StoreRemoves(s) \/ StoreCommits(s) \/ StoreRollsBack(s)
                         \/ Refresh(s) \/ RefreshBehindLoad(s) \/ RefreshFails(s)
    \/ \E p \in Purges : PurgeCommits(p) \/ Tombstone(p)
    \/ \E w \in Sweeps : SweepWritesFile(w) \/ SweepFails(w) \/ SweepInvalidates(w)
    \/ \E q \in Searches : Search(q) \/ SearchGivesUp(q)
    \/ \E c \in IndexCalls : \/ LoadIsWarm(c) \/ LoadLocks(c) \/ LoadLooksAtDisk(c)
                             \/ Restore(c) \/ LoadSamples(c) \/ LoadSelects(c)
                             \/ LoadVerifies(c) \/ LoadPublishes(c)
                             \/ SaveFile(c) \/ SaveManifest(c)
    \/ \E b \in Rebuilders : RebuilderReads(b) \/ RebuilderSavesFile(b)
                             \/ RebuilderSavesManifest(b)
    \/ DaemonRestarts

IndexSpec == IndexInit /\ [][IndexNext]_indexVars

-----------------------------------------------------------------------------
(* Properties *)

(* Types of the index: rows and live ids are chunks handed out, and a cold    *)
(* index is empty, whatever calls reach it while it is cold.                  *)
IndexTypeOK ==
    /\ rows \subseteq 1..chunks /\ chunks \in Chunk
    /\ index.live \subseteq ToSet(index.ids) /\ index.ids \in Seq(Chunk)
    /\ index.vecs \in Seq(Chunk)
    /\ ~index.ready => index = ColdIndex(index.gen)
    /\ writer \in Stores \cup {NoCall} /\ loading \in IndexCalls \cup {NoCall}
    /\ \A c \in IndexCalls : call[c].pc \in IndexPcs

\* Rows a call still has to tell the index about, and rows it is replacing.
Announced == UNION ({call[c].new : c \in {d \in Stores \cup Sweeps :
                                 call[d].pc \in {"write", "refresh", "behind"}}}
                    \cup {call[s].old : s \in {t \in Stores : At(t, "write")}})

(* A warm index misses nothing: every row is found under its own vector, or   *)
(* the call that wrote it still has to announce it. The gate of every load is *)
(* readiness, so a row missed here stays invisible to semantic recall until   *)
(* something else invalidates (retrieval.py:1317, faiss_index.py:119). Named  *)
(* exceptions: rows lost by a fault (unseen), and an index restored from two  *)
(* files of different saves or under a checksum taken too late.               *)
WarmMissesNothing ==
    index.ready /\ index.sound => rows \subseteq Findable(index) \cup Announced \cup unseen
===============================================================================
