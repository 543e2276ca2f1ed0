# Smart-LSM-KV in TLA+

A verification project for the key-value store in `src/`: TLA+ models of its
parts, TLC runs over small instances, and proofs that TLAPS checks. Line
numbers are those of `src/`.

## The system

One process owns a `KVStore` (`kvstore.cc`). It is single-threaded, except for
the parallel HNSW search, which uses a thread pool.

| Component | State | Operations | What makes it correct |
|---|---|---|---|
| LSM tree, `kvstore.cc:34-643` | memtable `s`; cached heads `sstableIndex[15]`; `totalLevel`; the static `TIME`; `data/level-<l>/<t>.sst` | `put`, `get`, `del`, `scan`, `reset`, `compaction`, `delsstable`, constructor, destructor | reads return the last write whatever was flushed, merged, killed or reopened; no durable value is lost; no file is overwritten |
| Memtable, `skiplist.cpp` | linked levels between `head` and the sentinel `tail`, `bytes` | `insert`, `search`, `scan`, `reset`, `getBytes` | a sorted map, `bytes` is the size of the table it will become |
| Tables, `sstable*.cpp`, `bloom.cpp` | timestamp, keys, offsets, filter, values | `putFile`, `loadFile`, `loadFileHead`, `insert`, `searchOffset` | what is written is what is read; at most 2 MB |
| Embedding store, `kvstore.cc:258-274, 698-854` | `embeddings`, `data/embedding.bin` | `save_/load_embedding_*`, `search_embedding`, `search_knn` | the latest vector of a key wins; a deleted key has none |
| HNSW index, `HNSW.cpp`, `kvstore.cc:87-129, 860-987` | nodes, neighbour lists, `entry`, `deleted_nodes`, `hnsw_data/` | `insert`, `search_knn_hnsw`, `del`, `restoreDeletedNode`, `saveToDisk`, `load_hnsw_index_from_disk` | every live pair is found, no deleted one; save then load is the identity |
| Thread pool, `ThreadPool.h`; parallel search, `HNSW.cpp:443-575` | `tasks`, `stop`, a mutex and a condition variable, `workers`; futures, `candidates` | `enqueue`, worker loop, destructor | each task runs once; no lost wake-up; the destructor drains the queue and returns |
| Embedding model, `util.cpp` | none that matters | text to vector | external |

Interaction. `put` updates the embeddings and the HNSW index, then the memtable.
When the memtable would pass 2 MB it becomes a table of level 0, `compaction(0)`
runs to its end, perhaps down several levels, and only then is the new entry
inserted. `get` and `scan` read the memtable, the cached heads and, at the
offsets found there, the files. The destructor writes the memtable as one more
level-0 table and compacts. The constructor rebuilds the cached heads,
`totalLevel` and `TIME` from the directories. There is no log: a kill loses the
memtable, and nothing records a merge that is under way.

What is hard here: versions are told apart in two ways, by level (`get`) and by
timestamp (`scan`, merges), which must agree; a merge writes outputs and then
deletes inputs one by one, so that a kill finds many in-between states; `TIME`
and the names of files are reconstructed; deletion markers may be dropped in
the deepest level only; and the pool's lock, condition variable and futures.
The `hazards` of `PROJECT.json` list each at its line.

## Modules

| Module | Role |
|---|---|
| `KVStoreAPI` | The abstract dictionary of `kvstore_api.h`, with a durable copy a kill falls back to (what `persistence.cc` expects of it). |
| `LsmTree` | The LSM tree, in full: every operation and every step that touches the disk. Its properties, and its mutants. |
| `MCLsmTree` | Constants for TLC. |
| `LsmTreeProofs` | Types, file names, no file overwritten, the cached heads are the disk. |
| `LsmTreeOrderProofs` | The order of versions over the levels. |
| `LsmTreeReadProofs` | What `get` and `scan` return, the refinement of `KVStoreAPI`. |
| `TaskPool` | What `ThreadPool.h` promises its caller: tasks start once and in order, all are finished, the destructor returns. |
| `ThreadPool` | The pool: workers, queue, mutex, condition variable, `enqueue`, destructor. |
| `ThreadPoolProofs` | Theorems about `ThreadPool`. |
| `ParallelSearch` | `search_knn_hnsw_parallel` with its tasks, futures and mutex; extends `ThreadPool`, whose actions are part of its own. |
| `ParallelSearchProofs` | Theorems about `ParallelSearch`. |
| `MCParallelSearch` | Three small indices for TLC. |
| `SortedMap` | The abstract memtable: a map whose keys are listed in order. |
| `SkipList` | The skip list, link by link; it implements `SortedMap`. |
| `SkipListProofs` | Theorems about `SkipList` and `TableFile`. |
| `TableFile`, `MCTableFile` | One table: flush of the skip list, offsets, file, head, filter, lookup, rewriting by a merge. Extends `SkipList`. |
| `HnswGraph`, `MCHnswGraph` | The links of the HNSW index: insertion, pruning, the serial search, lazy deletion, what saving reaches. |
| `HnswGraphProofs` | Theorems about `HnswGraph`. |
| `VectorStore` | The embeddings with their file, and the HNSW index as a set of pairs: the cases of `put`, deleted pairs, saving and loading. |
| `VectorStoreProofs` | Theorems about `VectorStore`. |

TLAPS checks the theorems of the `...Proofs` modules, each of which extends the
module it is about.

### LsmTree and the code

State. `s`, `sstableIndex`, `totalLevel` and `TIME` are the variables of the
code. `s` and the contents of a file are functions from keys to entries; an
entry is a value together with the number of the write (`ver`), which stands for
the payload: it tells two writes of equal length apart and no guard looks at it.
`files` and `dirs` are the disk. `pc` and `job` are the program counter and the
local variables of a call, `pending` the entry of the `put` that flushed.
`latest`, `flushed`, `clock` and `restarts` are history variables: no guard
of an operation reads the first two, the others only bound the behaviours.

Steps. One action per step that changes the disk, so that a kill (`Crash`) may
come between any two: flush (`PutAndFlush`, `Close`), `CompactStart` (the
directory, the choice of tables, the first `++TIME`), one `WriteOutput` per
output table, one `DeleteInput` per deleted input, `CompactEnd` (return or
recursion), `FinishPut`, and `ResetFile`/`ResetDir` in `reset`, `OpenLevel` per
directory in the constructor. What happens in memory between two such steps is
part of the step. `OpenLevel` takes the files in any order, as `readdir` may.
`ResetFile` deletes them in any order for the same reason.

Data. Sizes are the real ones (2 MB, 10240 + 32 bytes of filter and header, 12
per index record); values have a length and no bytes. A Bloom filter holds
every key of its table and a hit is confirmed by the index, so a head is the set
of its keys. The heaps of `scan` and `compaction` are modelled by what they
yield: for each key the offer with the largest timestamp. `scan`'s bounds are
kept as they are, including the first key that is not compared with `key2`.

Abstractions a reader should know: writing one file is atomic (a torn file makes
`loadFileHead` read uninitialised data); creating `level-0` and writing the file
in it are one step; library calls do not fail; the directory given to the
constructor is `./data`, the one the other operations hard-code; a value fits a
table; a key is below the skip list's sentinel 2^64-1.

### ThreadPool, ParallelSearch and the code

The mutex is the set of its holders. Taking it, what is done under it up to its
release, and the notification after the release are separate steps, so that any
other thread may act in between: a worker's test of the predicate (`Refuse`) and
its sleep (`Wait`) are two steps under the mutex. Falling asleep and releasing
the mutex is one step, as C++ guarantees of `wait`; `notify_one` wakes any one
sleeper or, if there is none, is lost; a sleeper may wake without notification.
A woken worker is where a new one is: it wants the mutex. A task is its number.
One thread, the owner, submits tasks and destroys the pool, as in the only use
of the class; the `throw` of `enqueue` on a stopped pool is therefore not
reached.

`ParallelSearch` puts the search in the place of the owner and the two kinds of
task in the place of `Run`. A node is a number with a similarity to the query;
ties are possible and resolved as in the code (the first wins in the descent,
the larger address in the heap). A scoring task's pushes into the shared heap
are one read and one write, so that the `lock_guard` matters. The nodes of level
0 are collected node by node and neighbour by neighbour (`CollectNode`,
`MeetNeighbor`), as the breadth-first loop does. The loop that selects the results
takes one candidate out of the heap per step (`Select`), until there are enough
results or none are left (`SelectEnd`).

### SkipList, TableFile and the code

A node is its key, as there is one node for a key; `nxt` has a next node for
each level and node, `HEAD` and `INF` are `head` and `tail`. Every hop of a walk
(`Walk`), every level it leaves (`Remember`, `Miss`, `Reach`) and every element a
scan collects is a step. A new node has any level, as `randLevel` may draw any. A
level above those in use empties the list of the highest one in use too
(`skiplist.cpp:22`): its nodes stay on the levels below, and `on`, a history
variable, says which nodes a level has. `SkipInv` is inductive: lists
sorted and ending at the tail, levels nested, the walk on the list of its level
and before its key, the remembered nodes the last ones before it. `ImplementsMap`
is the refinement: `val`, with `None` for no node, is the map, and the step that
ends a call is the step of the map.

`TableFile` adds the table that a flush fills from the lowest level node by
node, and its file. A value is a sequence of bytes; the file has the values one
after another and the offsets where each ends; reading takes the difference of
two offsets. A merge (`Rewrite`) inserts the entries of the file one by one into a
new table (`RewriteEntry`) and writes that one (`RewriteEnd`). The constructor and
`insert` count the size of the table in different ways, `loadFileHead` in a third. A value that is read for a merge passes through
a C string, so a NUL byte cuts it (`CString`): `LookupFindsFlushed` says that
this is all that is lost, in one merge or several, and that without a merge
nothing is. The filter is the set of its bits; the run has two keys whose bits
cover the third's, so that a false positive reaches the binary search.
A key is below that of the sentinel, and a merge rewrites one table: which
version survives is in `LsmTree`.

### HnswGraph and the code

`neighbors`, `level`, `entry`, `deleted_nodes` are the code's. A node is the
number of its insertion. Vectors are points with a table of similarities.
`newNode`, `cur`, `i`, `queue`, `pq` are the local variables of `insert` and
`search_knn_hnsw`, which share the actions of the descent (`Hop`, `LevelDown`)
and of the best-first visits (`Visit`): the loops are written twice in the code
and differ in where they end, which the guards keep. A heap is the set of its
nodes, since a node that comes out again is skipped; the address that decides
among equals is left open. `Connect` is one turn of the loop that links a
neighbour to the new node and, if its list is too long, drops the worst.

That loop iterates over `newNode->neighbors[i]`, and if the link it drops is the
one to `newNode` it erases from this list (`HNSW.cpp:162`), after which its
iterators are invalid. `slots` is what the loop then reads in the build at hand:
libstdc++ moves the later pointers one place forward and leaves the last place
as it was, so that one neighbour is skipped and the last may be met twice.
`shifted` records that this made a difference.

`Restart` is the destructor's save and a load: the nodes reached from the entry
over the links of all levels survive. What a traversal reaches (`Reachable`) is what
is in every set of nodes that is closed under the links. Which vector a loaded node gets, and the
deleted pairs on disk, are in `VectorStore`.

### VectorStore and the code

`embeddings`, `deleted_nodes` and the file's `records` are the code's; `nodes`
are the nodes in the order saving numbers them, `hnsw_data` what the index
directory holds: the key of every node, the vector of the deleted ones. A value
stands for its vector (two values with one vector are outside the model), and
the LSM tree is what `get` returns (`kv`), the keys of the memtable
(`memtable`) and what a kill falls back to (`durable`); whether a `put` flushes is
left open. A flush saves the vectors (`Store`), then the tables (`FlushTables`); the
destructor saves vectors, index and tables in three steps; `reset` empties the file,
the memory and the memtable, then `ResetTables` deletes the tables; a kill may come
between any two. `KillsInReset` says whether one may come between the two of
`reset`: it then leaves durable values without a vector, TLC finds
`DurableHasVector` violated, and since the repository promises nothing of such a
kill the runs have `FALSE`, as those of `LsmTree` exclude it. `later` is history: the
vectors of the writes of a key after the one that is in a table, those that a kill
took back included. `DurableHasVector` needs it, since the vectors are ahead of the
tables by more than the write under way. Clients load a saved
index before they write or close, and the embeddings, if at all, right after the
start, as the comments of the constructor and of the load functions have it.

Abstractions: the links of the graph are left out, so every node is reachable
(`HnswGraph` says when it is); a save of the index, an append to the file of vectors
and each half of `reset` are one step (a kill within an append leaves a torn record,
and what is read from the end of such a file depends on its bytes); a file without
its dimension, 8 bytes that only `reset` writes, is
rejected by `load_embedding_from_disk`; of `search_knn` the model has what it
compares, loads and saves, not the heap that picks the `k` largest.

## Runs

Every run has `CHECK_DEADLOCK FALSE`: the clients stop when the bound on writes
is used up, and the pool and the search end. In the `lsm_` runs keys are `{1,2,3}`
(`{1,2}` for the refinement); values `half`
(1 MB, two to a table) and `whole` (2 MB, one to a table). Key symmetry is not
used, since keys are ordered.

| Run | Question | Result |
|---|---|---|
| `lsm_merge` | Do `get` and `scan` return the last write with the code's thresholds (level 0 merges at 3 tables) through flushes, merges, deletes, `reset`? Are tables within 2 MB? | holds |
| `lsm_deep` | With thresholds so low that one flush cascades through many levels: ranges below level 0 disjoint, shallower is newer, no markers in the deepest level, files never overwritten, every call returns | holds |
| `lsm_kill` | Killed at every step of `put`, `del` and compaction, once, and reopened: nothing durable lost, timestamps order versions, the cache is the disk, every file in reach; the inductive invariant of the proofs | holds |
| `lsm_reopen` | Does the store implement `KVStoreAPI` over a shutdown or a kill and the next process? | holds |
| `lsm_stale` | Does `get` return the last write when merges go below level 1? | violated |
| `lsm_kill_delete` | Do reads survive a kill during the deletion of merge inputs? | violated |
| `pool` | Three workers, four tasks, a spurious wake-up: does the pool lose a wake-up, lose or repeat a task, and does it implement `TaskPool` with its liveness? | holds |
| `search` | The parallel search on the pool, over three indices: are candidates lost, do tasks outlive the variables they refer to, is the result that of a serial search, does it return? | holds |
| `memtable` | Is the skip list a sorted map, whatever the levels? Does a flush, a file, a merge give each key its value back, is the cached head that of the file, do walks end? | holds |
| `hnsw` | Does the graph keep its shape under insertion and pruning, is it connected while no link was dropped, does the serial search return the best live nodes, does it return? | holds |
| `vectors` | Adds, updates, restores, deletes in any order, with flushes, shutdowns, loading and a kill at any step but those of `reset`: before the kill, is the index the store's pairs, is the vector of a key that of its value, does `search_knn` compare all live pairs if the file has its dimension? Over it, does the last record of a key fit its durable value or a later write? | holds |
| `vectors_stale` | Is the vector of a key still that of its value when `search_knn` is called with new vectors in memory? | violated |

Bounds. `MaxWrites` (5 to 7) bounds the writes of a behaviour, `MaxRestarts` the
ends of the process. Five writes of `whole` values give four flushes; with
`L0Limit = 1` that is two merges, the second of which meets the first one's
outputs, so every path of compaction is taken, with overlap and without, one
output and several. `lsm_merge` keeps the code's limit of 2 with seven writes:
two merges again. Depth beyond level 1 needs more data than TLC can hold with
the code's thresholds (5 tables in level 1 of distinct ranges, then 9 in level
2), so `lsm_deep` lowers `Threshold`, `L0Limit` and
`MergeWidth` to 1; the guards are unchanged. `lsm_stale` does the same, and makes
level 0 overflow at its first table: its shortest violation takes eight writes.
With the code's own thresholds simulation finds such a violation too (of
`ScanFindsLatest`), with many more. The theorems hold for any values.

`memtable` has three keys, three levels (18 in the code; a third one suffices for
a node above the highest level in use, which starts at 1) and three calls with
any arguments, flushes and up to two merges between them: two insertions and a
third call meet every pair of neighbours on every pair of levels, and an update,
a shorter value, a reset and a scan over a stretch of keys. Values are of one and
two bytes, one with a NUL in front.

`hnsw` has five nodes, `M = M_max = 3` (32 and 64 in the code) and
`efConstruction` 4 (400): the fifth node is the first to find full lists, and it
is far from the others, so that a full node drops it, some of them while the loop
iterates over its list; it may lose all links, and a restart loses the node.
`Offered` bounds the vectors and levels of each new node (one or two levels),
`MaxDeleted` the nodes deleted at a time (1). Searches ask for two results from
any of four vectors, with fewer nodes than `efConstruction` and with more.
`UnprunedIsConnected` and the optimality in `SearchFindsBest` assume that no link
was dropped yet: with the code's parameters, for as long as no node has been
chosen by more than 64.

`vectors` has two keys and two values, five writes (resets and `search_knn`
count), two ends of the process, one of them perhaps a kill: enough for a value
to be replaced, restored, deleted and restored again, and for an index to be
saved, loaded, changed and saved again. After a kill only `DurableHasVector` is
claimed, since the saved index and the tables are then of different times. In
the passing run `search_knn` is called only when no vector is in memory
(`LoadsOverNewer`); `vectors_stale` shows why.

Fairness. `FairSpec` has weak fairness of `Continue`, the steps of a call under
way: the calling thread is running and no step blocks. For the same reason the
calls and flushes of `TableFile` (`Working`) and the calls of `HnswGraph`
(`Step`) have weak fairness. Nothing is assumed of the clients' calls. The three
`CallsReturn` need it and nothing else does.

`pool` and `search` assume weak fairness of each worker's loop and of the owner
within a call: threads are scheduled. Nothing is assumed about the order in
which waiting threads get the mutex: a thread that waits for it is passed over
only while others have work, which the number of tasks and of spurious wake-ups
(`MaxSpurious`, 1) bounds. In `pool` the owner may stop calling at any time; in
`search` it goes on. Three workers (the code has 4) suffice for one that runs, one
on its way and one asleep; four tasks exceed them; the indices have a round of
comparisons in an upper level and in level 0, one with a remainder in the
partition, and one with fewer nodes than workers. `SerialUpTo` is 2 (16 in the
code), `efConstruction` 4 (400), so that the five nodes meet both limits.

### What the violations show

- **Timestamps of merges.** `kvstore.cc:521` stamps outputs with a fresh `TIME`,
  however old their contents are. `scan`, and the next merge, go by time. Once
  tables are merged below level 1, an old version may be stamped later than a
  newer one above it: `scan` returns it at once, and the next merge that takes
  both keeps it and drops the newer one, after which `get` returns it as well. No
  shutdown and no kill is needed. `TimeIsAge` holds with one level of merges
  and no shutdown, which is proved, and not beyond.
- **The destructor's table** (no run of its own) is not entered in the cache when
  the destructor compacts (`kvstore.cc:76`), so the same inversion happens at
  level 0. It takes two shutdowns for `get` to return the old value: with
  `MaxRestarts = 2`, three keys and `"close"` among the operations TLC finds
  `GetReturnsLatest` violated after six writes (eight with the code's limit of 2).
- **Kill while inputs are deleted.** Old and new generations are both on the
  disk, and `get` may take the old one or leave the level before the new one.
  `lsm_reopen` therefore has no `"delete"` among its crash points, and
  `lsm_kill`, which has it, checks what is still true there.
- **Loading over newer vectors.** `search_knn` loads the file into `embeddings`,
  old records over new entries (`kvstore.cc:850`), and saves the result as the
  latest. The new vector is lost, and a later load of the index gives its node
  the old one.
- **The missing dimension** (no run of its own). Saving only appends; the dimension
  in front is written by `reset` alone. In a store that was never reset
  `load_embedding_from_disk` rejects the file (`kvstore.cc:841`), and `search_knn`
  misses every vector that a flush or a shutdown has saved, though
  `kvstore.cc:709` says it goes through them all. `search_embedding` reads from the
  end and finds them. `EmbeddingIsCurrent` therefore speaks of what is compared only
  when the file has its dimension; without that guard TLC finds it violated.

These bound what the passing runs say: `ImplementsAPI` is about one restart and
no kill in the `delete` phase or within `reset`, and `ScanFindsLatest` about
levels 0 and 1 and the keys within the range.

Two more places where the code differs from what it says, without a run of
their own. `kvstore.cc:354` pushes the first key of each table that is not below
`key1` without a check against `key2`: with a table of keys 1 and 3, `scan(2, 2)`
returns key 3. And `HNSW.cpp:304` says that the traversal of `saveToDisk` visits
all nodes: a node that its neighbours dropped is not reached, by a search either.

A kill within `reset` is in no run. It leaves deeper levels without level 0, the
next constructor stops at the missing directory, `TIME` starts below the names
that are still there, and the later statements about names fail. The theorems
say so in their assumption.

## Theorems

Each holds for every value of the constants that satisfies the named assumptions
of the module (`...Assumption`), which are about types and signs. What it assumes
beyond these is listed.

### The LSM tree

| Theorem | States | Assumes |
|---|---|---|
| `TypeCorrect` | `Spec => []TypeOK` | |
| `TablesAlwaysFit` | `Spec => []TablesFit` | |
| `FilesInReach` | `Spec => []EveryFileInReach` | R |
| `FilesNeverChange` | `Spec => FilesAreImmutable` | R |
| `InductiveInvHolds` | `Spec => []InductiveInv` | R |
| `CacheIsDisk` | `Spec => []CacheMatchesDisk` | R |
| `RangesStayDisjoint` | `Spec => []LevelsDisjoint` | W |
| `ShallowerStaysNewer` | `Spec => []ShallowerIsNewer` | W |
| `DeepestStaysClean` | `Spec => []DeepestHasNoMarkers` | R |
| `FlushedIsKept` | `Spec /\ []TimeIsAge => []FlushedIsOnDisk` | R |
| `GetIsLatest` | `Spec /\ []TimeIsAge => []GetReturnsLatest` | D, E |
| `ScanIsLatest` | `Spec /\ []TimeIsAge => []ScanFindsLatest` | D, E |
| `StoreIsDictionary` | `Spec /\ []TimeIsAge => ImplementsAPI` | D, E |
| `TimeIsAgeOfTwoLevels` | `Spec => [](TwoLevels => TimeIsAge)` | D, C |
| `ReadsOfTwoLevels` | `Spec => [](TwoLevels => GetReturnsLatest /\ ScanFindsLatest /\ FlushedIsOnDisk)` | D, E, C |
| `TwoLevelsAreDictionary` | `Spec /\ []TwoLevels => ImplementsAPI` | D, E, C |

R: `"reset" \notin CrashPoints`, no kill within `reset` (see above). D: nor while a
merge deletes its inputs; a kill in a flush or while a merge writes its outputs is
included. `lsm_kill_delete` shows that the reads need it. W: nor while a merge
writes or deletes. A kill among the writes leaves inputs and outputs side by side,
and `LevelsDisjoint` and `ShallowerIsNewer` are false (TLC finds both violated with
the bounds of `lsm_reopen`); the reads do without them. E: `None \notin Value`, no
client puts the empty string, which the code takes for no value (`kvstore.cc:133`).
C: `"close" \notin Ops`, no clean shutdown, because of the destructor's table.

The argument is a chain of inductive invariants, each used by the next. One lemma
per group of actions shows that each is kept.

1. `Typed`. `TypeOK` is not inductive: `totalLevel` and `job.level` stay within the
   levels only because a compaction under way has a level to write to (`JobOK`),
   and the listing of a directory is a sequence only if it is finite.
2. `Fresh`. That no file is overwritten: the name of the next table is `TIME + 1`,
   or `TIME` while a merge is writing, so every file's time must be at most, or
   below, `TIME` (`NamesAreFresh`). Over a restart that holds only if the
   constructor sees every file (`TimesRead`), which it does only if no level
   directory is missing before a deeper one (`DirsOK`); and that needs to know where a
   merge is writing and that `reset`, which breaks the order of directories, is not
   interrupted. `FilesNeverChange` follows from `FileSteps` (a step deletes files
   or writes one under a new name) and the uniqueness of names.
3. `Cached`. Each level's list of heads has every file of the level once, except
   the one the destructor has just written and, in the constructor, the levels
   still to be opened (`CacheOK`); times name files (`TimesDiffer`). With it, what a
   compaction chooses among heads is a choice among files.
4. `Ordered`. Below level 0 the ranges of a level do not meet, nor what a merge
   has still to write to it (`DisjointOK`); the shallower of two versions is the
   newer one, and what a merge is writing lies between the levels below its target
   and those above (`ShallowOK`); the memtable has the last writes of its keys and
   the files those of the others (`MemOK`, `FilesOld`). That the deepest level gets no
   markers (`MarkersOK`) is apart from the rest and survives the kills that end it. A file that a merge is about to delete
   counts as gone (`Live`) once the merge has its contents. The heart is
   geometrical: a table of the next level that a merge does not take lies apart from *all* that
   it takes, although the code compares with the range of the tables as a whole only,
   because it is apart from the others that meet that range (`ApartUnion`). Here the timestamps do
   not matter: the order by levels holds even where `scan` goes wrong.
   What fails then is not the order but that the newest version is on the disk at all.
5. `Lasting`. The last flushed version of every key is in a live file or still to be
   written by the merge, or it is a marker and nothing is left of the key. A merge takes the
   version with the largest timestamp, so this step, and no other, needs
   `TimeIsAge`. Hence the form `Spec /\ []TimeIsAge => ...`: the theorems say that
   the one thing that can make the store lose a write is a timestamp that lies. `lsm_stale`
   shows that it may; `TimeIsAgeOfTwoLevels` that it does not while no directory
   below level 1 exists (`TwoLevels`: with the code's thresholds, until level 1 has more
   than four tables): a merge into level 1 takes every file that has a version of one of its
   keys. The last three theorems draw the conclusion.
6. `SizesOK`, beside the chain, gives `TablesAlwaysFit`: the memtable stays within
   `MAXSIZE` together with the header, over updates that lengthen or
   shorten a value; what a merge puts into a table is a part of what it has left
   that fits (`FittingFits`), and never nothing (`FlushedHasKeys`, `HasKeys`). `Bytes` is a fold over the keys, and what a fold computes is
   proved here without induction over data: a sum over a finite set of keys is the
   number of elements of the set that has `n` elements for a key of weight `n` (`Cells`, `BytesCount`), and a set of
   counterexamples would have a smallest one (`FoldCounts`). From then on a size
   is a cardinality, which adding and removing keys changes as the theorems about finite sets say.
7. `LayersOK` takes the place of `Ordered` for the reads, because a kill among the
   writes of a merge ends `Ordered`: inputs and outputs lie side by side, and a table
   left above may have an older version than the output. `Layers` says what the reads
   need, of any set of tables. Below level 0, the tables of a level that have a key
   have the same version of it (`SameVersion`), and none lacks a key within its
   range that another has (`NoHoles`: the early exit of `get` skips nothing), unless
   a shallower level has the key and hides all this. Of two versions in different
   levels, the deeper one is no newer than some version met before the reader
   leaves the level of the other (`ShallowHasNewest`). The deepest level has no
   markers, and the flushed versions are there (`KeptIn`). `LayersOK` says this
   twice: of the files that the merge does not delete and of all files, each
   together with what it has still to write. The second is what a kill falls back
   to: a merge adds nothing that its inputs do not have (`LayersBeside`). The first
   is what completion leaves: what the inputs hid, the output hides
   (`LayersInstead`). Both need `TimeIsAge`, by which the merge takes the newest
   versions. A kill among the deletions is between the two and leaves neither.
8. `GetReturnsLatest` follows from `LayersOK`, `ScanFindsLatest` from it and the
   order by time. `StoreIsDictionary` maps every step to one of `KVStoreAPI` or a
   stutter.

### The thread pool and the parallel search

`ThreadPoolProofs`, for any finite, non-empty set of workers and any bounds:

| Theorem | States |
|---|---|
| `PoolTypeCorrect` | `Spec => []TypeOK` |
| `PoolInvHolds` | `Spec => []PoolInv` |
| `EachTaskOnce` | `Spec => []TasksInOnePlace` |
| `DestructorDrains` | `Spec => []DrainedAtEnd` |
| `NoLostWakeUp` | `Spec => []NobodyOversleeps` |
| `PoolIsTaskPool` | `Spec => Pool!Spec`, the safety part of `ImplementsPool` |

`TasksInOnePlace` alone is not inductive: a worker in `run` must have a task, and
one about to sleep must still have seen the truth. `MutexOK` says which places
hold the mutex, so no two threads are in them at once; `SeenOK` says that what
was seen under it still holds; `StopWakes` follows, since nobody can fall asleep
once `stop` is set. `PoolInv` is their conjunction. For `NoLostWakeUp` the number
of workers on their way is counted with the cardinality theorems: a worker
leaves its way only with a task or because there is none (`EnoughAwake`).

`ParallelSearchProofs`, for any finite index whose links join its nodes, any
number of workers, any `SerialUpTo`, `efConstruction` and number of results:

| Theorem | States |
|---|---|
| `SearchInvHolds` | `SearchSpec => []SearchInv` |
| `SearchTyped` | `SearchSpec => []SearchTypeOK` |
| `TasksNeverDangle` | `SearchSpec => []NothingDangles` |
| `CollectedAreScored` | `SearchSpec => []EachScoredOnce` |
| `DescentFindsPeak` | `SearchSpec => []DescentEndsAtPeak` |
| `ResultIsBestOfCollected` | `SearchSpec => []ResultIsBest` |

A step of the search is a step of the pool or leaves the pool alone
(`StepsOfPool`), so `PoolInv` is reused. `SearchInv` adds: the tasks of the round
under way are the last ones submitted, and none of an earlier round is unfinished
(`RoundOK`), from which nothing dangles; each node is collected once
(`CollectedOnce`); a finished comparison task has left the best of its stride in
its future (`FuturesOK`); the place of a scoring task within its part and what it
has read are known (`StepsOK`: what it read under the mutex is still
`candidate_nodes`); and the candidates are the nodes of the parts that are done,
each once (`CandidatesOK`). `PartitionFacts` proves that the parts the code cuts
are disjoint and cover all nodes, whatever the remainder, with fewer nodes
than workers too; `StrideFacts` the same of the strides.

`ResultIsBest` needs `HeapAndResult` about the loop that selects: the heap and the
results are disjoint parts of the collected nodes, every live node is in one of
them, each result is above all that are left, and the results are in order
(`TopComesOut`). When the loop ends, the heap is empty and the results are all live
nodes, or there are `K` of them and nothing left is above one (`EnoughIsBest`).

### The skip list and the tables

`SkipListProofs`, for any keys, any values, any number of levels from 2 on and any
number of calls; the later five also for any sequences of bytes as values, any
bits of the filter for each key and any number of merges:

| Theorem | States |
|---|---|
| `SkipListKeepsItsShape` | `SkipSpec => []SkipInv` |
| `SkipListImplementsMap` | `SkipSpec => ImplementsMap`, the refinement of `SortedMap` |
| `TableInvHolds` | `TableSpec => []TableInv` |
| `ShapeSurvivesFlush` | `TableSpec => []SkipInv` |
| `FileHasFlushedValues` | `TableSpec => []LookupFindsFlushed` |
| `HeadIsThatOfFile` | `TableSpec => []HeadDescribesFile` |
| `FlushedListImplementsMap` | `TableSpec => ImplementsMap`, with flushes between the calls |

The first asks for sorted lists only in terms of neighbours: the next node is
the next larger one of the level (`IsNext`). A new node splits the one gap its
key lies in (`KeySplitsGap`) and no other (`KeyLeavesGap`); that the remembered
nodes bound this gap on every level, also on the levels that `insert` has just
emptied, is the part of `WalkOK` that makes it inductive. From it, a search that
leaves the lowest level has passed the key, and a scan that ends has collected
every key of its range, which is what the steps of the map ask for.

The properties of the file speak of the time between flushes; `TableInv` says
what holds in between. `TableOK` is about one table, finished or not: keys
ascend, bounds and filter cover them, an offset is where its value ends, and the bytes
between two offsets of the concatenated values are the value. That this survives
an entry at the end is `FlattenAppend`: the values that are already there stay where
they are. A table under a flush has the keys of the list below the node
the flush is at (`FlushOK`), one under a merge the first entries of the file, each
cut at a NUL byte (`RewriteOK`), and a file is that of a table which has the
flushed keys (`FileOK`, where `Loaded` is the table a file stands for). From
sorted keys and the filter's bits the binary search finds what is there and, after
a false positive, rejects what is not, whatever bits keys share. The sizes: `bytes`
of the memtable is the number of bytes of its entries (`BytesOK`, again as the
cardinality of a set, `Weight`), which is what the offsets of the flushed
table add up to (`FlushOK`), what `insert` counts in a merge (`RewriteOK`), and what
`loadFileHead` computes from the last offset.

### The vectors

`VectorStoreProofs`, for any finite set of keys, any values and bounds:

| Theorem | States | Assumes |
|---|---|---|
| `VectorsTyped` | `Spec => []TypeOK` | |
| `VectorsAreDurable` | `Spec => []DurableHasVector` | L, R |
| `VectorsInvHolds` | `Spec => []VectorsInv` | L |
| `VectorsAreCurrent` | `Spec => []EmbeddingIsCurrent` | L |
| `IndexStaysStore` | `Spec => []IndexIsStore` | L |

L: `~LoadsOverNewer`, without which `vectors_stale` refutes the statements and an
old record may come to the end of the file. R: `~KillsInReset`, without which TLC
refutes `DurableHasVector` (see above). All other kills are included; the last three
claim nothing after one.

`VectorsAreDurable` rests on where the process is (`Places`) and on `VectorsKept`: a
key of the memtable has the vector of its value in memory or as the last record, and
among the later ones; any other key has nothing in memory that is not in the file, and
its durable value; the entry under way has its record. So saving the tables
(`SaveKeeps`) finds the records there, and a kill takes back only what `later` has.
The other ones need that the last record of a key in the file,
overridden by memory, is the vector of its value (`VectorsCurrent`), and that
the live nodes are the store's pairs without repetition, the deleted nodes other
pairs, in memory and, if it is up to date, in the saved index (`IndexCurrent`); `IndexOf` says it once for both.

### The HNSW graph

`HnswGraphProofs`, for any vectors, any similarities of which that of a vector with
itself is the largest, any `M <= M_max`, `M <= efConstruction`, number of levels, of results and of nodes,
and any order of insertions, searches, deletions and restarts:

| Theorem | States |
|---|---|
| `HnswInvHolds` | `Spec => []HnswInv` |
| `GraphKeepsItsShape` | `Spec => []GraphInv` |
| `UnprunedStaysConnected` | `Spec => []UnprunedIsConnected` |
| `SearchIsBest` | `Spec => []SearchFindsBest` |

The properties speak of the graph between calls, so none is inductive. `HnswInv`
says what holds within a call. A node has no link in either direction on a level
its insertion has not got to (`Unlinked`, `NewOK`), so the descent cannot reach it
and `Connect` adds no link twice. While the loop of `Connect` runs, the only links
that go one way are those of the new node to the neighbours whose turn is still to
come (`Pending`, `MutualOK`). The turn of a full neighbour takes one pair of links away
on both sides, which keeps the rest mutual; if the pair is the new node's own, the
list under iteration gets shorter, and from the moment at which the loop misses a neighbour by
that (`shifted`) nothing is claimed about mutuality, whereas the bounds on the lists
(`DegreesBounded`) and on the iteration (`ListOK`) go on to hold. `ConnectSlots` is
the lemma about this memory.

That a level is connected is stated without paths: a closed set that meets the
level has all of it (`Connected`). For the level an insertion is at this is said of the
other nodes only (`Old`), until the last neighbour was linked; then the first
one, which `ConnectedOK` knows to have the link back, brings the new node in
(`LevelDone`). From this a restart finds every node while nothing was pruned
(`RestartStep`), and when a search runs out of nodes to visit, what it has visited is
closed, hence all (`AllVisited`); `AnswerOK` keeps that deleted nodes are skipped
and that nothing better is left in the heap. The lemmas about lists are
proved from the definitions of the community modules (`OffList`: what `RemoveFirst` leaves).

### What is only model-checked

- Everything about liveness: the three `CallsReturn`, the end of the search, the
  liveness part of `ImplementsPool`. The prover does not reach it.
- What holds of the timestamps after a kill among the deletions of a merge
  (`TimeIsAge` in `lsm_kill`). That the reads are not right then `lsm_kill_delete` shows.

Every invariant, action property and refinement that a passing run checks is
stated by a theorem, refinements in their safety part.

Each property has a mutant in `PROJECT.json`: a plausible bug of the code (an
operator next to the one it replaces) under which the run finds the property
violated.

## Not modelled

Of the modelled parts, not in any model: the bytes of the header (a record), the
failure of library calls, `sstable::checkSize`, `skiplist::lowerBound` and the
copying accessors, which nothing of the store calls, and the order in which the destructor of the index frees nodes. A
compaction of level 14 would index `sstableIndex[15]`; `CompactStart` is disabled
there.

An empty value (`put(k, "")`) is outside `LsmTree`: the code takes such an entry
of the memtable for none and an older value of the key shows through.

Left out for good: the embedding model (llama.cpp), the preloaded vectors, the
hash function, timers and the tests.
