---------------------------- MODULE VectorStore ----------------------------
(***************************************************************************)
(* The vectors of the store: `embeddings` with its file embedding.bin, and *)
(* the HNSW index with its deleted pairs and its copy under hnsw_data, as  *)
(* put, del, reset, the constructor, the destructor and the calls that     *)
(* save and load keep them (src/kvstore.cc, src/HNSW.cpp).                 *)
(*                                                                         *)
(* A value stands for its vector too; the deletion vector is MaxVec.  The  *)
(* LSM tree is what get returns now and what it would return after a kill: *)
(* LsmTree has its details.  Whether a put fills the memtable is left      *)
(* open.  The graph is the list of its nodes, all of which are reachable.  *)
(***************************************************************************)
EXTENDS Naturals, SequencesExt

CONSTANTS
    Key, Value,     \* values are not empty and not the deletion marker
    None,           \* no value; also the vector without dimensions
    MaxVec,         \* the vector that marks a deletion
    LoadsOverNewer, \* whether search_knn is called with new vectors in memory
    KillsInReset,   \* whether the process may be killed within reset
    MaxWrites,      \* bound: the puts and deletions
    MaxRestarts,    \* bound: the ends of the process, kills included
    MaxKills        \* bound: the kills

ASSUME VectorsAssumption ==
    IsFiniteSet(Key) /\ None \notin Value /\ MaxVec \notin Value \cup {None}
ASSUME VectorBoundsAssumption ==
    /\ LoadsOverNewer \in BOOLEAN /\ KillsInReset \in BOOLEAN
    /\ {MaxWrites, MaxRestarts, MaxKills} \subseteq Nat

Vec == Value \cup {MaxVec, None}
Pair == Key \X Vec

VARIABLES
    kv,             \* what get returns for each key
    memtable,       \* the keys that the memtable has
    durable,        \* what get would return after a kill
    later,          \* history: for each key the vectors of the writes after the
                    \* one that is durable, those that a kill took back included
    embeddings,     \* for each key its vector in memory, None for no entry
    records,        \* the records of embedding.bin
    dimension,      \* whether the file starts with its dimension
    nodes,          \* the nodes of the graph, a key and a vector each
    deleted_nodes,  \* the pairs marked as deleted
    hnsw_data,      \* the saved index: the keys, and the vectors of the deleted;
                    \* <<>> for none
    pending,        \* the entry of a put that flushes: a key and a value
    fresh,          \* nothing written since the constructor
    loaded,         \* the index is the one of this store, not an empty one
    pc,             \* "run", a step of reset or of the destructor, or "down"
    writes, restarts, kills

tree == <<kv, memtable, later>>
memory == <<embeddings, nodes, deleted_nodes, fresh, loaded>>
disk == <<durable, records, dimension, hnsw_data>>
bounds == <<pc, writes, restarts, kills>>
vars == <<tree, memory, disk, pending, bounds>>

NoEntries == [k \in Key |-> None]

(* The vector that a write saves; a deletion is a write of None.           *)
Vector(v) == IF v = None THEN MaxVec ELSE v
Idle == pc = "run" /\ pending = <<>>

(* search_embedding: memory first, then the file from its end.             *)
RecordsOf(k) == {i \in DOMAIN records : records[i][1] = k}

(* Mutant of InFile: the file is read from its start.                      *)
InFileFirst(k) ==
    IF RecordsOf(k) = {} THEN None
    ELSE records[CHOOSE i \in RecordsOf(k) : \A j \in RecordsOf(k) : i <= j][2]

InFile(k) ==
    IF RecordsOf(k) = {} THEN None
    ELSE records[CHOOSE i \in RecordsOf(k) : \A j \in RecordsOf(k) : i >= j][2]

search_embedding(k) == IF embeddings[k] # None THEN embeddings[k] ELSE InFile(k)

(* The file with the given vectors appended, one record for each key.      *)
Appended(vectors) ==
    LET ks == SetToSeq({k \in Key : vectors[k] # None})
    IN  records \o [i \in DOMAIN ks |-> <<ks[i], vectors[ks[i]]>>]

(* load_embedding_from_disk: every record of a file with a dimension is    *)
(* assigned over the memory.                                               *)
Loaded ==
    [k \in Key |-> IF dimension /\ RecordsOf(k) # {} THEN InFile(k) ELSE embeddings[k]]

Init ==
    /\ kv = NoEntries /\ durable = NoEntries /\ memtable = {}
    /\ later = [k \in Key |-> {}]
    /\ embeddings = NoEntries /\ records = <<>> /\ dimension = FALSE
    /\ nodes = <<>> /\ deleted_nodes = {} /\ hnsw_data = <<>>
    /\ pending = <<>> /\ fresh = TRUE /\ loaded = TRUE
    /\ pc = "run" /\ writes = 0 /\ restarts = 0 /\ kills = 0

---------------------------------------------------------------------------
(* put and del.                                                            *)

(* Mutant of Store: a flush does not save the vectors.                     *)
StoreTablesOnly(k, v) ==
    /\ later' = [later EXCEPT ![k] = @ \cup {Vector(v)}]
    /\ embeddings' = [embeddings EXCEPT ![k] = Vector(v)]
    /\ \/ kv' = [kv EXCEPT ![k] = v] /\ memtable' = memtable \cup {k} /\ UNCHANGED pending
       \/ pending' = <<k, v>> /\ UNCHANGED <<kv, memtable>>
    /\ UNCHANGED disk

(* The entry goes to the memtable and its vector to memory.  If the        *)
(* memtable is full, first all vectors are saved, that of the new entry    *)
(* among them, then the tables; the entry comes last.                      *)
Store(k, v) ==
    LET vectors == [embeddings EXCEPT ![k] = Vector(v)]
    IN  /\ later' = [later EXCEPT ![k] = @ \cup {Vector(v)}]
        /\ \/ /\ kv' = [kv EXCEPT ![k] = v] /\ memtable' = memtable \cup {k}
              /\ embeddings' = vectors
              /\ UNCHANGED <<disk, pending>>
           \/ /\ pending' = <<k, v>>
              /\ records' = Appended(vectors) /\ embeddings' = NoEntries
              /\ UNCHANGED <<kv, memtable, durable, dimension, hnsw_data>>

(* The memtable becomes a table.                                           *)
SaveTables ==
    /\ durable' = kv
    /\ later' = [k \in Key |->
           IF k \notin memtable THEN later[k]
           ELSE IF pending # <<>> /\ k = pending[1] THEN {Vector(pending[2])} ELSE {}]

FlushTables ==
    /\ pc = "run" /\ pending # <<>>
    /\ SaveTables
    /\ kv' = [kv EXCEPT ![pending[1]] = pending[2]] /\ memtable' = {pending[1]}
    /\ pending' = <<>>
    /\ UNCHANGED <<memory, records, dimension, hnsw_data, bounds>>

(* A write of the client, who has loaded a saved index before.             *)
MayWrite == Idle /\ loaded /\ writes < MaxWrites

Wrote ==
    /\ writes' = writes + 1 /\ fresh' = FALSE
    /\ UNCHANGED <<loaded, pc, restarts, kills>>

(* Mutant of IndexPut: a restored pair does not replace the old one.       *)
IndexPutKeepsOld(k, v) ==
    LET old == kv[k]
        known == <<k, v>> \in deleted_nodes
    IN  /\ nodes' = IF old # v /\ ~known THEN Append(nodes, <<k, v>>) ELSE nodes
        /\ deleted_nodes' = (deleted_nodes \ {<<k, v>>})
               \cup (IF old \in {None, v} \/ known THEN {} ELSE {<<k, old>>})

(* The cases of put: a pair that is known as deleted is restored, a new    *)
(* one is inserted, the one that is there stays; another one that the new  *)
(* one replaces is deleted.                                                *)
IndexPut(k, v) ==
    LET old == kv[k]
        known == <<k, v>> \in deleted_nodes
    IN  /\ nodes' = IF old # v /\ ~known THEN Append(nodes, <<k, v>>) ELSE nodes
        /\ deleted_nodes' = (deleted_nodes \ {<<k, v>>})
               \cup (IF old = None \/ (old = v /\ ~known) THEN {} ELSE {<<k, old>>})

Put(k, v) ==
    /\ MayWrite
    /\ IndexPut(k, v)
    /\ Store(k, v)
    /\ Wrote

(* Mutant of Del: the vector to delete is looked up after it is replaced.  *)
DelMarker(k) ==
    /\ MayWrite /\ kv[k] # None
    /\ deleted_nodes' = deleted_nodes \cup {<<k, MaxVec>>}
    /\ Store(k, None)
    /\ Wrote /\ UNCHANGED nodes

Del(k) ==
    /\ MayWrite /\ kv[k] # None
    /\ deleted_nodes' = deleted_nodes \cup {<<k, kv[k]>>}
    /\ Store(k, None)
    /\ Wrote /\ UNCHANGED nodes

---------------------------------------------------------------------------
(* The other calls.                                                        *)

(* Vectors, index and memtable go first: the file of vectors is emptied    *)
(* but for its dimension.  The directory of the saved index is not empty,  *)
(* so that rmdir leaves it.                                                *)
reset ==
    /\ Idle /\ writes < MaxWrites
    /\ records' = <<>> /\ dimension' = TRUE /\ embeddings' = NoEntries
    /\ nodes' = <<>> /\ deleted_nodes' = {} /\ loaded' = TRUE
    /\ kv' = NoEntries /\ memtable' = {}
    /\ fresh' = FALSE /\ writes' = writes + 1
    /\ pc' = "reset"
    /\ UNCHANGED <<later, durable, hnsw_data, pending, restarts, kills>>

(* The tables of all levels go last.                                       *)
ResetTables ==
    /\ pc = "reset" /\ pc' = "run"
    /\ durable' = NoEntries /\ later' = [k \in Key |-> {}]
    /\ UNCHANGED <<kv, memtable, memory, records, dimension, hnsw_data, pending, writes,
                   restarts, kills>>

(* The vectors that search_knn compares: those it finds in memory after it *)
(* has loaded all, of the keys that get finds.                             *)
Compared == {<<k, Loaded[k]>> : k \in {k \in Key : Loaded[k] # None /\ kv[k] # None}}

MaySearch == Idle /\ writes < MaxWrites /\ (LoadsOverNewer \/ embeddings = NoEntries)

(* All vectors are loaded, and after the search saved.                     *)
search_knn ==
    /\ MaySearch
    /\ records' = Appended(Loaded) /\ embeddings' = NoEntries
    /\ writes' = writes + 1
    /\ UNCHANGED <<tree, durable, dimension, hnsw_data, nodes, deleted_nodes, pending,
                   fresh, loaded, pc, restarts, kills>>

(* Clients load at the start.                                              *)
load_embedding_from_disk ==
    /\ Idle /\ fresh
    /\ embeddings' = Loaded
    /\ UNCHANGED <<tree, disk, nodes, deleted_nodes, fresh, loaded, pending, bounds>>

(* What saveToDisk writes: the key of each node and, for those that are    *)
(* marked as deleted, the vector.                                          *)
Saved ==
    [keys    |-> [i \in DOMAIN nodes |-> nodes[i][1]],
     deleted |-> [i \in {j \in DOMAIN nodes : nodes[j] \in deleted_nodes} |-> nodes[i][2]]]

(* A node's vector is looked up by its key, unless it was deleted.         *)
load_hnsw_index_from_disk ==
    /\ Idle /\ fresh /\ ~loaded
    /\ nodes' = [i \in DOMAIN hnsw_data.keys |->
           LET k == hnsw_data.keys[i]
           IN  <<k, IF i \in DOMAIN hnsw_data.deleted THEN hnsw_data.deleted[i]
                    ELSE search_embedding(k)>>]
    /\ deleted_nodes' = {<<hnsw_data.keys[i], hnsw_data.deleted[i]>> : i \in DOMAIN hnsw_data.deleted}
    /\ loaded' = TRUE
    /\ UNCHANGED <<tree, disk, embeddings, fresh, pending, bounds>>

Forget ==
    /\ memtable' = {} /\ pending' = <<>>
    /\ embeddings' = NoEntries /\ nodes' = <<>> /\ deleted_nodes' = {}
    /\ pc' = "down"
    /\ restarts' = restarts + 1
    /\ fresh' = TRUE /\ loaded' = FALSE

(* The destructor saves the vectors, then the index, then the memtable.    *)
CloseVectors ==
    /\ Idle /\ loaded /\ restarts < MaxRestarts
    /\ records' = Appended(embeddings)
    /\ embeddings' = NoEntries
    /\ pc' = "index"
    /\ UNCHANGED <<tree, durable, dimension, hnsw_data, nodes, deleted_nodes, fresh, loaded,
                   pending, writes, restarts, kills>>

CloseIndex ==
    /\ pc = "index" /\ pc' = "tables"
    /\ hnsw_data' = Saved
    /\ UNCHANGED <<tree, memory, durable, records, dimension, pending, writes, restarts, kills>>

CloseTables ==
    /\ pc = "tables"
    /\ SaveTables
    /\ Forget
    /\ UNCHANGED <<kv, records, dimension, hnsw_data, writes, kills>>

Crash ==
    /\ pc # "down" /\ (pc = "reset" => KillsInReset)
    /\ restarts < MaxRestarts /\ kills < MaxKills
    /\ kills' = kills + 1
    /\ Forget
    /\ UNCHANGED <<kv, later, disk, writes>>

(* The constructor leaves the saved index where it is; without one the     *)
(* client has none to load.                                                *)
Open ==
    /\ pc = "down" /\ pc' = "run"
    /\ kv' = durable
    /\ loaded' = (hnsw_data = <<>>)
    /\ UNCHANGED <<memtable, later, disk, embeddings, nodes, deleted_nodes, fresh, pending,
                   writes, restarts, kills>>

Next ==
    \/ \E k \in Key, v \in Value : Put(k, v)
    \/ \E k \in Key : Del(k)
    \/ FlushTables \/ reset \/ ResetTables \/ search_knn
    \/ load_embedding_from_disk \/ load_hnsw_index_from_disk
    \/ CloseVectors \/ CloseIndex \/ CloseTables \/ Crash \/ Open

Spec == Init /\ [][Next]_vars

---------------------------------------------------------------------------
(* Properties.                                                             *)

(* The variables keep their types: the index never has the deletion vector *)
(* for a value.                                                            *)
TypeOK ==
    /\ kv \in [Key -> Value \cup {None}] /\ durable \in [Key -> Value \cup {None}]
    /\ memtable \subseteq Key /\ later \in [Key -> SUBSET (Value \cup {MaxVec})]
    /\ embeddings \in [Key -> Vec]
    /\ records \in Seq(Key \X (Value \cup {MaxVec})) /\ dimension \in BOOLEAN
    /\ nodes \in Seq(Pair)
    /\ deleted_nodes \subseteq Key \X Value
    /\ hnsw_data # <<>> =>
           /\ hnsw_data.keys \in Seq(Key)
           /\ DOMAIN hnsw_data.deleted \subseteq DOMAIN hnsw_data.keys
           /\ \A i \in DOMAIN hnsw_data.deleted : hnsw_data.deleted[i] \in Value
    /\ pending = <<>> \/ pending \in Key \X (Value \cup {None})
    /\ fresh \in BOOLEAN /\ loaded \in BOOLEAN /\ pc \in {"run", "reset", "index", "tables", "down"}
    /\ writes \in 0..MaxWrites /\ restarts \in 0..MaxRestarts /\ kills \in 0..MaxKills

(* What get will return when the call under way is done.                   *)
Current == IF pending = <<>> THEN kv ELSE [kv EXCEPT ![pending[1]] = pending[2]]

PairsOf(values) == {<<k, values[k]>> : k \in {j \in Key : values[j] # None}}

(* The pairs of the index that are not marked as deleted are those of the  *)
(* store, each in one node, over adds, updates, restores and deletions in  *)
(* any order, saving and loading included; before a kill                   *)
(* (kvstore.cc:86-129, 899-984, HNSW.cpp:301-439).                         *)
IndexIsStore ==
    pc # "down" /\ loaded /\ kills = 0 =>
        /\ ToSet(nodes) \ deleted_nodes = PairsOf(Current)
        /\ \A i, j \in DOMAIN nodes : nodes[i] = nodes[j] => i = j

(* The vectors that fit a value: its own, or, if there is none, the        *)
(* deletion vector or nothing.                                             *)
VectorsFor(v) == IF v = None THEN {MaxVec, None} ELSE {v}

FoundIsCurrent == \A k \in Key : search_embedding(k) \in VectorsFor(Current[k])

ComparedIsCurrent ==
    MaySearch /\ dimension => Compared = PairsOf(kv)

(* The vector found for a key, in memory or in the file, is that of its    *)
(* value, and for a deleted key the deletion vector or none; and what      *)
(* search_knn compares are the live pairs, all of them, if the file has    *)
(* its dimension, which only reset writes; before a kill                   *)
(* (kvstore.cc:698-717, 749-854; Phase3.md: the last record of a key is    *)
(* its vector).                                                            *)
EmbeddingIsCurrent == pc # "down" /\ kills = 0 => FoundIsCurrent /\ ComparedIsCurrent

(* Wherever the process is killed but within reset, the last record of a   *)
(* key in the file fits the value that a table has, or is of a later write *)
(* of the key, which the kill may take back; it is never missing and never *)
(* that of an older write.  For that the vectors are saved before the      *)
(* tables (kvstore.cc:63-76, 139-153); reset goes the other way round      *)
(* (kvstore.cc:230-248).                                                   *)
DurableHasVector ==
    pc # "reset" => \A k \in Key : InFile(k) \in VectorsFor(durable[k]) \cup later[k]
---------------------------------------------------------------------------
(* The inductive invariant of VectorStoreProofs, in parts.                 *)

(* Where the calls are: a flush and the steps of the destructor find the   *)
(* vectors saved and the index loaded; without an index of its own the     *)
(* process has a saved one to load.                                        *)
Places ==
    /\ pending # <<>> => pc = "run"
    /\ pending # <<>> \/ pc # "run" => embeddings = NoEntries
    /\ pc \in {"index", "tables"} => loaded /\ restarts < MaxRestarts
    /\ pc = "down" => ~loaded
    /\ ~loaded => pending = <<>>
    /\ pc # "down" /\ ~loaded => hnsw_data # <<>>

(* Without a kill in reset: what is written and in no table yet has its    *)
(* vector in memory or in the file; the other keys have nothing in memory  *)
(* that is not in the file, and their durable value.                       *)
VectorsKept ==
    /\ DurableHasVector
    /\ fresh \/ pc = "down" => memtable = {} /\ pending = <<>>
    /\ pc = "reset" => kv = NoEntries /\ memtable = {} /\ records = <<>>
    /\ pending # <<>> =>
           /\ InFile(pending[1]) = Vector(pending[2])
           /\ Vector(pending[2]) \in later[pending[1]]
    /\ pc \notin {"down", "reset"} => \A k \in Key :
           IF k \in memtable
           THEN /\ Vector(kv[k]) \in later[k]
                /\ pending = <<>> \/ k # pending[1] => search_embedding(k) = Vector(kv[k])
           ELSE embeddings[k] \in {None, InFile(k)} /\ kv[k] = durable[k]

(* Before a kill: the vectors are those of the values, at the start of a   *)
(* process those in memory are the file's, and a shutdown loses no value.  *)
VectorsCurrent ==
    kills = 0 =>
        /\ FoundIsCurrent
        /\ fresh => \A k \in Key : embeddings[k] \in {None, InFile(k)}
        /\ pc = "down" => durable = kv

(* The index ns with the deleted pairs ds is one of the given values.      *)
IndexOf(ns, ds, values) ==
    /\ ToSet(ns) \ ds = PairsOf(values)
    /\ \A i, j \in DOMAIN ns : ns[i] = ns[j] => i = j
    /\ ds \subseteq ToSet(ns)

(* What loading makes of the saved index if the vectors are these.         *)
NodesFrom(vectors) ==
    [i \in DOMAIN hnsw_data.keys |->
        LET k == hnsw_data.keys[i]
        IN  <<k, IF i \in DOMAIN hnsw_data.deleted THEN hnsw_data.deleted[i] ELSE vectors[k]>>]

DeletedFrom ==
    {<<hnsw_data.keys[i], hnsw_data.deleted[i]>> : i \in DOMAIN hnsw_data.deleted}

(* Before a kill: the index in memory is that of the values, and so is the *)
(* saved one from its saving to its loading.                               *)
IndexCurrent ==
    kills = 0 =>
        /\ pc # "down" /\ loaded => IndexOf(nodes, deleted_nodes, Current)
        /\ pc = "tables" \/ ~loaded =>
               hnsw_data # <<>> /\ IndexOf(NodesFrom(kv), DeletedFrom, kv)

VectorsInv == TypeOK /\ Places /\ VectorsCurrent /\ IndexCurrent
=============================================================================
