------------------------- MODULE VectorStoreProofs -------------------------
(***************************************************************************)
(* Theorems about VectorStore for any finite set of keys, any values and   *)
(* any number of writes, restarts and kills: the variables keep their      *)
(* types.  As long as search_knn finds no new vectors in memory: before a  *)
(* kill the vector of a key is that of its value and the index is the      *)
(* store's pairs; and without a kill within reset the last record of a key *)
(* fits its durable value or is of a later write.                          *)
(***************************************************************************)
EXTENDS VectorStore, FiniteSetTheorems, WellFoundedInduction, TLAPS

(* A finite set of numbers that is not empty has a largest one.            *)
LEMMA LargestExists ==
    ASSUME NEW S \in SUBSET Nat, IsFiniteSet(S), S # {}
    PROVE  \E m \in S : \A n \in S : n <= m
<1> DEFINE UpTo(n) == {m \in S : n <= m}
           T     == {UpTo(n) : n \in S}
<1>1. T \subseteq FiniteSubsetsOf(S) /\ T # {}
  <2>1. \A n \in S : UpTo(n) \subseteq S /\ IsFiniteSet(UpTo(n))
    BY FS_Subset
  <2> QED
    BY <2>1 DEF FiniteSubsetsOf
<1>2. PICK U \in T : \A V \in T : ~(<<V, U>> \in StrictSubsetOrdering(S))
  <2> HIDE DEF T
  <2> DEFINE R == StrictSubsetOrdering(S)
             F == FiniteSubsetsOf(S)
  <2>1. IsWellFoundedOn(R, F)
    BY FS_StrictSubsetOrderingWellFounded
  <2>2. T \subseteq F
    BY <1>1
  <2> HIDE DEF R, F
  <2>3. \E U \in T : \A V \in T : ~(<<V, U>> \in R)
    BY <1>1, <2>1, <2>2, WFMin
  <2> QED
    BY <2>3 DEF R
<1>3. PICK m \in S : U = UpTo(m)
  BY <1>2
<1>4. ASSUME NEW n \in S, ~(n <= m) PROVE FALSE
  <2>1. UpTo(n) \subseteq UpTo(m) /\ m \in UpTo(m) /\ m \notin UpTo(n)
    <3>1. \A k \in S : n <= k => m <= k
      <4>1. n \in Nat /\ m \in Nat /\ \A k \in S : k \in Nat
        OBVIOUS
      <4> QED
        BY <1>4, <4>1
    <3>2. m <= m
      OBVIOUS
    <3> QED
      BY <1>4, <3>1, <3>2
  <2>2. <<UpTo(n), UpTo(m)>> \in StrictSubsetOrdering(S)
    BY <2>1 DEF StrictSubsetOrdering
  <2> QED
    BY <1>2, <1>3, <2>2
<1> QED
  BY <1>4

(* SetToSeq lists the elements of a finite set, each once.                 *)
LEMMA SetToSeqLists ==
    ASSUME NEW S, IsFiniteSet(S)
    PROVE  /\ SetToSeq(S) \in Seq(S)
           /\ \A x \in S : \E i \in DOMAIN SetToSeq(S) : SetToSeq(S)[i] = x
           /\ \A i, j \in DOMAIN SetToSeq(S) : SetToSeq(S)[i] = SetToSeq(S)[j] => i = j
<1> DEFINE n == Cardinality(S)
<1>1. n \in Nat /\ ExistsBijection(1..n, S)
  BY FS_CardinalityType
<1>2. \E f \in [1..n -> S] : IsInjective(f)
  BY <1>1 DEF ExistsBijection, Bijection, Injection, IsInjective
<1> DEFINE s == SetToSeq(S)
<1>3. s \in [1..n -> S] /\ IsInjective(s)
  BY <1>2 DEF SetToSeq
<1>4. s \in Injection(1..n, S)
  BY <1>3 DEF Injection
<1>5. IsFiniteSet(1..n) /\ Cardinality(1..n) = n
  BY <1>1, FS_Interval
<1>6. s \in Surjection(1..n, S)
  BY <1>4, <1>5, FS_Injection
<1>7. s \in Seq(S) /\ DOMAIN s = 1..n
  BY <1>1, <1>3
<1> QED
  BY <1>3, <1>6, <1>7 DEF Surjection, IsInjective


(* The records of a key are finitely many, so one is the last.             *)
LEMMA LastExists ==
    ASSUME TypeOK, NEW k \in Key, RecordsOf(k) # {}
    PROVE  \E i \in RecordsOf(k) : \A j \in RecordsOf(k) : i >= j
<1>1. records \in Seq(Key \X (Value \cup {MaxVec})) /\ RecordsOf(k) \subseteq 1..Len(records)
  BY DEF TypeOK, RecordsOf
<1>2. RecordsOf(k) \in SUBSET Nat /\ IsFiniteSet(RecordsOf(k))
  <2>1. Len(records) \in Nat
    BY <1>1
  <2>2. IsFiniteSet(1..Len(records))
    BY <2>1, FS_Interval
  <2> QED
    BY <1>1, <2>1, <2>2, FS_Subset
<1>3. PICK m \in RecordsOf(k) : \A j \in RecordsOf(k) : j <= m
  BY <1>2, LargestExists
<1> QED
  BY <1>2, <1>3

LEMMA LastRecord ==
    ASSUME TypeOK, NEW k \in Key, RecordsOf(k) # {}
    PROVE  InFile(k) \in Value \cup {MaxVec} /\ InFile(k) # None
<1>1. records \in Seq(Key \X (Value \cup {MaxVec})) /\ RecordsOf(k) \subseteq DOMAIN records
  BY DEF TypeOK, RecordsOf
<1>2. PICK i \in RecordsOf(k) : InFile(k) = records[i][2]
  BY LastExists DEF InFile
<1>3. records[i][2] \in Value \cup {MaxVec}
  BY <1>1
<1> QED
  BY <1>2, <1>3, VectorsAssumption

LEMMA InFileType ==
    ASSUME TypeOK, NEW k \in Key
    PROVE  /\ InFile(k) \in Vec
           /\ InFile(k) = None <=> RecordsOf(k) = {}
           /\ search_embedding(k) \in Vec
<1>1. InFile(k) \in Vec /\ (InFile(k) = None <=> RecordsOf(k) = {})
  <2>1. CASE RecordsOf(k) = {}
    BY <2>1 DEF InFile, Vec
  <2>2. CASE RecordsOf(k) # {}
    BY <2>2, LastRecord DEF Vec
  <2> QED
    BY <2>1, <2>2
<1> QED
  BY <1>1 DEF search_embedding, TypeOK, Vec

(* A file with vectors appended: each vector is the last record of its     *)
(* key, and the other keys keep theirs.                                    *)
LEMMA AppendedVectors ==
    ASSUME TypeOK, NEW vectors \in [Key -> Vec], records' = Appended(vectors)
    PROVE  /\ records' \in Seq(Key \X (Value \cup {MaxVec}))
           /\ \A k \in Key :
                  /\ InFile(k)' = IF vectors[k] # None THEN vectors[k] ELSE InFile(k)
                  /\ RecordsOf(k)' = {} <=> vectors[k] = None /\ RecordsOf(k) = {}
<1> DEFINE S   == {k \in Key : vectors[k] # None}
           ks  == SetToSeq(S)
           add == [i \in DOMAIN ks |-> <<ks[i], vectors[ks[i]]>>]
           n   == Len(records)
           m   == Len(ks)
<1>1. /\ ks \in Seq(S) /\ \A k \in S : \E i \in DOMAIN ks : ks[i] = k
      /\ \A i, j \in DOMAIN ks : ks[i] = ks[j] => i = j
  <2>1. IsFiniteSet(S)
    BY VectorsAssumption, FS_Subset
  <2> HIDE DEF S
  <2> QED
    BY <2>1, SetToSeqLists
<1>2. records' = records \o add
  BY DEF Appended
<1> HIDE DEF ks
<1>3. records \in Seq(Key \X (Value \cup {MaxVec})) /\ n \in Nat /\ m \in Nat /\ DOMAIN ks = 1..m
  BY <1>1 DEF TypeOK
<1>4. add \in Seq(Key \X (Value \cup {MaxVec})) /\ Len(add) = m
  <2>1. \A i \in 1..m : ks[i] \in S
    BY <1>1, <1>3
  <2>2. \A i \in 1..m : add[i] \in Key \X (Value \cup {MaxVec})
    BY <2>1, <1>3 DEF Vec
  <2> QED
    BY <2>2, <1>3
<1>5. /\ records' \in Seq(Key \X (Value \cup {MaxVec})) /\ Len(records') = n + m
      /\ DOMAIN records' = 1..(n + m) /\ DOMAIN records = 1..n
      /\ \A i \in 1..n : records'[i] = records[i]
      /\ \A i \in 1..m : records'[n + i] = <<ks[i], vectors[ks[i]]>>
  <2>1. Len(records') = n + m /\ records' \in Seq(Key \X (Value \cup {MaxVec}))
    BY <1>2, <1>3, <1>4
  <2>2. \A i \in 1..n : records'[i] = records[i]
    BY <1>2, <1>3, <1>4
  <2>3. \A i \in 1..m : records'[n + i] = add[i]
    BY <1>2, <1>3, <1>4
  <2> QED
    BY <2>1, <2>2, <2>3, <1>3
<1> HIDE DEF add, n, m
<1>6. ASSUME NEW k \in Key, vectors[k] # None
      PROVE  InFile(k)' = vectors[k] /\ RecordsOf(k)' # {}
  <2>1. PICK i \in 1..m : ks[i] = k
    BY <1>1, <1>3, <1>6
  <2> DEFINE last == n + i
  <2>2. last \in RecordsOf(k)'
    BY <2>1, <1>3, <1>5 DEF RecordsOf
  <2>3. \A j \in RecordsOf(k)' : j <= last /\ j \in Nat
    <3> SUFFICES ASSUME NEW j \in RecordsOf(k)' PROVE j <= last /\ j \in Nat
      OBVIOUS
    <3>1. j \in 1..(n + m) /\ records'[j][1] = k
      BY <1>5 DEF RecordsOf
    <3>2. CASE j <= n
      BY <3>1, <3>2, <1>3, <2>1
    <3>3. CASE j > n
      <4>1. j - n \in 1..m /\ j = n + (j - n)
        BY <3>1, <3>3, <1>3
      <4>2. ks[j - n] = k
        BY <3>1, <4>1, <1>5
      <4>3. j - n = i
        BY <4>1, <4>2, <2>1, <1>1, <1>3
      <4> QED
        BY <4>3, <4>1, <3>1, <1>3
    <3> QED
      BY <3>1, <3>2, <3>3, <1>3
  <2>4. last \in Nat
    BY <2>1, <1>3
  <2> HIDE DEF last
  <2>5. \A j \in RecordsOf(k)' : (\A l \in RecordsOf(k)' : j >= l) <=> j = last
    BY <2>2, <2>3, <2>4
  <2>6. InFile(k)' = records'[last][2]
    <3>1. InFile(k)' = records'[CHOOSE j \in RecordsOf(k)' : \A l \in RecordsOf(k)' : j >= l][2]
      BY <2>2 DEF InFile
    <3>2. (CHOOSE j \in RecordsOf(k)' : \A l \in RecordsOf(k)' : j >= l) = last
      BY <2>2, <2>5
    <3> QED
      BY <3>1, <3>2
  <2> QED
    BY <2>6, <2>2, <2>1, <1>5 DEF last
<1>7. ASSUME NEW k \in Key, vectors[k] = None
      PROVE  InFile(k)' = InFile(k) /\ RecordsOf(k)' = RecordsOf(k)
  <2>1. \A j \in 1..m : ks[j] # k
    BY <1>1, <1>3, <1>7
  <2>2. \A j \in 1..(n + m) : records'[j][1] = k => j \in 1..n
    <3> SUFFICES ASSUME NEW j \in 1..(n + m), records'[j][1] = k, j > n PROVE FALSE
      BY <1>3
    <3>1. j - n \in 1..m /\ j = n + (j - n)
      BY <1>3
    <3> QED
      BY <3>1, <2>1, <1>5
  <2>3. RecordsOf(k)' = RecordsOf(k)
    <3>1. \A j : j \in RecordsOf(k)' <=> j \in 1..(n + m) /\ records'[j][1] = k
      BY <1>5 DEF RecordsOf
    <3>2. \A j : j \in RecordsOf(k) <=> j \in 1..n /\ records[j][1] = k
      BY <1>5 DEF RecordsOf
    <3>3. 1..n \subseteq 1..(n + m)
      BY <1>3
    <3>4. \A j \in 1..n : records'[j][1] = records[j][1]
      BY <1>5
    <3>5. \A j : j \in RecordsOf(k)' <=> j \in RecordsOf(k)
      BY <3>1, <3>2, <3>3, <3>4, <2>2
    <3> QED
      BY <3>5
  <2>4. \A j \in RecordsOf(k) : records'[j] = records[j]
    BY <1>5 DEF RecordsOf
  <2>5. CASE RecordsOf(k) = {}
    BY <2>3, <2>5 DEF InFile
  <2>6. CASE RecordsOf(k) # {}
    <3> DEFINE last == CHOOSE j \in RecordsOf(k) : \A l \in RecordsOf(k) : j >= l
    <3>1. last \in RecordsOf(k)
      BY <2>6, LastExists
    <3>2. InFile(k)' = records'[last][2]
      BY <2>3, <2>6 DEF InFile
    <3>3. InFile(k) = records[last][2]
      BY <2>6 DEF InFile
    <3> QED
      BY <3>1, <3>2, <3>3, <2>3, <2>4
  <2> QED
    BY <2>3, <2>5, <2>6
<1> QED
  BY <1>5, <1>6, <1>7

(* The memory after loading.                                               *)
LEMMA LoadedType ==
    ASSUME TypeOK
    PROVE  /\ Loaded \in [Key -> Vec]
           /\ \A k \in Key : Loaded[k] = None =>
                  embeddings[k] = None /\ (dimension => RecordsOf(k) = {})
<1>1. \A k \in Key : InFile(k) \in Vec /\ embeddings[k] \in Vec
  BY InFileType DEF TypeOK
<1>2. \A k \in Key : Loaded[k] = IF dimension /\ RecordsOf(k) # {} THEN InFile(k) ELSE embeddings[k]
  BY DEF Loaded
<1>3. Loaded \in [Key -> Vec]
  BY <1>1 DEF Loaded
<1> QED
  BY <1>2, <1>3, InFileType

---------------------------------------------------------------------------
(* Types and places.                                                       *)

(* TypeOK in three parts.                                                  *)
StoreTypes ==
    /\ kv \in [Key -> Value \cup {None}] /\ durable \in [Key -> Value \cup {None}]
    /\ memtable \subseteq Key /\ later \in [Key -> SUBSET (Value \cup {MaxVec})]
    /\ embeddings \in [Key -> Vec]
    /\ records \in Seq(Key \X (Value \cup {MaxVec})) /\ dimension \in BOOLEAN
    /\ pending = <<>> \/ pending \in Key \X (Value \cup {None})

IndexTypes ==
    /\ nodes \in Seq(Pair)
    /\ deleted_nodes \subseteq Key \X Value
    /\ hnsw_data # <<>> =>
           /\ hnsw_data.keys \in Seq(Key)
           /\ DOMAIN hnsw_data.deleted \subseteq DOMAIN hnsw_data.keys
           /\ \A i \in DOMAIN hnsw_data.deleted : hnsw_data.deleted[i] \in Value

FlagTypes ==
    fresh \in BOOLEAN /\ loaded \in BOOLEAN /\ pc \in {"run", "reset", "index", "tables", "down"}

CountTypes ==
    /\ writes \in 0..MaxWrites /\ restarts \in 0..MaxRestarts /\ kills \in 0..MaxKills

LEMMA TypeParts ==
    /\ TypeOK <=> StoreTypes /\ IndexTypes /\ FlagTypes /\ CountTypes
    /\ TypeOK' <=> StoreTypes' /\ IndexTypes' /\ FlagTypes' /\ CountTypes'
BY DEF TypeOK, StoreTypes, IndexTypes, FlagTypes, CountTypes

LEMMA InitTyped == Init => TypeOK /\ Places
<1> SUFFICES ASSUME Init PROVE TypeOK /\ Places
  OBVIOUS
<1> USE DEF Init
<1>1. StoreTypes
  <2>1. records = <<>> /\ <<>> \in Seq(Key \X (Value \cup {MaxVec}))
    OBVIOUS
  <2> QED
    BY <2>1 DEF StoreTypes, NoEntries, Vec
<1>2. IndexTypes
  BY DEF IndexTypes
<1>3. FlagTypes /\ CountTypes
  BY VectorBoundsAssumption DEF FlagTypes, CountTypes
<1>4. Places
  BY DEF Places
<1> QED
  BY <1>1, <1>2, <1>3, <1>4, TypeParts

(* The two ways to put an entry away, with the vectors in memory after it. *)
LEMMA StoreCases ==
    ASSUME TypeOK, NEW k \in Key, NEW v \in Value \cup {None}, NEW vectors,
           vectors = [embeddings EXCEPT ![k] = Vector(v)], Store(k, v)
    PROVE  /\ vectors \in [Key -> Vec] /\ vectors[k] = Vector(v) /\ vectors[k] # None
           /\ \A j \in Key \ {k} : vectors[j] = embeddings[j]
           /\ later' = [later EXCEPT ![k] = @ \cup {Vector(v)}]
           /\ \/ /\ kv' = [kv EXCEPT ![k] = v] /\ memtable' = memtable \cup {k}
                 /\ embeddings' = vectors
                 /\ UNCHANGED <<disk, pending>>
              \/ /\ pending' = <<k, v>>
                 /\ records' = Appended(vectors) /\ embeddings' = NoEntries
                 /\ UNCHANGED <<kv, memtable, durable, dimension, hnsw_data>>
<1>1. Vector(v) \in Vec /\ Vector(v) # None
  BY VectorsAssumption DEF Vector, Vec
<1> QED
  BY <1>1 DEF Store, TypeOK

(* Putting an entry away keeps the types of what it changes.               *)
LEMMA StoreTyped ==
    ASSUME TypeOK, NEW k \in Key, NEW v \in Value \cup {None}, Store(k, v)
    PROVE  /\ kv' \in [Key -> Value \cup {None}] /\ embeddings' \in [Key -> Vec]
           /\ memtable' \subseteq Key /\ later' \in [Key -> SUBSET (Value \cup {MaxVec})]
           /\ records' \in Seq(Key \X (Value \cup {MaxVec}))
           /\ pending' = pending \/ pending' = <<k, v>>
           /\ pending' # <<>> => pending' = pending \/ embeddings' = NoEntries
           /\ UNCHANGED <<durable, dimension, hnsw_data>>
<1> DEFINE vectors == [embeddings EXCEPT ![k] = Vector(v)]
<1>1. /\ vectors \in [Key -> Vec]
      /\ later' = [later EXCEPT ![k] = @ \cup {Vector(v)}]
      /\ \/ /\ kv' = [kv EXCEPT ![k] = v] /\ memtable' = memtable \cup {k}
            /\ embeddings' = vectors
            /\ UNCHANGED <<disk, pending>>
         \/ /\ pending' = <<k, v>>
            /\ records' = Appended(vectors) /\ embeddings' = NoEntries
            /\ UNCHANGED <<kv, memtable, durable, dimension, hnsw_data>>
  BY StoreCases
<1> HIDE DEF vectors
<1>2. later' \in [Key -> SUBSET (Value \cup {MaxVec})]
  BY <1>1 DEF TypeOK, Vector
<1>3. CASE /\ kv' = [kv EXCEPT ![k] = v] /\ memtable' = memtable \cup {k}
           /\ embeddings' = vectors /\ UNCHANGED <<disk, pending>>
  BY <1>1, <1>2, <1>3 DEF TypeOK, disk
<1>4. CASE /\ pending' = <<k, v>> /\ records' = Appended(vectors) /\ embeddings' = NoEntries
           /\ UNCHANGED <<kv, memtable, durable, dimension, hnsw_data>>
  BY <1>1, <1>2, <1>4, AppendedVectors DEF TypeOK, NoEntries, Vec
<1> QED
  BY <1>1, <1>3, <1>4

(* Saving the tables keeps the types of what it changes.                   *)
LEMMA SavedTyped ==
    ASSUME TypeOK, SaveTables
    PROVE  later' \in [Key -> SUBSET (Value \cup {MaxVec})]
<1>1. pending # <<>> => Vector(pending[2]) \in Value \cup {MaxVec}
  BY DEF TypeOK, Vector
<1> DEFINE L(k) == IF k \notin memtable THEN later[k]
                   ELSE IF pending # <<>> /\ k = pending[1] THEN {Vector(pending[2])} ELSE {}
<1>2. \A k \in Key : L(k) \in SUBSET (Value \cup {MaxVec})
  BY <1>1 DEF TypeOK
<1>3. later' = [k \in Key |-> L(k)]
  BY DEF SaveTables
<1> HIDE DEF L
<1> QED
  BY <1>2, <1>3

(* Every step keeps the types and the places.                              *)
LEMMA TypedStep ==
    ASSUME TypeOK, Places, [Next]_vars
    PROVE  TypeOK' /\ Places'
<1> USE VectorsAssumption, VectorBoundsAssumption DEF tree
<1>1. ASSUME NEW k \in Key, NEW v \in Value, Put(k, v)
      PROVE  TypeOK' /\ Places'
  <2>1. MayWrite /\ IndexPut(k, v) /\ Wrote /\ Store(k, v)
    BY <1>1 DEF Put
  <2>3. /\ kv' \in [Key -> Value \cup {None}] /\ embeddings' \in [Key -> Vec]
        /\ memtable' \subseteq Key /\ later' \in [Key -> SUBSET (Value \cup {MaxVec})]
        /\ records' \in Seq(Key \X (Value \cup {MaxVec}))
        /\ pending' = pending \/ pending' = <<k, v>>
        /\ pending' # <<>> => pending' = pending \/ embeddings' = NoEntries
        /\ UNCHANGED <<durable, dimension, hnsw_data>>
    BY <2>1, StoreTyped
  <2>4. pending = <<>> /\ pc = "run" /\ loaded /\ writes < MaxWrites
    BY <2>1 DEF MayWrite, Idle
  <2>5. deleted_nodes' \subseteq Key \X Value /\ nodes' \in Seq(Pair)
    <3>1. kv[k] \in Value \cup {None} /\ <<k, v>> \in Pair
      BY DEF TypeOK, Pair, Vec
    <3>2. nodes' = nodes \/ nodes' = Append(nodes, <<k, v>>)
      BY <2>1 DEF IndexPut
    <3>3. \A x \in deleted_nodes' : x \in deleted_nodes \/ (x = <<k, kv[k]>> /\ kv[k] # None)
      BY <2>1 DEF IndexPut
    <3>4. nodes' \in Seq(Pair)
      <4> DEFINE e == <<k, v>>
      <4>1. e \in Pair /\ (nodes' = nodes \/ nodes' = Append(nodes, e))
        BY <3>1, <3>2
      <4> HIDE DEF e
      <4> QED
        BY <4>1, TypeParts DEF IndexTypes
    <3>5. \A x \in deleted_nodes' : x \in Key \X Value
      BY <3>1, <3>3 DEF TypeOK
    <3> QED
      BY <3>4, <3>5
  <2>6. /\ writes' = writes + 1 /\ fresh' = FALSE
        /\ UNCHANGED <<loaded, pc, restarts, kills>>
    BY <2>1 DEF Wrote
  <2>7. TypeOK'
    <3>1. StoreTypes'
      BY <2>3, <2>4, <2>5, <2>6, TypeParts DEF StoreTypes
    <3>2. IndexTypes'
      BY <2>3, <2>4, <2>5, <2>6, TypeParts DEF IndexTypes
    <3>3. FlagTypes'
      BY <2>3, <2>4, <2>5, <2>6, TypeParts DEF FlagTypes
    <3>4. CountTypes'
      BY <2>3, <2>4, <2>5, <2>6, TypeParts DEF CountTypes
    <3> QED
      BY <3>1, <3>2, <3>3, <3>4, TypeParts
  <2> QED
    BY <2>3, <2>4, <2>6, <2>7 DEF Places
<1>2. ASSUME NEW k \in Key, Del(k)
      PROVE  TypeOK' /\ Places'
  <2>1. /\ MayWrite /\ kv[k] # None /\ Wrote /\ Store(k, None)
        /\ deleted_nodes' = deleted_nodes \cup {<<k, kv[k]>>} /\ UNCHANGED nodes
    BY <1>2 DEF Del
  <2>3. /\ kv' \in [Key -> Value \cup {None}] /\ embeddings' \in [Key -> Vec]
        /\ memtable' \subseteq Key /\ later' \in [Key -> SUBSET (Value \cup {MaxVec})]
        /\ records' \in Seq(Key \X (Value \cup {MaxVec}))
        /\ pending' = pending \/ pending' = <<k, None>>
        /\ pending' # <<>> => pending' = pending \/ embeddings' = NoEntries
        /\ UNCHANGED <<durable, dimension, hnsw_data>>
    BY <2>1, StoreTyped
  <2>4. pending = <<>> /\ pc = "run" /\ loaded /\ writes < MaxWrites
    BY <2>1 DEF MayWrite, Idle
  <2>5. deleted_nodes' \subseteq Key \X Value
    BY <2>1 DEF TypeOK
  <2>6. /\ writes' = writes + 1 /\ fresh' = FALSE
        /\ UNCHANGED <<loaded, pc, restarts, kills>>
    BY <2>1 DEF Wrote
  <2>7. TypeOK'
    <3>1. StoreTypes'
      BY <2>1, <2>3, <2>4, <2>5, <2>6, TypeParts DEF StoreTypes
    <3>2. IndexTypes'
      BY <2>1, <2>3, <2>4, <2>5, <2>6, TypeParts DEF IndexTypes
    <3>3. FlagTypes'
      BY <2>1, <2>3, <2>4, <2>5, <2>6, TypeParts DEF FlagTypes
    <3>4. CountTypes'
      BY <2>1, <2>3, <2>4, <2>5, <2>6, TypeParts DEF CountTypes
    <3> QED
      BY <3>1, <3>2, <3>3, <3>4, TypeParts
  <2> QED
    BY <2>3, <2>4, <2>6, <2>7 DEF Places
<1>3. CASE FlushTables
  <2>1. kv' \in [Key -> Value \cup {None}] /\ durable' = kv /\ memtable' \subseteq Key
    BY <1>3 DEF FlushTables, SaveTables, TypeOK
  <2>2. later' \in [Key -> SUBSET (Value \cup {MaxVec})]
    BY <1>3, SavedTyped DEF FlushTables
  <2>3. TypeOK'
    BY <1>3, <2>1, <2>2 DEF FlushTables, TypeOK, memory, bounds
  <2> QED
    BY <1>3, <2>3 DEF FlushTables, Places, memory, bounds
<1>4. CASE reset
  <2>1. TypeOK'
    <3>1. StoreTypes'
      BY <1>4, TypeParts DEF StoreTypes, reset, NoEntries, Vec
    <3>2. IndexTypes'
      BY <1>4, TypeParts DEF IndexTypes, reset, NoEntries, Vec
    <3>3. FlagTypes'
      BY <1>4, TypeParts DEF FlagTypes, reset, NoEntries, Vec
    <3>4. CountTypes'
      BY <1>4, TypeParts DEF CountTypes, reset, NoEntries, Vec
    <3> QED
      BY <3>1, <3>2, <3>3, <3>4, TypeParts
  <2> QED
    BY <1>4, <2>1 DEF reset, Places, Idle
<1>5. CASE search_knn
  <2>1. Loaded \in [Key -> Vec]
    BY LoadedType
  <2>2. records' \in Seq(Key \X (Value \cup {MaxVec}))
    BY <1>5, <2>1, AppendedVectors DEF search_knn
  <2>3. TypeOK'
    BY <1>5, <2>2 DEF search_knn, MaySearch, TypeOK, NoEntries, Vec
  <2> QED
    BY <1>5, <2>3 DEF search_knn, MaySearch, Idle, Places
<1>6. CASE load_embedding_from_disk
  <2>1. Loaded \in [Key -> Vec]
    BY LoadedType
  <2>2. TypeOK'
    BY <1>6, <2>1 DEF load_embedding_from_disk, TypeOK, disk, bounds
  <2> QED
    BY <1>6, <2>2 DEF load_embedding_from_disk, Idle, Places, disk, bounds
<1>7. CASE load_hnsw_index_from_disk
  <2>1. Idle /\ ~loaded /\ hnsw_data # <<>>
    BY <1>7 DEF load_hnsw_index_from_disk, Idle, Places
  <2>2. /\ hnsw_data.keys \in Seq(Key) /\ DOMAIN hnsw_data.deleted \subseteq DOMAIN hnsw_data.keys
        /\ \A i \in DOMAIN hnsw_data.deleted : hnsw_data.deleted[i] \in Value
    BY <2>1 DEF TypeOK
  <2>3. \A k \in Key : search_embedding(k) \in Vec
    BY InFileType
  <2>4. nodes' \in Seq(Pair)
    <3> DEFINE N(i) == <<hnsw_data.keys[i], IF i \in DOMAIN hnsw_data.deleted
                             THEN hnsw_data.deleted[i] ELSE search_embedding(hnsw_data.keys[i])>>
    <3>1. nodes' = [i \in DOMAIN hnsw_data.keys |-> N(i)]
      BY <1>7 DEF load_hnsw_index_from_disk
    <3>2. \A i \in DOMAIN hnsw_data.keys : N(i) \in Pair
      BY <2>2, <2>3 DEF Pair, Vec
    <3>3. DOMAIN hnsw_data.keys = 1..Len(hnsw_data.keys) /\ Len(hnsw_data.keys) \in Nat
      BY <2>2
    <3> HIDE DEF N
    <3> QED
      BY <3>1, <3>2, <3>3
  <2>5. deleted_nodes' \subseteq Key \X Value
    BY <1>7, <2>2 DEF load_hnsw_index_from_disk
  <2>6. TypeOK'
    BY <1>7, <2>4, <2>5 DEF load_hnsw_index_from_disk, TypeOK, disk, bounds
  <2> QED
    BY <1>7, <2>6 DEF load_hnsw_index_from_disk, Idle, Places, disk, bounds
<1>8. CASE CloseVectors
  <2>1. records' \in Seq(Key \X (Value \cup {MaxVec}))
    BY <1>8, AppendedVectors DEF CloseVectors, TypeOK
  <2>2. TypeOK'
    BY <1>8, <2>1 DEF CloseVectors, TypeOK, NoEntries, Vec
  <2> QED
    BY <1>8, <2>2 DEF CloseVectors, Idle, Places
<1>9. CASE CloseIndex
  <2>1. nodes \in Seq(Pair) /\ Saved.keys = [i \in DOMAIN nodes |-> nodes[i][1]]
        /\ Saved.deleted = [i \in {j \in DOMAIN nodes : nodes[j] \in deleted_nodes} |-> nodes[i][2]]
    BY DEF TypeOK, Saved
  <2>2. Saved.keys \in Seq(Key) /\ DOMAIN Saved.keys = DOMAIN nodes
    <3>1. \A i \in DOMAIN nodes : nodes[i][1] \in Key
      BY <2>1 DEF Pair
    <3> QED
      BY <2>1, <3>1
  <2>3. /\ DOMAIN Saved.deleted \subseteq DOMAIN Saved.keys
        /\ \A i \in DOMAIN Saved.deleted : Saved.deleted[i] \in Value
    BY <2>1, <2>2 DEF TypeOK
  <2>4. TypeOK'
    BY <1>9, <2>2, <2>3 DEF CloseIndex, TypeOK, memory
  <2> QED
    BY <1>9, <2>4 DEF CloseIndex, Places, memory
<1>10. CASE CloseTables
  <2>1. TypeOK'
    <3>1. StoreTypes'
      BY <1>10, SavedTyped, TypeParts
      DEF StoreTypes, CloseTables, SaveTables, Forget, Places, NoEntries, Vec
    <3>2. IndexTypes'
      BY <1>10, TypeParts DEF IndexTypes, CloseTables, Forget, Places, NoEntries, Vec
    <3>3. FlagTypes'
      BY <1>10, TypeParts DEF FlagTypes, CloseTables, Forget, Places, NoEntries, Vec
    <3>4. CountTypes'
      BY <1>10, TypeParts DEF CountTypes, CloseTables, Forget, Places, NoEntries, Vec
    <3> QED
      BY <3>1, <3>2, <3>3, <3>4, TypeParts
  <2> QED
    BY <1>10, <2>1 DEF CloseTables, Forget, Places
<1>11. CASE Crash
  <2>1. TypeOK'
    <3>1. StoreTypes'
      BY <1>11, TypeParts DEF StoreTypes, Crash, Forget, disk, NoEntries, Vec
    <3>2. IndexTypes'
      BY <1>11, TypeParts DEF IndexTypes, Crash, Forget, disk, NoEntries, Vec
    <3>3. FlagTypes'
      BY <1>11, TypeParts DEF FlagTypes, Crash, Forget, disk, NoEntries, Vec
    <3>4. CountTypes'
      BY <1>11, TypeParts DEF CountTypes, Crash, Forget, disk, NoEntries, Vec
    <3> QED
      BY <3>1, <3>2, <3>3, <3>4, TypeParts
  <2> QED
    BY <1>11, <2>1 DEF Crash, Forget, Places
<1>12. CASE Open
  <2>1. TypeOK'
    BY <1>12 DEF Open, TypeOK, disk
  <2> QED
    BY <1>12, <2>1 DEF Open, Places, disk
<1>13. CASE UNCHANGED vars
  <2>1. UNCHANGED <<kv, memtable, later, durable, embeddings, records, dimension, nodes, deleted_nodes, hnsw_data,
                    pending, fresh, loaded, pc, writes, restarts, kills>>
    BY <1>13 DEF vars, memory, disk, bounds
  <2> QED
    BY <2>1 DEF TypeOK, Places
<1>14. CASE ResetTables
  <2>1. TypeOK'
    BY <1>14 DEF ResetTables, TypeOK, memory, NoEntries
  <2> QED
    BY <1>14, <2>1 DEF ResetTables, Places, memory
<1> QED
  BY <1>1, <1>2, <1>3, <1>4, <1>5, <1>6, <1>7, <1>8, <1>9, <1>10, <1>11, <1>12, <1>13, <1>14 DEF Next

---------------------------------------------------------------------------
(* The last records fit the durable values or later writes.                *)

(* What a key that was written and not saved, or another one, has.         *)
KeyKept(k) ==
    IF k \in memtable
    THEN /\ Vector(kv[k]) \in later[k]
         /\ pending = <<>> \/ k # pending[1] => search_embedding(k) = Vector(kv[k])
    ELSE embeddings[k] \in {None, InFile(k)} /\ kv[k] = durable[k]

KeyDurable(k) == InFile(k) \in VectorsFor(durable[k]) \cup later[k]

LEMMA InitKept == Init => VectorsKept
<1> SUFFICES ASSUME Init PROVE VectorsKept
  OBVIOUS
<1>1. \A k \in Key : InFile(k) = None /\ None \in VectorsFor(durable[k])
  BY DEF Init, InFile, RecordsOf, NoEntries, VectorsFor
<1> QED
  BY <1>1 DEF Init, VectorsKept, DurableHasVector, NoEntries

(* VectorsKept after a step, key by key.                                   *)
LEMMA KeptParts ==
    /\ VectorsKept =>
           /\ pc # "reset" => \A k \in Key : KeyDurable(k)
           /\ pc \notin {"down", "reset"} => \A k \in Key : KeyKept(k)
    /\ VectorsKept' <=>
           /\ pc' # "reset" => \A k \in Key : KeyDurable(k)'
           /\ fresh' \/ pc' = "down" => memtable' = {} /\ pending' = <<>>
           /\ pc' = "reset" => kv' = NoEntries /\ memtable' = {} /\ records' = <<>>
           /\ pending' # <<>> =>
                  /\ (InFile(pending[1]) = Vector(pending[2]))'
                  /\ (Vector(pending[2]) \in later[pending[1]])'
           /\ pc' \notin {"down", "reset"} => \A k \in Key : KeyKept(k)'
BY DEF VectorsKept, DurableHasVector, KeyKept, KeyDurable, VectorsFor, NoEntries

(* A file that is left alone keeps the records of every key.               *)
LEMMA SameRecords ==
    ASSUME UNCHANGED records
    PROVE  \A k \in Key : RecordsOf(k)' = RecordsOf(k) /\ InFile(k)' = InFile(k)
BY DEF RecordsOf, InFile

LEMMA StoreKeeps ==
    ASSUME TypeOK, VectorsKept, pending = <<>>, pc = "run", pc' = "run", ~fresh',
           NEW k \in Key, NEW v \in Value \cup {None}, Store(k, v)
    PROVE  VectorsKept'
<1> DEFINE vectors == [embeddings EXCEPT ![k] = Vector(v)]
<1>1. /\ vectors \in [Key -> Vec] /\ vectors[k] = Vector(v) /\ vectors[k] # None
      /\ \A j \in Key \ {k} : vectors[j] = embeddings[j]
      /\ later' = [later EXCEPT ![k] = @ \cup {Vector(v)}]
      /\ \/ /\ kv' = [kv EXCEPT ![k] = v] /\ memtable' = memtable \cup {k}
            /\ embeddings' = vectors
            /\ UNCHANGED <<disk, pending>>
         \/ /\ pending' = <<k, v>>
            /\ records' = Appended(vectors) /\ embeddings' = NoEntries
            /\ UNCHANGED <<kv, memtable, durable, dimension, hnsw_data>>
  BY StoreCases
<1> HIDE DEF vectors
<1>2. /\ Vector(v) \in later'[k] /\ \A j \in Key : later[j] \subseteq later'[j]
      /\ kv \in [Key -> Value \cup {None}]
  BY <1>1 DEF TypeOK
<1>3. \A j \in Key : KeyDurable(j) /\ KeyKept(j)
  BY KeptParts
<1>4. CASE /\ kv' = [kv EXCEPT ![k] = v] /\ memtable' = memtable \cup {k}
           /\ embeddings' = vectors /\ UNCHANGED <<disk, pending>>
  <2>1. \A j \in Key : InFile(j)' = InFile(j)
    BY <1>4, SameRecords DEF disk
  <2>2. \A j \in Key : KeyDurable(j)'
    BY <1>2, <1>3, <1>4, <2>1 DEF KeyDurable, VectorsFor, disk
  <2>3. KeyKept(k)'
    BY <1>1, <1>2, <1>4 DEF KeyKept, search_embedding
  <2>4. \A j \in Key \ {k} : KeyKept(j)'
    BY <1>1, <1>2, <1>3, <1>4, <2>1 DEF KeyKept, search_embedding, disk
  <2> QED
    BY <1>4, <2>2, <2>3, <2>4, KeptParts
<1>5. CASE /\ pending' = <<k, v>> /\ records' = Appended(vectors) /\ embeddings' = NoEntries
           /\ UNCHANGED <<kv, memtable, durable, dimension, hnsw_data>>
  <2>1. \A j \in Key : InFile(j)' = IF vectors[j] # None THEN vectors[j] ELSE InFile(j)
    BY <1>1, <1>5, AppendedVectors
  <2>2. InFile(k)' = Vector(v) /\ \A j \in Key \ {k} : InFile(j)' = search_embedding(j)
    BY <1>1, <2>1 DEF search_embedding
  <2>3. \A j \in Key : embeddings'[j] = None /\ search_embedding(j)' = InFile(j)'
    BY <1>5 DEF NoEntries, search_embedding
  <2>4. \A j \in Key \ {k} : j \notin memtable => search_embedding(j) = InFile(j)
    BY <1>3 DEF KeyKept, search_embedding
  <2>5. \A j \in Key \ {k} : KeyDurable(j)' /\ KeyKept(j)'
    <3> SUFFICES ASSUME NEW j \in Key \ {k} PROVE KeyDurable(j)' /\ KeyKept(j)'
      OBVIOUS
    <3>1. CASE j \in memtable
      BY <3>1, <1>2, <1>3, <1>5, <2>2, <2>3 DEF KeyDurable, KeyKept
    <3>2. CASE j \notin memtable
      BY <3>2, <1>2, <1>3, <1>5, <2>2, <2>3, <2>4 DEF KeyDurable, KeyKept, VectorsFor
    <3> QED
      BY <3>1, <3>2
  <2>6. KeyDurable(k)' /\ KeyKept(k)'
    <3>1. KeyDurable(k)'
      BY <1>2, <2>2 DEF KeyDurable
    <3>2. pending' # <<>> /\ pending'[1] = k
      BY <1>5
    <3>3. KeyKept(k)'
      BY <3>2, <1>2, <1>3, <1>5, <2>3 DEF KeyKept
    <3> QED
      BY <3>1, <3>3
  <2>7. (InFile(pending[1]) = Vector(pending[2]))' /\ (Vector(pending[2]) \in later[pending[1]])'
    <3>1. pending'[1] = k /\ pending'[2] = v
      BY <1>5
    <3>2. InFile(pending[1])' = InFile(k)'
      BY <3>1 DEF InFile, RecordsOf
    <3>3. Vector(pending[2])' = Vector(v)
      BY <3>1 DEF Vector
    <3> QED
      BY <3>1, <3>2, <3>3, <1>2, <2>2
  <2> QED
    BY <2>5, <2>6, <2>7, KeptParts
<1> QED
  BY <1>1, <1>4, <1>5

(* A step that changes nothing of the tree or the vectors.                 *)
LEMMA SameKept ==
    ASSUME VectorsKept, pc' = pc \/ {pc, pc'} \cap {"down", "reset"} = {},
           UNCHANGED <<kv, memtable, later, durable, embeddings, records, pending, fresh>>
    PROVE  VectorsKept'
<1>1. \A k \in Key : InFile(k)' = InFile(k) /\ search_embedding(k)' = search_embedding(k)
  BY SameRecords DEF search_embedding
<1>2. /\ pc # "reset" => \A k \in Key : KeyDurable(k)'
      /\ pc \notin {"down", "reset"} => \A k \in Key : KeyKept(k)'
  BY <1>1, KeptParts DEF KeyDurable, KeyKept, VectorsFor
<1>3. pending # <<>> => InFile(pending[1])' = InFile(pending[1])
  BY DEF InFile, RecordsOf
<1> QED
  BY <1>2, <1>3, KeptParts DEF VectorsKept

(* The tables are saved after the vectors: pending[1] and the keys of the  *)
(* memtable have their last record.                                        *)
LEMMA SaveKeeps ==
    ASSUME TypeOK, VectorsKept, SaveTables, UNCHANGED records, embeddings = NoEntries,
           pc \notin {"down", "reset"}
    PROVE  \A k \in Key : KeyDurable(k)'
<1> SUFFICES ASSUME NEW k \in Key PROVE KeyDurable(k)'
  OBVIOUS
<1>1. KeyDurable(k) /\ KeyKept(k)
  BY KeptParts
<1>2. /\ InFile(k)' = InFile(k) /\ search_embedding(k) = InFile(k) /\ durable' = kv
      /\ later'[k] = IF k \notin memtable THEN later[k]
                     ELSE IF pending # <<>> /\ k = pending[1] THEN {Vector(pending[2])} ELSE {}
  BY SameRecords DEF SaveTables, search_embedding, NoEntries
<1>3. CASE k \notin memtable
  BY <1>1, <1>2, <1>3 DEF KeyDurable, KeyKept, VectorsFor
<1>4. CASE k \in memtable /\ pending # <<>> /\ k = pending[1]
  BY <1>2, <1>4 DEF VectorsKept, KeyDurable
<1>5. CASE k \in memtable /\ ~(pending # <<>> /\ k = pending[1])
  <2>1. InFile(k)' = Vector(kv[k])
    BY <1>1, <1>2, <1>5 DEF KeyKept
  <2>2. Vector(kv[k]) \in VectorsFor(kv[k])
    BY DEF Vector, VectorsFor
  <2> QED
    BY <1>2, <2>1, <2>2 DEF KeyDurable, VectorsFor
<1> QED
  BY <1>3, <1>4, <1>5

(* Every step keeps the vectors, if search_knn finds no new ones in memory *)
(* and the process is not killed within reset.                             *)
LEMMA KeptStep ==
    ASSUME ~LoadsOverNewer, ~KillsInReset, TypeOK, Places, VectorsKept, [Next]_vars
    PROVE  VectorsKept'
<1> USE VectorsAssumption DEF tree
<1>1. ASSUME NEW k \in Key, NEW v \in Value, Put(k, v)
      PROVE  VectorsKept'
  BY <1>1, StoreKeeps DEF Put, MayWrite, Idle, Wrote
<1>2. ASSUME NEW k \in Key, Del(k)
      PROVE  VectorsKept'
  BY <1>2, StoreKeeps DEF Del, MayWrite, Idle, Wrote
<1>3. CASE FlushTables
  <2>0. PICK p \in Key : p = pending[1]
    BY <1>3 DEF FlushTables, TypeOK
  <2>1. /\ pc' = "run" /\ pending' = <<>> /\ durable' = kv /\ memtable' = {p}
        /\ kv' = [kv EXCEPT ![p] = pending[2]] /\ SaveTables
        /\ UNCHANGED <<embeddings, records, fresh>>
    BY <1>3, <2>0 DEF FlushTables, SaveTables, memory, bounds
  <2>2. pending # <<>> /\ pc = "run" /\ embeddings = NoEntries /\ ~fresh
    BY <1>3 DEF FlushTables, Places, VectorsKept
  <2>3. \A k \in Key : KeyDurable(k)'
    BY <2>1, <2>2, SaveKeeps
  <2>4. /\ kv \in [Key -> Value \cup {None}] /\ later \in [Key -> SUBSET (Value \cup {MaxVec})]
        /\ InFile(p) = Vector(pending[2]) /\ Vector(pending[2]) \in later[p]
    BY <2>0, <2>2 DEF TypeOK, VectorsKept
  <2>5. \A k \in Key : InFile(k)' = InFile(k) /\ embeddings'[k] = None
    BY <2>1, <2>2, SameRecords DEF NoEntries
  <2>6. KeyKept(p)'
    <3>1. later'[p] = IF p \notin memtable THEN later[p] ELSE {Vector(pending[2])}
      BY <2>0, <2>1, <2>2 DEF SaveTables
    <3>2. kv'[p] = pending[2]
      BY <2>1, <2>4
    <3>3. search_embedding(p)' = InFile(p)
      BY <2>4, <2>5 DEF search_embedding
    <3>4. Vector(kv[p])' = Vector(pending[2])
      BY <3>2 DEF Vector
    <3> QED
      BY <2>1, <2>4, <3>1, <3>3, <3>4 DEF KeyKept
  <2>7. \A k \in Key \ {p} : KeyKept(k)'
    BY <2>1, <2>4, <2>5 DEF KeyKept
  <2> QED
    BY <2>1, <2>2, <2>3, <2>6, <2>7, KeptParts
<1>4. CASE reset
  BY <1>4, KeptParts DEF reset, Idle
<1>5. CASE search_knn
  <2>1. /\ Loaded \in [Key -> Vec] /\ records' = Appended(Loaded) /\ embeddings' = NoEntries
        /\ embeddings = NoEntries /\ pending = <<>> /\ pc = "run"
        /\ UNCHANGED <<kv, memtable, later, durable, pending, pc, fresh>>
    BY <1>5, LoadedType DEF search_knn, MaySearch, Idle
  <2>2. \A j \in Key : InFile(j)' = InFile(j)
    <3>1. \A j \in Key : InFile(j)' = IF Loaded[j] # None THEN Loaded[j] ELSE InFile(j)
      BY <2>1, AppendedVectors
    <3>2. \A j \in Key : Loaded[j] \in {None, InFile(j)}
      BY <2>1 DEF Loaded, NoEntries
    <3> QED
      BY <3>1, <3>2
  <2>3. \A j \in Key : KeyDurable(j)' /\ KeyKept(j)'
    BY <2>1, <2>2, KeptParts DEF KeyDurable, KeyKept, VectorsFor, search_embedding, NoEntries
  <2> QED
    BY <2>1, <2>3, KeptParts DEF VectorsKept
<1>6. CASE load_embedding_from_disk
  <2>1. /\ embeddings' = Loaded /\ fresh /\ pc = "run" /\ pending = <<>>
        /\ UNCHANGED <<kv, memtable, later, durable, pending, records, fresh, pc>>
    BY <1>6 DEF load_embedding_from_disk, Idle, disk, bounds
  <2>2. memtable = {}
    BY <2>1 DEF VectorsKept
  <2>3. \A j \in Key : InFile(j)' = InFile(j)
    BY <2>1, SameRecords
  <2>4. \A j \in Key : KeyDurable(j) /\ KeyKept(j)
    BY <2>1, KeptParts
  <2>5. \A j \in Key : Loaded[j] \in {None, InFile(j)}
    BY <2>2, <2>4 DEF Loaded, KeyKept
  <2>6. \A j \in Key : KeyDurable(j)' /\ KeyKept(j)'
    BY <2>1, <2>2, <2>3, <2>4, <2>5 DEF KeyDurable, KeyKept, VectorsFor
  <2> QED
    BY <2>1, <2>2, <2>6, KeptParts
<1>7. CASE load_hnsw_index_from_disk
  <2>1. UNCHANGED <<kv, memtable, later, durable, embeddings, records, pending, fresh, pc>> /\ pc = "run"
    BY <1>7 DEF load_hnsw_index_from_disk, Idle, disk, bounds
  <2> QED
    BY <2>1, SameKept
<1>8. CASE CloseVectors
  <2>1. /\ embeddings \in [Key -> Vec] /\ records' = Appended(embeddings) /\ embeddings' = NoEntries
        /\ pending = <<>> /\ pc = "run" /\ pc' = "index"
        /\ UNCHANGED <<kv, memtable, later, durable, pending, fresh>>
    BY <1>8 DEF CloseVectors, Idle, TypeOK
  <2>2. \A j \in Key : InFile(j)' = search_embedding(j)
    BY <2>1, AppendedVectors DEF search_embedding
  <2>3. \A j \in Key : search_embedding(j)' = search_embedding(j) /\ embeddings'[j] = None
    BY <2>1, <2>2 DEF search_embedding, NoEntries
  <2>4. \A j \in Key : KeyDurable(j) /\ KeyKept(j)
    BY <2>1, KeptParts
  <2>5. \A j \in Key : j \notin memtable => search_embedding(j) = InFile(j)
    BY <2>4 DEF KeyKept, search_embedding
  <2>6. ASSUME NEW j \in Key
        PROVE  KeyDurable(j)' /\ KeyKept(j)'
    <3>1. CASE j \in memtable
      BY <3>1, <2>1, <2>2, <2>3, <2>4 DEF KeyDurable, KeyKept
    <3>2. CASE j \notin memtable
      BY <3>2, <2>1, <2>2, <2>3, <2>4, <2>5 DEF KeyDurable, KeyKept, VectorsFor
    <3> QED
      BY <3>1, <3>2
  <2> QED
    BY <2>1, <2>6, KeptParts DEF VectorsKept
<1>9. CASE CloseIndex
  <2>1. /\ UNCHANGED <<kv, memtable, later, durable, embeddings, records, pending, fresh>>
        /\ pc = "index" /\ pc' = "tables"
    BY <1>9 DEF CloseIndex, memory
  <2> QED
    BY <2>1, SameKept
<1>10. CASE CloseTables
  <2>1. /\ UNCHANGED records /\ SaveTables /\ pc = "tables" /\ pc' = "down"
        /\ memtable' = {} /\ pending' = <<>> /\ embeddings = NoEntries
    BY <1>10 DEF CloseTables, Forget, Places
  <2>2. \A j \in Key : KeyDurable(j)'
    BY <2>1, SaveKeeps
  <2> QED
    BY <2>1, <2>2, KeptParts
<1>11. CASE Crash
  <2>1. /\ UNCHANGED <<records, durable, later>> /\ pc # "reset" /\ pc' = "down"
        /\ memtable' = {} /\ pending' = <<>>
    BY <1>11 DEF Crash, Forget, disk
  <2>2. \A j \in Key : InFile(j)' = InFile(j)
    BY <2>1, SameRecords
  <2>3. \A j \in Key : KeyDurable(j)'
    BY <2>1, <2>2, KeptParts DEF KeyDurable, VectorsFor
  <2> QED
    BY <2>1, <2>3, KeptParts
<1>12. CASE Open
  <2>1. /\ kv' = durable /\ pc = "down" /\ pc' = "run" /\ embeddings = NoEntries
        /\ UNCHANGED <<memtable, later, durable, embeddings, records, pending>>
    BY <1>12 DEF Open, disk, Places
  <2>2. memtable = {} /\ pending = <<>>
    BY <2>1 DEF VectorsKept
  <2>3. \A j \in Key : InFile(j)' = InFile(j) /\ embeddings[j] = None
    BY <2>1, SameRecords DEF NoEntries
  <2>4. \A j \in Key : KeyDurable(j)' /\ KeyKept(j)'
    BY <2>1, <2>2, <2>3, KeptParts DEF KeyDurable, KeyKept, VectorsFor
  <2> QED
    BY <2>1, <2>2, <2>4, KeptParts
<1>13. CASE ResetTables
  <2>1. /\ durable' = NoEntries /\ pc = "reset" /\ pc' = "run" /\ embeddings = NoEntries
        /\ UNCHANGED <<kv, memtable, embeddings, records, pending, fresh>>
    BY <1>13 DEF ResetTables, memory, Places
  <2>2. kv = NoEntries /\ memtable = {} /\ records = <<>> /\ pending = <<>>
    BY <2>1 DEF VectorsKept, Places
  <2>3. \A j \in Key : InFile(j)' = None /\ embeddings'[j] = None /\ durable'[j] = None /\ kv'[j] = None
    BY <2>1, <2>2 DEF InFile, RecordsOf, NoEntries
  <2>4. \A j \in Key : KeyDurable(j)' /\ KeyKept(j)'
    BY <2>1, <2>2, <2>3 DEF KeyDurable, KeyKept, VectorsFor
  <2> QED
    BY <2>1, <2>2, <2>4, KeptParts
<1>14. CASE UNCHANGED vars
  <2>1. UNCHANGED <<kv, memtable, later, durable, embeddings, records, pending, fresh, pc>>
    BY <1>14 DEF vars, memory, disk, bounds
  <2> QED
    BY <2>1, SameKept
<1> QED
  BY <1>1, <1>2, <1>3, <1>4, <1>5, <1>6, <1>7, <1>8, <1>9, <1>10, <1>11, <1>12, <1>13, <1>14 DEF Next

---------------------------------------------------------------------------
(* The vectors are those of the values.                                    *)

LEMMA InitCurrent == Init => VectorsCurrent
<1> SUFFICES ASSUME Init PROVE VectorsCurrent
  OBVIOUS
<1>1. \A k \in Key : RecordsOf(k) = {} /\ embeddings[k] = None /\ Current[k] = None
  BY DEF Init, RecordsOf, NoEntries, Current
<1> QED
  BY <1>1 DEF Init, VectorsCurrent, FoundIsCurrent, VectorsFor, search_embedding, InFile, NoEntries

(* What a put or a deletion leaves: its entry over the values there were,  *)
(* its vector over the vectors there were.                                 *)
LEMMA StoreEffect ==
    ASSUME TypeOK, pending = <<>>, NEW k \in Key, NEW v \in Value \cup {None}, Store(k, v)
    PROVE  /\ Current' = [kv EXCEPT ![k] = v]
           /\ search_embedding(k)' = Vector(v)
           /\ \A j \in Key \ {k} : search_embedding(j)' = search_embedding(j)
<1> DEFINE vectors == [embeddings EXCEPT ![k] = Vector(v)]
<1>1. /\ vectors \in [Key -> Vec] /\ vectors[k] = Vector(v) /\ vectors[k] # None
      /\ \A j \in Key \ {k} : vectors[j] = embeddings[j]
      /\ \/ /\ kv' = [kv EXCEPT ![k] = v] /\ memtable' = memtable \cup {k}
            /\ embeddings' = vectors
            /\ UNCHANGED <<disk, pending>>
         \/ /\ pending' = <<k, v>>
            /\ records' = Appended(vectors) /\ embeddings' = NoEntries
            /\ UNCHANGED <<kv, memtable, durable, dimension, hnsw_data>>
  BY StoreCases
<1> HIDE DEF vectors
<1>2. CASE kv' = [kv EXCEPT ![k] = v] /\ embeddings' = vectors /\ UNCHANGED <<disk, pending>>
  <2>1. \A j \in Key : InFile(j)' = InFile(j)
    BY <1>2, SameRecords DEF disk
  <2>2. Current' = [kv EXCEPT ![k] = v]
    BY <1>2 DEF Current
  <2> QED
    BY <1>1, <1>2, <2>1, <2>2 DEF search_embedding
<1>3. CASE /\ pending' = <<k, v>> /\ records' = Appended(vectors)
           /\ embeddings' = NoEntries /\ UNCHANGED kv
  <2>1. \A j \in Key : InFile(j)' = IF vectors[j] # None THEN vectors[j] ELSE InFile(j)
    BY <1>1, <1>3, AppendedVectors
  <2>2. \A j \in Key : embeddings'[j] = None
    BY <1>3 DEF NoEntries
  <2>3. Current' = [kv EXCEPT ![k] = v]
    BY <1>3 DEF Current
  <2> QED
    BY <1>1, <2>1, <2>2, <2>3 DEF search_embedding
<1> QED
  BY <1>1, <1>2, <1>3

LEMMA StoreFinds ==
    ASSUME TypeOK, FoundIsCurrent, pending = <<>>,
           NEW k \in Key, NEW v \in Value \cup {None}, Store(k, v)
    PROVE  FoundIsCurrent'
<1>1. /\ Current' = [kv EXCEPT ![k] = v] /\ search_embedding(k)' = Vector(v)
      /\ \A j \in Key \ {k} : search_embedding(j)' = search_embedding(j)
  BY StoreEffect
<1>2. Current = kv /\ kv \in [Key -> Value \cup {None}]
  BY DEF Current, TypeOK
<1>3. Current'[k] = v /\ \A j \in Key \ {k} : Current'[j] = Current[j]
  BY <1>1, <1>2
<1>4. Vector(v) \in VectorsFor(v)
  BY DEF Vector, VectorsFor
<1> QED
  BY <1>1, <1>3, <1>4 DEF FoundIsCurrent

(* Before a kill, every step keeps the vectors those of the values.        *)
LEMMA CurrentStep ==
    ASSUME ~LoadsOverNewer, TypeOK, Places, VectorsCurrent, [Next]_vars
    PROVE  VectorsCurrent'
<1> SUFFICES ASSUME kills' = 0
             PROVE  /\ FoundIsCurrent'
                    /\ (fresh => \A k \in Key : embeddings[k] \in {None, InFile(k)})'
                    /\ (pc = "down" => durable = kv)'
  BY DEF VectorsCurrent
<1> USE VectorsAssumption DEF tree
<1>0. ASSUME kills = 0
      PROVE  /\ FoundIsCurrent
             /\ fresh => \A k \in Key : embeddings[k] \in {None, InFile(k)}
             /\ pc = "down" => durable = kv
  BY <1>0 DEF VectorsCurrent
<1>1. ASSUME NEW k \in Key, NEW v \in Value, Put(k, v)
      PROVE  FoundIsCurrent' /\ fresh' = FALSE /\ pc' = "run"
  <2>1. /\ pending = <<>> /\ pc = "run" /\ pc' = "run" /\ fresh' = FALSE /\ kills' = kills
        /\ Store(k, v)
    BY <1>1 DEF Put, MayWrite, Idle, Wrote
  <2> QED
    BY <1>0, <2>1, StoreFinds
<1>2. ASSUME NEW k \in Key, Del(k)
      PROVE  FoundIsCurrent' /\ fresh' = FALSE /\ pc' = "run"
  <2>1. /\ pending = <<>> /\ pc = "run" /\ pc' = "run" /\ fresh' = FALSE /\ kills' = kills
        /\ Store(k, None)
    BY <1>2 DEF Del, MayWrite, Idle, Wrote
  <2> QED
    BY <1>0, <2>1, StoreFinds
<1>3. CASE FlushTables
  <2>1. /\ kv' = [kv EXCEPT ![pending[1]] = pending[2]] /\ pending' = <<>> /\ pending # <<>>
        /\ pc = "run" /\ UNCHANGED <<embeddings, records, fresh, pc, kills>>
    BY <1>3 DEF FlushTables, memory, bounds
  <2>2. Current' = Current
    BY <2>1 DEF Current
  <2>3. \A j \in Key : InFile(j)' = InFile(j) /\ search_embedding(j)' = search_embedding(j)
    BY <2>1, SameRecords DEF search_embedding
  <2> QED
    BY <1>0, <2>1, <2>2, <2>3 DEF FoundIsCurrent
<1>4. CASE reset
  <2>1. /\ kv' = NoEntries /\ embeddings' = NoEntries /\ records' = <<>> /\ fresh' = FALSE
        /\ pending' = <<>> /\ pc' = "reset"
    BY <1>4 DEF reset, Idle
  <2>2. \A j \in Key : Current'[j] = None /\ search_embedding(j)' = None
    BY <2>1 DEF Current, search_embedding, InFile, RecordsOf, NoEntries
  <2> QED
    BY <2>1, <2>2 DEF FoundIsCurrent, VectorsFor
<1>5. CASE search_knn
  <2>1. /\ Loaded \in [Key -> Vec] /\ records' = Appended(Loaded) /\ embeddings' = NoEntries
        /\ embeddings = NoEntries /\ UNCHANGED <<kv, pending, pc, kills>> /\ pc = "run"
    BY <1>5, LoadedType DEF search_knn, MaySearch, Idle
  <2>2. \A j \in Key : InFile(j)' = InFile(j)
    <3>1. \A j \in Key : InFile(j)' = IF Loaded[j] # None THEN Loaded[j] ELSE InFile(j)
      BY <2>1, AppendedVectors
    <3>2. \A j \in Key : Loaded[j] \in {None, InFile(j)}
      BY <2>1 DEF Loaded, NoEntries
    <3> QED
      BY <3>1, <3>2
  <2>3. \A j \in Key : search_embedding(j)' = search_embedding(j)
    BY <2>1, <2>2 DEF search_embedding
  <2>4. Current' = Current
    BY <2>1 DEF Current
  <2>5. \A j \in Key : embeddings'[j] = None
    BY <2>1 DEF NoEntries
  <2> QED
    BY <1>0, <2>1, <2>3, <2>4, <2>5 DEF FoundIsCurrent
<1>6. CASE load_embedding_from_disk
  <2>1. /\ embeddings' = Loaded /\ fresh /\ pc = "run"
        /\ UNCHANGED <<kv, pending, records, fresh, pc, kills>>
    BY <1>6 DEF load_embedding_from_disk, Idle, disk, bounds
  <2>2. \A j \in Key : InFile(j)' = InFile(j)
    BY <2>1, SameRecords
  <2>3. \A j \in Key : embeddings[j] \in {None, InFile(j)}
    BY <1>0, <2>1
  <2>4. \A j \in Key : Loaded[j] \in {None, InFile(j)}
    BY <2>3 DEF Loaded
  <2>5. \A j \in Key : search_embedding(j) = InFile(j) /\ search_embedding(j)' = InFile(j)
    BY <2>1, <2>2, <2>3, <2>4 DEF search_embedding
  <2>6. Current' = Current
    BY <2>1 DEF Current
  <2> QED
    BY <1>0, <2>1, <2>2, <2>4, <2>5, <2>6 DEF FoundIsCurrent
<1>7. CASE load_hnsw_index_from_disk
  <2>1. UNCHANGED <<kv, pending, records, embeddings, fresh, pc, kills>> /\ pc = "run"
    BY <1>7 DEF load_hnsw_index_from_disk, Idle, disk, bounds
  <2>2. Current' = Current
    BY <2>1 DEF Current
  <2>3. \A j \in Key : InFile(j)' = InFile(j) /\ search_embedding(j)' = search_embedding(j)
    BY <2>1, SameRecords DEF search_embedding
  <2> QED
    BY <1>0, <2>1, <2>2, <2>3 DEF FoundIsCurrent
<1>8. CASE CloseVectors
  <2>1. /\ embeddings \in [Key -> Vec] /\ records' = Appended(embeddings) /\ embeddings' = NoEntries
        /\ UNCHANGED <<kv, pending, kills>> /\ pc' = "index"
    BY <1>8 DEF CloseVectors, TypeOK
  <2>2. \A j \in Key : InFile(j)' = search_embedding(j)
    BY <2>1, AppendedVectors DEF search_embedding
  <2>3. \A j \in Key : search_embedding(j)' = search_embedding(j)
    BY <2>1, <2>2 DEF search_embedding, NoEntries
  <2>4. Current' = Current
    BY <2>1 DEF Current
  <2>5. \A j \in Key : embeddings'[j] = None
    BY <2>1 DEF NoEntries
  <2> QED
    BY <1>0, <2>1, <2>3, <2>4, <2>5 DEF FoundIsCurrent
<1>9. CASE CloseIndex
  <2>1. UNCHANGED <<kv, pending, records, embeddings, fresh, kills>> /\ pc' = "tables"
    BY <1>9 DEF CloseIndex, memory
  <2>2. Current' = Current
    BY <2>1 DEF Current
  <2>3. \A j \in Key : InFile(j)' = InFile(j) /\ search_embedding(j)' = search_embedding(j)
    BY <2>1, SameRecords DEF search_embedding
  <2> QED
    BY <1>0, <2>1, <2>2, <2>3 DEF FoundIsCurrent
<1>10. CASE CloseTables
  <2>1. /\ UNCHANGED <<kv, records, kills>> /\ durable' = kv /\ pending' = <<>> /\ embeddings' = NoEntries
    BY <1>10 DEF CloseTables, SaveTables, Forget
  <2>2. embeddings = NoEntries /\ pending = <<>>
    BY <1>10 DEF CloseTables, Places
  <2>3. Current' = Current
    BY <2>1, <2>2 DEF Current
  <2>4. \A j \in Key : InFile(j)' = InFile(j) /\ search_embedding(j)' = search_embedding(j)
    BY <2>1, <2>2, SameRecords DEF search_embedding
  <2>5. \A j \in Key : embeddings'[j] = None
    BY <2>1 DEF NoEntries
  <2> QED
    BY <1>0, <2>1, <2>3, <2>4, <2>5 DEF FoundIsCurrent
<1>11. CASE Crash
  <2>1. kills \in Nat /\ kills' = kills + 1
    BY <1>11, VectorBoundsAssumption DEF Crash, TypeOK
  <2> QED
    BY <2>1
<1>12. CASE Open
  <2>1. /\ kv' = durable /\ pc = "down" /\ pc' = "run" /\ pending = <<>>
        /\ UNCHANGED <<durable, records, embeddings, fresh, pending, kills>>
    BY <1>12 DEF Open, disk, Places
  <2>2. durable = kv
    BY <1>0, <2>1
  <2>3. Current' = Current
    BY <2>1, <2>2 DEF Current
  <2>4. \A j \in Key : InFile(j)' = InFile(j) /\ search_embedding(j)' = search_embedding(j)
    BY <2>1, SameRecords DEF search_embedding
  <2> QED
    BY <1>0, <2>1, <2>3, <2>4 DEF FoundIsCurrent
<1>13. CASE UNCHANGED vars
  <2>1. UNCHANGED <<kv, durable, embeddings, records, pending, fresh, pc, kills>>
    BY <1>13 DEF vars, memory, disk, bounds
  <2>2. Current' = Current
    BY <2>1 DEF Current
  <2>3. \A j \in Key : InFile(j)' = InFile(j) /\ search_embedding(j)' = search_embedding(j)
    BY <2>1, SameRecords DEF search_embedding
  <2> QED
    BY <1>0, <2>1, <2>2, <2>3 DEF FoundIsCurrent
<1>14. CASE ResetTables
  <2>1. UNCHANGED <<kv, pending, records, embeddings, fresh, kills>> /\ pc' = "run"
    BY <1>14 DEF ResetTables, memory
  <2>2. Current' = Current
    BY <2>1 DEF Current
  <2>3. \A j \in Key : InFile(j)' = InFile(j) /\ search_embedding(j)' = search_embedding(j)
    BY <2>1, SameRecords DEF search_embedding
  <2> QED
    BY <1>0, <2>1, <2>2, <2>3 DEF FoundIsCurrent
<1> QED
  BY <1>1, <1>2, <1>3, <1>4, <1>5, <1>6, <1>7, <1>8, <1>9, <1>10, <1>11, <1>12, <1>13, <1>14 DEF Next

---------------------------------------------------------------------------
(* The index is the store's pairs.                                         *)

LEMMA PairsAre ==
    ASSUME NEW values
    PROVE  /\ PairsOf(values) \subseteq Key \X {values[k] : k \in Key}
           /\ \A k \in Key : \A v : <<k, v>> \in PairsOf(values) <=> v = values[k] /\ v # None
BY DEF PairsOf

LEMMA Appending ==
    ASSUME NEW S, NEW s \in Seq(S), NEW e \in S
    PROVE  /\ ToSet(Append(s, e)) = ToSet(s) \cup {e}
           /\ e \notin ToSet(s) /\ (\A i, j \in DOMAIN s : s[i] = s[j] => i = j) =>
                  \A i, j \in DOMAIN Append(s, e) : Append(s, e)[i] = Append(s, e)[j] => i = j
<1> DEFINE t == Append(s, e)
           n == Len(s)
<1>1. /\ n \in Nat /\ DOMAIN s = 1..n /\ DOMAIN t = 1..(n + 1) /\ t[n + 1] = e
      /\ \A i \in 1..n : t[i] = s[i]
  OBVIOUS
<1> HIDE DEF t, n
<1>2. 1..(n + 1) = 1..n \cup {n + 1}
  BY <1>1
<1>3. ToSet(t) = ToSet(s) \cup {e}
  BY <1>1, <1>2 DEF ToSet
<1>4. ASSUME e \notin ToSet(s), \A i, j \in DOMAIN s : s[i] = s[j] => i = j,
             NEW i \in DOMAIN t, NEW j \in DOMAIN t, t[i] = t[j]
      PROVE  i = j
  <2>1. \A l \in 1..n : t[l] # e
    BY <1>1, <1>4 DEF ToSet
  <2> QED
    BY <1>1, <1>2, <1>4, <2>1
<1> QED
  BY <1>3, <1>4 DEF t

LEMMA InitIndex == Init => IndexCurrent
<1> SUFFICES ASSUME Init PROVE IndexOf(nodes, deleted_nodes, Current)
  BY DEF Init, IndexCurrent
<1>1. nodes = <<>> /\ deleted_nodes = {} /\ Current = NoEntries
  BY DEF Init, Current
<1>2. ToSet(nodes) = {} /\ DOMAIN nodes = {}
  BY <1>1 DEF ToSet
<1>3. PairsOf(Current) = {}
  BY <1>1 DEF PairsOf, NoEntries
<1> QED
  BY <1>1, <1>2, <1>3 DEF IndexOf

(* What put does to the index.                                             *)
LEMMA IndexAfterPut ==
    ASSUME TypeOK, IndexOf(nodes, deleted_nodes, kv), NEW k \in Key, NEW v \in Value, IndexPut(k, v)
    PROVE  IndexOf(nodes', deleted_nodes', [kv EXCEPT ![k] = v])
<1> DEFINE new == [kv EXCEPT ![k] = v]
           N   == ToSet(nodes)
           D   == deleted_nodes
           e   == <<k, v>>
           old == kv[k]
<1>1. /\ N \ D = PairsOf(kv) /\ D \subseteq N
      /\ \A i, j \in DOMAIN nodes : nodes[i] = nodes[j] => i = j
  BY DEF IndexOf
<1>2. /\ N \subseteq Pair /\ nodes \in Seq(Pair) /\ e \in Pair /\ kv \in [Key -> Value \cup {None}]
      /\ old \in Value \cup {None} /\ v # None
  BY VectorsAssumption DEF TypeOK, ToSet, Pair, Vec
<1>3. new[k] = v /\ \A j \in Key \ {k} : new[j] = kv[j]
  BY <1>2
<1>4. \A j \in Key : \A u : <<j, u>> \in PairsOf(kv) <=> u = kv[j] /\ u # None
  BY PairsAre
<1>5. \A j \in Key : \A u : <<j, u>> \in PairsOf(new) <=> u = new[j] /\ u # None
  BY PairsAre
<1>6. PairsOf(new) \subseteq Pair
  <2>1. \A j \in Key : new[j] \in Vec
    BY <1>2, <1>3 DEF Vec
  <2> HIDE DEF new
  <2>2. PairsOf(new) \subseteq Key \X {new[j] : j \in Key}
    BY PairsAre
  <2> QED
    BY <2>1, <2>2 DEF Pair
<1> HIDE DEF new
<1>7. CASE e \in D
  <2>1. /\ nodes' = nodes
        /\ deleted_nodes' = (D \ {e}) \cup (IF old = None THEN {} ELSE {<<k, old>>})
    BY <1>7 DEF IndexPut
  <2>2. old # v
    BY <1>1, <1>2, <1>4, <1>7
  <2>3. old # None => <<k, old>> \in N /\ <<k, old>> \notin D
    BY <1>1, <1>4
  <2>4. \A j \in Key, u \in Vec : <<j, u>> \in N \ deleted_nodes' <=> <<j, u>> \in PairsOf(new)
    <3> SUFFICES ASSUME NEW j \in Key, NEW u \in Vec
                 PROVE  <<j, u>> \in N \ deleted_nodes' <=> <<j, u>> \in PairsOf(new)
      OBVIOUS
    <3>1. CASE j # k
      <4>1. <<j, u>> \in deleted_nodes' <=> <<j, u>> \in D
        BY <2>1, <3>1
      <4> QED
        BY <4>1, <3>1, <1>1, <1>3, <1>4, <1>5
    <3>2. CASE j = k /\ u = v
      BY <3>2, <2>1, <2>2, <1>1, <1>2, <1>3, <1>5, <1>7
    <3>3. CASE j = k /\ u # v
      <4>1. <<j, u>> \notin PairsOf(new)
        BY <3>3, <1>3, <1>5
      <4>2. <<j, u>> \in N => <<j, u>> \in deleted_nodes'
        BY <3>3, <2>1, <1>1, <1>4
      <4> QED
        BY <4>1, <4>2
    <3> QED
      BY <3>1, <3>2, <3>3
  <2>5. N \ deleted_nodes' = PairsOf(new)
    BY <2>4, <1>2, <1>6 DEF Pair
  <2>6. deleted_nodes' \subseteq N
    BY <2>1, <2>3, <1>1
  <2> QED
    BY <2>1, <2>5, <2>6, <1>1 DEF IndexOf, new
<1>8. CASE e \notin D /\ old = v
  <2>1. nodes' = nodes /\ deleted_nodes' = D
    BY <1>8, <1>2 DEF IndexPut
  <2>2. new = kv
    BY <1>8, <1>2 DEF new
  <2> QED
    BY <2>1, <2>2 DEF new
<1>9. CASE e \notin D /\ old # v
  <2>1. /\ nodes' = Append(nodes, e)
        /\ deleted_nodes' = D \cup (IF old = None THEN {} ELSE {<<k, old>>})
    BY <1>9 DEF IndexPut
  <2>2. e \notin N
    BY <1>1, <1>4, <1>9
  <2>3. /\ ToSet(nodes') = N \cup {e}
        /\ \A i, j \in DOMAIN nodes' : nodes'[i] = nodes'[j] => i = j
    <3> HIDE DEF e, N
    <3> QED
      BY <2>1, <2>2, <1>1, <1>2, Appending DEF N
  <2>4. \A j \in Key, u \in Vec : <<j, u>> \in ToSet(nodes') \ deleted_nodes' <=> <<j, u>> \in PairsOf(new)
    <3> SUFFICES ASSUME NEW j \in Key, NEW u \in Vec
                 PROVE  <<j, u>> \in ToSet(nodes') \ deleted_nodes' <=> <<j, u>> \in PairsOf(new)
      OBVIOUS
    <3>1. CASE j # k
      <4>1. /\ <<j, u>> \in deleted_nodes' <=> <<j, u>> \in D
            /\ <<j, u>> \in ToSet(nodes') <=> <<j, u>> \in N
        BY <2>1, <2>3, <3>1
      <4> QED
        BY <4>1, <3>1, <1>1, <1>3, <1>4, <1>5
    <3>2. CASE j = k /\ u = v
      BY <3>2, <2>1, <2>3, <1>2, <1>3, <1>5, <1>9
    <3>3. CASE j = k /\ u # v
      <4>1. <<j, u>> \notin PairsOf(new)
        BY <3>3, <1>3, <1>5
      <4>2. <<j, u>> \in ToSet(nodes') => <<j, u>> \in deleted_nodes'
        BY <3>3, <2>1, <2>3, <1>1, <1>4
      <4> QED
        BY <4>1, <4>2
    <3> QED
      BY <3>1, <3>2, <3>3
  <2>5. ToSet(nodes') \ deleted_nodes' = PairsOf(new)
    BY <2>3, <2>4, <1>2, <1>6 DEF Pair
  <2>6. deleted_nodes' \subseteq ToSet(nodes')
    <3>1. old # None => <<k, old>> \in N
      BY <1>1, <1>4
    <3> QED
      BY <3>1, <2>1, <2>3, <1>1
  <2> QED
    BY <2>3, <2>5, <2>6 DEF IndexOf, new
<1> QED
  BY <1>7, <1>8, <1>9

(* What del does to it.                                                    *)
LEMMA IndexAfterDel ==
    ASSUME TypeOK, IndexOf(nodes, deleted_nodes, kv), NEW k \in Key, kv[k] # None
    PROVE  IndexOf(nodes, deleted_nodes \cup {<<k, kv[k]>>}, [kv EXCEPT ![k] = None])
<1> DEFINE new == [kv EXCEPT ![k] = None]
           N   == ToSet(nodes)
           E   == deleted_nodes \cup {<<k, kv[k]>>}
<1>1. /\ N \ deleted_nodes = PairsOf(kv) /\ deleted_nodes \subseteq N
      /\ \A i, j \in DOMAIN nodes : nodes[i] = nodes[j] => i = j
  BY DEF IndexOf
<1>2. N \subseteq Pair /\ kv \in [Key -> Value \cup {None}]
  BY DEF TypeOK, ToSet
<1>3. new[k] = None /\ \A j \in Key \ {k} : new[j] = kv[j]
  BY <1>2
<1>4. \A j \in Key : \A u : <<j, u>> \in PairsOf(kv) <=> u = kv[j] /\ u # None
  BY PairsAre
<1>5. \A j \in Key : \A u : <<j, u>> \in PairsOf(new) <=> u = new[j] /\ u # None
  BY PairsAre
<1>6. PairsOf(new) \subseteq Pair
  <2>1. \A j \in Key : new[j] \in Vec
    BY <1>2, <1>3 DEF Vec
  <2> HIDE DEF new
  <2>2. PairsOf(new) \subseteq Key \X {new[j] : j \in Key}
    BY PairsAre
  <2> QED
    BY <2>1, <2>2 DEF Pair
<1> HIDE DEF new
<1>7. \A j \in Key, u \in Vec : <<j, u>> \in N \ E <=> <<j, u>> \in PairsOf(new)
  <2> SUFFICES ASSUME NEW j \in Key, NEW u \in Vec
               PROVE  <<j, u>> \in N \ E <=> <<j, u>> \in PairsOf(new)
    OBVIOUS
  <2>1. CASE j # k
    BY <2>1, <1>1, <1>3, <1>4, <1>5
  <2>2. CASE j = k
    BY <2>2, <1>1, <1>3, <1>4, <1>5
  <2> QED
    BY <2>1, <2>2
<1>8. N \ E = PairsOf(new)
  BY <1>2, <1>6, <1>7 DEF Pair
<1>9. E \subseteq N
  BY <1>1, <1>4
<1> QED
  BY <1>1, <1>8, <1>9 DEF IndexOf, new

(* A saved index is the one that was saved.                                *)
LEMMA SavedIsIndex ==
    ASSUME TypeOK, IndexOf(nodes, deleted_nodes, kv), hnsw_data' = Saved, UNCHANGED kv
    PROVE  /\ hnsw_data' # <<>>
           /\ NodesFrom(kv)' = nodes /\ DeletedFrom' = deleted_nodes
<1> DEFINE D == {j \in DOMAIN nodes : nodes[j] \in deleted_nodes}
<1>1. /\ nodes \in Seq(Pair) /\ ToSet(nodes) \ deleted_nodes = PairsOf(kv)
      /\ deleted_nodes \subseteq ToSet(nodes)
  BY DEF TypeOK, IndexOf
<1>2. /\ hnsw_data' # <<>>
      /\ hnsw_data'.keys = [i \in DOMAIN nodes |-> nodes[i][1]]
      /\ hnsw_data'.deleted = [i \in D |-> nodes[i][2]]
  BY DEF Saved
<1>3. \A i \in DOMAIN nodes : nodes[i] \in Pair
  BY <1>1
<1>4. \A i \in DOMAIN nodes : nodes[i] = <<nodes[i][1], nodes[i][2]>>
  BY <1>3 DEF Pair
<1>5. \A i \in DOMAIN nodes : i \notin D => nodes[i][2] = kv[nodes[i][1]]
  <2> SUFFICES ASSUME NEW i \in DOMAIN nodes, i \notin D PROVE nodes[i][2] = kv[nodes[i][1]]
    OBVIOUS
  <2>1. nodes[i] \in PairsOf(kv)
    BY <1>1 DEF ToSet
  <2>2. nodes[i][1] \in Key
    BY <1>3 DEF Pair
  <2> QED
    BY <2>1, <2>2, <1>4, PairsAre
<1>6. NodesFrom(kv)' = nodes
  <2> DEFINE F(i) == LET k == hnsw_data'.keys[i]
                     IN  <<k, IF i \in DOMAIN hnsw_data'.deleted THEN hnsw_data'.deleted[i] ELSE kv[k]>>
  <2>1. NodesFrom(kv)' = [i \in DOMAIN hnsw_data'.keys |-> F(i)]
    BY DEF NodesFrom
  <2>2. DOMAIN hnsw_data'.keys = DOMAIN nodes /\ DOMAIN hnsw_data'.deleted = D
    BY <1>2
  <2>3. \A i \in DOMAIN nodes : F(i) = nodes[i]
    <3> SUFFICES ASSUME NEW i \in DOMAIN nodes PROVE F(i) = nodes[i]
      OBVIOUS
    <3>1. hnsw_data'.keys[i] = nodes[i][1] /\ (i \in D => hnsw_data'.deleted[i] = nodes[i][2])
      BY <1>2
    <3> QED
      BY <3>1, <2>2, <1>4, <1>5
  <2> HIDE DEF F
  <2>4. nodes = [i \in DOMAIN nodes |-> nodes[i]]
    BY <1>1
  <2> QED
    BY <2>1, <2>2, <2>3, <2>4
<1>7. DeletedFrom' = deleted_nodes
  <2>1. DeletedFrom' = {<<nodes[i][1], nodes[i][2]>> : i \in D}
    BY <1>2 DEF DeletedFrom
  <2>2. {<<nodes[i][1], nodes[i][2]>> : i \in D} = {nodes[i] : i \in D}
    BY <1>4
  <2>3. {nodes[i] : i \in D} = deleted_nodes
    BY <1>1 DEF ToSet
  <2> QED
    BY <2>1, <2>2, <2>3
<1> QED
  BY <1>2, <1>6, <1>7

(* Loading finds for every node that is not deleted the vector it had.     *)
LEMMA LoadedIsSaved ==
    ASSUME TypeOK, Places, FoundIsCurrent, pending = <<>>, pc = "run", ~loaded,
           IndexOf(NodesFrom(kv), DeletedFrom, kv)
    PROVE  NodesFrom([k \in Key |-> search_embedding(k)]) = NodesFrom(kv)
<1> DEFINE keys    == hnsw_data.keys
           deleted == hnsw_data.deleted
           ns      == NodesFrom(kv)
           found   == [k \in Key |-> search_embedding(k)]
<1>1. /\ keys \in Seq(Key) /\ DOMAIN deleted \subseteq DOMAIN keys
      /\ Current = kv
  BY DEF TypeOK, Places, Current
<1>2. /\ DOMAIN ns = DOMAIN keys
      /\ \A i \in DOMAIN keys :
             ns[i] = <<keys[i], IF i \in DOMAIN deleted THEN deleted[i] ELSE kv[keys[i]]>>
  BY DEF NodesFrom
<1>3. /\ ToSet(ns) \ DeletedFrom = PairsOf(kv)
      /\ \A i, j \in DOMAIN ns : ns[i] = ns[j] => i = j
  BY DEF IndexOf
<1> HIDE DEF ns
<1>4. ASSUME NEW i \in DOMAIN keys, i \notin DOMAIN deleted
      PROVE  found[keys[i]] = kv[keys[i]]
  <2>1. ns[i] = <<keys[i], kv[keys[i]]>> /\ ns[i] \in ToSet(ns) /\ keys[i] \in Key
    BY <1>1, <1>2, <1>4 DEF ToSet
  <2>2. ns[i] \notin DeletedFrom
    <3> SUFFICES ASSUME NEW j \in DOMAIN deleted, ns[i] = <<keys[j], deleted[j]>> PROVE FALSE
      BY DEF DeletedFrom
    <3>1. ns[j] = <<keys[j], deleted[j]>> /\ j \in DOMAIN ns /\ i \in DOMAIN ns
      BY <1>1, <1>2
    <3>2. i = j
      BY <3>1, <1>3
    <3> QED
      BY <3>2, <1>4
  <2>3. kv[keys[i]] # None
    BY <2>1, <2>2, <1>3, PairsAre
  <2>4. search_embedding(keys[i]) = kv[keys[i]]
    BY <2>1, <2>3, <1>1 DEF FoundIsCurrent, VectorsFor
  <2> QED
    BY <2>1, <2>4
<1> HIDE DEF found
<1>5. NodesFrom(found) = NodesFrom(kv)
  BY <1>4 DEF NodesFrom
<1> QED
  BY <1>5 DEF found

(* Before a kill, every step keeps the index, in memory or saved, the      *)
(* store's pairs.                                                          *)
LEMMA IndexStep ==
    ASSUME ~LoadsOverNewer, TypeOK, Places, VectorsCurrent, IndexCurrent, [Next]_vars
    PROVE  IndexCurrent'
<1> SUFFICES ASSUME kills' = 0
             PROVE  /\ (pc # "down" /\ loaded => IndexOf(nodes, deleted_nodes, Current))'
                    /\ (pc = "tables" \/ ~loaded =>
                            hnsw_data # <<>> /\ IndexOf(NodesFrom(kv), DeletedFrom, kv))'
  BY DEF IndexCurrent
<1> USE VectorsAssumption DEF tree
<1>0. ASSUME kills = 0
      PROVE  /\ pc # "down" /\ loaded => IndexOf(nodes, deleted_nodes, Current)
             /\ pc = "tables" \/ ~loaded =>
                    hnsw_data # <<>> /\ IndexOf(NodesFrom(kv), DeletedFrom, kv)
             /\ FoundIsCurrent /\ (pc = "down" => durable = kv)
  BY <1>0 DEF VectorsCurrent, IndexCurrent
<1>1. ASSUME NEW k \in Key, NEW v \in Value, Put(k, v)
      PROVE  IndexOf(nodes, deleted_nodes, Current)' /\ loaded' /\ pc' = "run"
  <2>1. /\ pending = <<>> /\ pc = "run" /\ loaded /\ UNCHANGED <<pc, loaded, kills>>
        /\ IndexPut(k, v) /\ Store(k, v)
    BY <1>1 DEF Put, MayWrite, Idle, Wrote
  <2>2. Current' = [kv EXCEPT ![k] = v]
    BY <2>1, StoreEffect
  <2>3. IndexOf(nodes, deleted_nodes, kv)
    BY <1>0, <2>1 DEF Current
  <2>4. IndexOf(nodes', deleted_nodes', [kv EXCEPT ![k] = v])
    BY <2>1, <2>3, IndexAfterPut
  <2> QED
    BY <2>1, <2>2, <2>4 DEF IndexOf
<1>2. ASSUME NEW k \in Key, Del(k)
      PROVE  IndexOf(nodes, deleted_nodes, Current)' /\ loaded' /\ pc' = "run"
  <2>1. /\ pending = <<>> /\ pc = "run" /\ loaded /\ UNCHANGED <<nodes, pc, loaded, kills>>
        /\ kv[k] # None /\ deleted_nodes' = deleted_nodes \cup {<<k, kv[k]>>}
        /\ Store(k, None)
    BY <1>2 DEF Del, MayWrite, Idle, Wrote
  <2>2. Current' = [kv EXCEPT ![k] = None]
    BY <2>1, StoreEffect
  <2>3. IndexOf(nodes, deleted_nodes, kv)
    BY <1>0, <2>1 DEF Current
  <2>4. IndexOf(nodes, deleted_nodes \cup {<<k, kv[k]>>}, [kv EXCEPT ![k] = None])
    BY <2>1, <2>3, IndexAfterDel
  <2> QED
    BY <2>1, <2>2, <2>4 DEF IndexOf
<1>3. CASE FlushTables
  <2>1. /\ kv' = [kv EXCEPT ![pending[1]] = pending[2]] /\ pending' = <<>> /\ pending # <<>>
        /\ UNCHANGED <<nodes, deleted_nodes, loaded, pc, kills>>
    BY <1>3 DEF FlushTables, memory, bounds
  <2>2. Current' = Current
    BY <2>1 DEF Current
  <2>3. loaded /\ pc = "run"
    BY <2>1 DEF Places
  <2> QED
    BY <1>0, <2>1, <2>2, <2>3 DEF IndexOf
<1>4. CASE reset
  <2>1. /\ nodes' = <<>> /\ deleted_nodes' = {} /\ Current' = NoEntries /\ loaded' /\ pc' = "reset"
    BY <1>4 DEF reset, Idle, Current
  <2>2. ToSet(nodes') = {} /\ DOMAIN nodes' = {}
    BY <2>1 DEF ToSet
  <2>3. PairsOf(Current') = {}
    BY <2>1 DEF PairsOf, NoEntries
  <2> QED
    BY <2>1, <2>2, <2>3 DEF IndexOf
<1>5. CASE search_knn \/ load_embedding_from_disk \/ CloseVectors \/ UNCHANGED vars
  <2>1. UNCHANGED <<kv, pending, nodes, deleted_nodes, hnsw_data, loaded, kills>>
    BY <1>5 DEF search_knn, load_embedding_from_disk, CloseVectors, disk, bounds, vars, memory
  <2>2. (pc' = pc) \/ (pc' = "index" /\ pc = "run")
    BY <1>5 DEF search_knn, load_embedding_from_disk, CloseVectors, disk, bounds, vars, memory, Idle
  <2>3. Current' = Current
    BY <2>1 DEF Current
  <2>4. IndexOf(nodes, deleted_nodes, Current)' <=> IndexOf(nodes, deleted_nodes, Current)
    BY <2>1, <2>3 DEF IndexOf
  <2>5. IndexOf(NodesFrom(kv), DeletedFrom, kv)' <=> IndexOf(NodesFrom(kv), DeletedFrom, kv)
    BY <2>1 DEF IndexOf, NodesFrom, DeletedFrom, PairsOf
  <2> QED
    BY <1>0, <2>1, <2>2, <2>4, <2>5
<1>6. CASE load_hnsw_index_from_disk
  <2>1. /\ pending = <<>> /\ pc = "run" /\ ~loaded /\ loaded' /\ UNCHANGED <<kv, pending, pc, kills>>
        /\ nodes' = NodesFrom([k \in Key |-> search_embedding(k)])
        /\ deleted_nodes' = DeletedFrom
    <3>1. hnsw_data.keys \in Seq(Key)
      BY <1>6 DEF load_hnsw_index_from_disk, Places, TypeOK, Idle
    <3>2. nodes' = NodesFrom([k \in Key |-> search_embedding(k)])
      BY <1>6, <3>1 DEF load_hnsw_index_from_disk, NodesFrom
    <3> QED
      BY <1>6, <3>2 DEF load_hnsw_index_from_disk, DeletedFrom, Idle, disk, bounds
  <2>2. IndexOf(NodesFrom(kv), DeletedFrom, kv) /\ FoundIsCurrent
    BY <1>0, <2>1
  <2>3. nodes' = NodesFrom(kv)
    BY <2>1, <2>2, LoadedIsSaved
  <2>4. Current' = kv
    BY <2>1 DEF Current
  <2> QED
    BY <2>1, <2>2, <2>3, <2>4 DEF IndexOf
<1>7. CASE CloseIndex
  <2>1. /\ hnsw_data' = Saved /\ pc = "index" /\ pc' = "tables" /\ loaded /\ pending = <<>>
        /\ UNCHANGED <<kv, pending, nodes, deleted_nodes, loaded, kills>>
    BY <1>7 DEF CloseIndex, memory, Places
  <2>2. Current = kv /\ Current' = kv
    BY <2>1 DEF Current
  <2>3. IndexOf(nodes, deleted_nodes, kv)
    BY <1>0, <2>1, <2>2
  <2>4. hnsw_data' # <<>> /\ NodesFrom(kv)' = nodes /\ DeletedFrom' = deleted_nodes
    BY <2>1, <2>3, SavedIsIndex
  <2> QED
    BY <2>1, <2>2, <2>3, <2>4 DEF IndexOf
<1>8. CASE CloseTables
  <2>1. pc = "tables" /\ pc' = "down" /\ UNCHANGED <<kv, hnsw_data, kills>>
    BY <1>8 DEF CloseTables, Forget
  <2>2. IndexOf(NodesFrom(kv), DeletedFrom, kv)' <=> IndexOf(NodesFrom(kv), DeletedFrom, kv)
    BY <2>1 DEF IndexOf, NodesFrom, DeletedFrom, PairsOf
  <2> QED
    BY <1>0, <2>1, <2>2
<1>9. CASE Crash
  <2>1. kills \in Nat /\ kills' = kills + 1
    BY <1>9, VectorBoundsAssumption DEF Crash, TypeOK
  <2> QED
    BY <2>1
<1>10. CASE Open
  <2>1. /\ pc = "down" /\ pc' = "run" /\ ~loaded /\ kv' = durable /\ loaded' = (hnsw_data = <<>>)
        /\ UNCHANGED <<hnsw_data, kills>>
    BY <1>10 DEF Open, disk, Places
  <2>2. kv' = kv /\ hnsw_data # <<>>
    BY <1>0, <2>1
  <2>3. IndexOf(NodesFrom(kv), DeletedFrom, kv)' <=> IndexOf(NodesFrom(kv), DeletedFrom, kv)
    BY <2>1, <2>2 DEF IndexOf, NodesFrom, DeletedFrom, PairsOf
  <2> QED
    BY <1>0, <2>1, <2>2, <2>3
<1>11. CASE ResetTables
  <2>1. pc = "reset" /\ pc' = "run" /\ UNCHANGED <<kv, pending, nodes, deleted_nodes, hnsw_data, loaded, kills>>
    BY <1>11 DEF ResetTables, memory
  <2>2. Current' = Current
    BY <2>1 DEF Current
  <2>3. IndexOf(nodes, deleted_nodes, Current)' <=> IndexOf(nodes, deleted_nodes, Current)
    BY <2>1, <2>2 DEF IndexOf
  <2>4. IndexOf(NodesFrom(kv), DeletedFrom, kv)' <=> IndexOf(NodesFrom(kv), DeletedFrom, kv)
    BY <2>1 DEF IndexOf, NodesFrom, DeletedFrom, PairsOf
  <2> QED
    BY <1>0, <2>1, <2>3, <2>4
<1> QED
  BY <1>1, <1>2, <1>3, <1>4, <1>5, <1>6, <1>7, <1>8, <1>9, <1>10, <1>11 DEF Next

---------------------------------------------------------------------------
(* The theorems.                                                           *)

(* The variables keep their types over flushes, kills, restarts, saving    *)
(* and loading.                                                            *)
THEOREM VectorsTyped == Spec => []TypeOK
<1>1. TypeOK /\ Places /\ [Next]_vars => TypeOK' /\ Places'
  BY TypedStep
<1> QED
  BY InitTyped, <1>1, PTL DEF Spec

(* If search_knn finds no new vectors in memory and the process is not     *)
(* killed within reset, then over any other kills the last record of a key *)
(* in embedding.bin fits the value that a table has, or is of a later      *)
(* write of the key: it is never missing and never older                   *)
(* (kvstore.cc:63-76, 139-153).                                            *)
THEOREM VectorsAreDurable ==
    ASSUME ~LoadsOverNewer, ~KillsInReset
    PROVE  Spec => []DurableHasVector
<1> DEFINE Inv == TypeOK /\ Places /\ VectorsKept
<1>1. Init => Inv
  BY InitTyped, InitKept
<1>2. Inv /\ [Next]_vars => Inv'
  BY TypedStep, KeptStep
<1>3. Inv => DurableHasVector
  BY DEF VectorsKept
<1> QED
  BY <1>1, <1>2, <1>3, PTL DEF Spec

(* The inductive invariant, if search_knn finds no new vectors in memory.  *)
THEOREM VectorsInvHolds ==
    ASSUME ~LoadsOverNewer
    PROVE  Spec => []VectorsInv
<1>1. Init => VectorsInv
  BY InitTyped, InitCurrent, InitIndex DEF VectorsInv
<1>2. VectorsInv /\ [Next]_vars => VectorsInv'
  BY TypedStep, CurrentStep, IndexStep DEF VectorsInv
<1> QED
  BY <1>1, <1>2, PTL DEF Spec

(* Before a kill the vector found for a key is that of its value, and what *)
(* search_knn compares are the live pairs, all of them (kvstore.cc:698-717, *)
(* 749-854).                                                               *)
THEOREM VectorsAreCurrent ==
    ASSUME ~LoadsOverNewer
    PROVE  Spec => []EmbeddingIsCurrent
<1>1. VectorsInv => EmbeddingIsCurrent
  <2> SUFFICES ASSUME VectorsInv, kills = 0 PROVE FoundIsCurrent /\ ComparedIsCurrent
    BY DEF EmbeddingIsCurrent
  <2>1. TypeOK /\ FoundIsCurrent
    BY DEF VectorsInv, VectorsCurrent
  <2>2. ASSUME MaySearch, dimension
        PROVE  Compared = PairsOf(kv)
    <3>1. pending = <<>> /\ embeddings = NoEntries
      BY <2>2 DEF MaySearch, Idle
    <3>2. \A k \in Key : Loaded[k] = search_embedding(k)
      BY <2>2, <3>1 DEF Loaded, search_embedding, NoEntries, InFile
    <3>3. \A k \in Key : kv[k] # None => Loaded[k] = kv[k]
      BY <2>1, <3>1, <3>2 DEF FoundIsCurrent, VectorsFor, Current
    <3> QED
      BY <3>3 DEF Compared, PairsOf
  <2> QED
    BY <2>1, <2>2 DEF ComparedIsCurrent
<1> QED
  BY <1>1, VectorsInvHolds, PTL

(* Before a kill the pairs of the index that are not marked as deleted are *)
(* those of the store, each in one node, over adds, updates, restores,     *)
(* deletions, shutdowns and loading (kvstore.cc:86-129, 899-984).          *)
THEOREM IndexStaysStore ==
    ASSUME ~LoadsOverNewer
    PROVE  Spec => []IndexIsStore
<1>1. VectorsInv => IndexIsStore
  BY DEF VectorsInv, IndexCurrent, IndexOf, IndexIsStore
<1> QED
  BY <1>1, VectorsInvHolds, PTL
=============================================================================
