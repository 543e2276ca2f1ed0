--------------------------- MODULE LsmTreeProofs ---------------------------
(***************************************************************************)
(* Theorems about LsmTree for every set of keys, every size of values and  *)
(* tables, every threshold, every number of writes and restarts.           *)
(***************************************************************************)
EXTENDS LsmTree, FiniteSetTheorems, SequenceTheorems, WellFoundedInduction, TLAPS

(* The empty memtable is data.                                             *)
LEMMA NoDataType == NoData \in Data
  BY DEF NoData, Data, NoEntry, Entry

(* What a name leads to on the disk is data, a missing file too.           *)
LEMMA ContentType ==
    ASSUME files \subseteq File, NEW n
    PROVE  Content(n) \in Data
  BY NoDataType DEF Content, File

(* What is cut out of a memtable or of a merge is data again.              *)
LEMMA OnlyType ==
    ASSUME NEW d \in Data, NEW ks
    PROVE  Only(d, ks) \in Data
  BY DEF Only, Data, NoEntry, Entry

(* The outcome of a merge is data, whatever tables go into it.             *)
LEMMA MergedType ==
    ASSUME files \subseteq File, NEW inputs, NEW deepest
    PROVE  Merged(inputs, deepest) \in Data
<1>1. \A n : Content(n) \in Data
  BY ContentType
<1>2. \A n : \A k \in Key : Content(n)[k] \in Entry
  BY <1>1 DEF Data
<1> QED
  BY <1>2, NoDataType DEF Merged, Data, NoEntry, Entry

(* The head of a file is a table's head, and its name is a name.           *)
LEMMA HeadType ==
    ASSUME NEW f \in File
    PROVE  HeadOf(f) \in Table
  BY DEF HeadOf, File, Table, Keys

(* The name of a head or of a file is a name.                              *)
LEMMA NameType ==
    /\ \A h \in Table : NameOf(h) \in Name
    /\ \A f \in File : NameOf(f) \in Name
  BY DEF NameOf, Table, File, Name

(* Writing a file keeps the disk a finite set of files.                    *)
LEMMA WriteType ==
    ASSUME files \subseteq File, IsFiniteSet(files), NEW f \in File
    PROVE  WriteFile(f) \subseteq File /\ IsFiniteSet(WriteFile(f))
<1>1. IsFiniteSet({g \in files : NameOf(g) # NameOf(f)})
  BY FS_Subset
<1> QED
  BY <1>1, FS_AddElement DEF WriteFile

(* Taking one head out of the cache leaves a sequence of heads.            *)
LEMMA RemoveAtType ==
    ASSUME NEW S, NEW q \in Seq(S), NEW i \in DOMAIN q
    PROVE  RemoveAt(q, i) \in Seq(S)
  BY DEF RemoveAt

(* Any order in which a directory is listed is a sequence of its entries.  *)
LEMMA ListingType ==
    ASSUME NEW S, IsFiniteSet(S), NEW order \in SetToSeqs(S)
    PROVE  order \in Seq(S)
<1>1. Cardinality(S) \in Nat
  BY FS_CardinalityType
<1> QED
  BY <1>1 DEF SetToSeqs

(* An entry that a put makes is an entry.                                  *)
LEMMA InsertType ==
    ASSUME s \in Data, latest \in Data, clock \in Nat,
           NEW k \in Key, NEW v \in Value \cup {DEL}, Insert(k, v)
    PROVE  s' \in Data /\ latest' \in Data /\ clock' \in Nat
  BY DEF Insert, NewEntry, Data, Entry

(* One lemma per group of steps shows that they keep Typed.                *)
Typed == TypeOK /\ JobOK /\ IsFiniteSet(files)

(* The store starts with its types.                                        *)
THEOREM TypedInit == Init => Typed
  BY NoDataType, FS_EmptySet, LevelsAssumption DEF Init, Typed, TypeOK, JobOK, NoJob, Place, Level

(* A put or a del that goes to the memtable, or flushes it.                *)
LEMMA TypedStore ==
    ASSUME Typed, NEW k \in Key, NEW v \in Value \cup {DEL}, Store(k, v)
    PROVE  Typed'
<1>1. CASE PutInMemory(k, v)
  <2>1. s' \in Data /\ latest' \in Data /\ clock' \in Nat
    BY <1>1, InsertType DEF PutInMemory, Typed, TypeOK
  <2> QED
    BY <1>1, <2>1 DEF PutInMemory, Typed, TypeOK, JobOK, disk
<1>2. CASE PutAndFlush(k, v)
  <2> DEFINE f == [level |-> 0, time |-> TIME + 1, data |-> s]
  <2>1. f \in File
    BY LevelsAssumption DEF File, Typed, TypeOK, Level
  <2>2. files' \subseteq File /\ IsFiniteSet(files')
    BY <1>2, <2>1, WriteType DEF PutAndFlush, Typed, TypeOK
  <2>4. 0 \in Level
    BY LevelsAssumption DEF Level
  <2>3. sstableIndex' \in [Level -> Seq(Table)]
    <3>1. sstableIndex' = [sstableIndex EXCEPT ![0] = Append(@, HeadOf(f))]
      BY <1>2 DEF PutAndFlush
    <3>2. HeadOf(f) \in Table
      BY <2>1, HeadType
    <3>3. Append(sstableIndex[0], HeadOf(f)) \in Seq(Table)
      BY <2>4, <3>2 DEF Typed, TypeOK
    <3> HIDE DEF f
    <3> QED
      BY <3>1, <3>3 DEF Typed, TypeOK
  <2>5. job' = NoJob /\ job' \in [level : 0..(MaxLevel + 1), rest : Data, doomed : SUBSET Name]
    BY <1>2, NoDataType, LevelsAssumption DEF PutAndFlush, NoJob
  <2>6. pending' \in Seq([key : Key, val : Value \cup {DEL}])
    BY <1>2 DEF PutAndFlush
  <2>7. totalLevel' \in -1..MaxLevel /\ dirs' \subseteq Level
    BY <1>2, <2>4, LevelsAssumption DEF PutAndFlush, Typed, TypeOK, Level
  <2> QED
    BY <1>2, <2>2, <2>3, <2>4, <2>5, <2>6, <2>7, NoDataType
    DEF PutAndFlush, Typed, TypeOK, JobOK, NoJob, Place
<1> QED
  BY <1>1, <1>2 DEF Store

(* A compaction that finds nothing to do, begins, or ends.                 *)
LEMMA TypedCompact ==
    ASSUME Typed, CompactNothing \/ CompactStart \/ CompactEnd
    PROVE  Typed'
<1>1. CASE CompactNothing
  BY <1>1 DEF CompactNothing, Typed, TypeOK, JobOK, Place, store, disk, ghost
<1>2. CASE CompactStart
  <2> DEFINE l      == job.level
             sel    == ToSet(Selected(l))
             deeper == IF l + 1 \notin dirs /\ totalLevel < l + 1 THEN l + 1 ELSE totalLevel
             met    == {h \in ToSet(sstableIndex[l + 1]) : l + 1 <= deeper /\ Overlaps(h, sel)}
             inputs == {NameOf(h) : h \in sel \cup met}
             rest   == Merged(inputs, l + 1 = deeper)
  <2>1. l \in Level /\ l + 1 \in Level
    BY <1>2, LevelsAssumption DEF CompactStart, Typed, JobOK, Level
  <2>2. Selected(l) \in Seq(Table) /\ sstableIndex[l + 1] \in Seq(Table)
    BY <2>1, LevelsAssumption DEF Selected, Typed, TypeOK
  <2>3. sel \subseteq Table /\ met \subseteq Table
    BY <2>2 DEF ToSet
  <2>4. inputs \subseteq Name
    BY <2>3, NameType
  <2>5. rest \in Data
    BY MergedType DEF Typed, TypeOK
  <2>6. job' = [level |-> l, rest |-> rest, doomed |-> inputs]
    BY <1>2 DEF CompactStart
  <2>7. totalLevel' = deeper /\ deeper \in -1..MaxLevel
    BY <1>2, <2>1 DEF CompactStart, Typed, TypeOK, Level
  <2>8. /\ TIME' = TIME + 1 /\ dirs' = dirs \cup {l + 1} /\ pc' \in {"write", "delete"}
        /\ UNCHANGED <<s, sstableIndex, files, pending, ghost>>
    BY <1>2 DEF CompactStart
  <2>9. job' \in [level : 0..(MaxLevel + 1), rest : Data, doomed : SUBSET Name]
    BY <2>1, <2>4, <2>5, <2>6, LevelsAssumption DEF Level
  <2>10. job'.level + 1 \in Level
    BY <2>1, <2>6
  <2> HIDE DEF l, rest, inputs, deeper
  <2> QED
    BY <2>1, <2>7, <2>8, <2>9, <2>10 DEF Typed, TypeOK, JobOK, Place, ghost
<1>3. CASE CompactEnd
  <2>1. job.level \in Level /\ job.level + 1 \in Level
    BY <1>3, LevelsAssumption DEF CompactEnd, Typed, TypeOK, JobOK, Level
  <2>2. \/ pc' = "compact" /\ job' = [NoJob EXCEPT !.level = job.level + 1]
        \/ pc' = "finish" /\ job' = NoJob
    BY <1>3 DEF CompactEnd
  <2>3. job' \in [level : 0..(MaxLevel + 1), rest : Data, doomed : SUBSET Name]
    BY <2>1, <2>2, NoDataType, LevelsAssumption DEF NoJob, Level
  <2>4. /\ pc' = "compact" => job'.level = job.level + 1
        /\ pc' = "finish" => job'.level = 0
    BY <2>2 DEF NoJob
  <2>5. UNCHANGED <<store, disk, pending, ghost>>
    BY <1>3 DEF CompactEnd
  <2> QED
    BY <2>1, <2>2, <2>3, <2>4, <2>5 DEF Typed, TypeOK, JobOK, Place, store, disk, ghost
<1> QED
  BY <1>1, <1>2, <1>3

(* A compaction writes an output table or deletes an input.                *)
LEMMA TypedTables ==
    ASSUME Typed, WriteOutput \/ DeleteInput
    PROVE  Typed'
<1>1. CASE WriteOutput
  <2> DEFINE target == job.level + 1
             f      == [level |-> target, time |-> TIME,
                        data |-> Only(job.rest, Fitting(job.rest))]
             rest   == Only(job.rest, Keys(job.rest) \ Fitting(job.rest))
  <2>1. target \in Level
    BY <1>1 DEF WriteOutput, Typed, JobOK
  <2>2. f \in File
    BY <2>1, OnlyType DEF File, Typed, TypeOK
  <2>3. rest \in Data
    BY OnlyType DEF Typed, TypeOK
  <2>4. /\ files' = WriteFile(f)
        /\ sstableIndex' = [sstableIndex EXCEPT ![target] = Append(@, HeadOf(f))]
        /\ TIME' \in {TIME, TIME + 1}
        /\ pc' \in {"write", "delete"}
        /\ job' = [job EXCEPT !.rest = rest]
        /\ UNCHANGED <<s, dirs, totalLevel, pending, ghost>>
    BY <1>1 DEF WriteOutput
  <2>5. files' \subseteq File /\ IsFiniteSet(files')
    BY <2>2, <2>4, WriteType DEF Typed, TypeOK
  <2>6. Append(sstableIndex[target], HeadOf(f)) \in Seq(Table)
    <3>1. HeadOf(f) \in Table
      BY <2>2, HeadType
    <3> QED
      BY <2>1, <3>1 DEF Typed, TypeOK
  <2>7. job' \in [level : 0..(MaxLevel + 1), rest : Data, doomed : SUBSET Name]
        /\ job'.level + 1 = target
    BY <2>3, <2>4 DEF Typed, TypeOK
  <2>8. sstableIndex' \in [Level -> Seq(Table)]
    BY <2>4, <2>6 DEF Typed, TypeOK
  <2>9. TIME' \in Nat
    BY <2>4 DEF Typed, TypeOK
  <2> HIDE DEF f, rest, target
  <2> QED
    BY <2>1, <2>4, <2>5, <2>7, <2>8, <2>9 DEF Typed, TypeOK, JobOK, Place, ghost
<1>2. CASE DeleteInput
  <2>1. PICK l \in {job.level, job.level + 1} : \E i \in DOMAIN sstableIndex[l] :
          delsstable(l, i)
    BY <1>2 DEF DeleteInput
  <2>2. PICK i \in DOMAIN sstableIndex[l] : delsstable(l, i)
    BY <2>1
  <2>3. l \in Level
    <3>1. job.level \in 0..(MaxLevel + 1) /\ job.level + 1 \in Level
      BY <1>2 DEF DeleteInput, Typed, TypeOK, JobOK
    <3> QED
      BY <3>1, LevelsAssumption DEF Level
  <2>4. RemoveAt(sstableIndex[l], i) \in Seq(Table)
    BY <2>3, RemoveAtType DEF Typed, TypeOK
  <2>5. sstableIndex' \in [Level -> Seq(Table)]
    BY <2>2, <2>4 DEF delsstable, Typed, TypeOK
  <2>6. files' \subseteq files /\ IsFiniteSet(files')
    BY <2>2, FS_Subset DEF delsstable, Typed
  <2>7. job' \in [level : 0..(MaxLevel + 1), rest : Data, doomed : SUBSET Name]
        /\ job'.level = job.level
    BY <2>2 DEF delsstable, Typed, TypeOK
  <2> QED
    BY <1>2, <2>5, <2>6, <2>7 DEF DeleteInput, Typed, TypeOK, JobOK, ghost
<1> QED
  BY <1>1, <1>2

(* The put or the destructor that called compaction goes on.               *)
LEMMA TypedFinish ==
    ASSUME Typed, FinishPut \/ FinishClose
    PROVE  Typed'
<1>1. CASE FinishPut
  <2> DEFINE R == [key : Key, val : Value \cup {DEL}]
  <2>0. pending \in Seq(R) /\ pending # <<>>
    BY <1>1 DEF FinishPut, Typed, TypeOK
  <2>1. pending[1].key \in Key /\ pending[1].val \in Value \cup {DEL}
    <3> HIDE DEF R
    <3>1. pending[1] \in R
      BY <2>0
    <3> QED
      BY <3>1 DEF R
  <2>2. s' \in Data /\ latest' \in Data /\ clock' \in Nat
    BY <1>1, <2>1, InsertType DEF FinishPut, Typed, TypeOK
  <2> QED
    BY <1>1, <2>2 DEF FinishPut, Typed, TypeOK, JobOK, Place, disk
<1>2. CASE FinishClose
  BY <1>2, NoDataType, LevelsAssumption
  DEF FinishClose, Forget, Typed, TypeOK, JobOK, NoJob, Place, disk
<1> QED
  BY <1>1, <1>2

(* The steps of reset.                                                     *)
LEMMA TypedReset ==
    ASSUME Typed, Reset \/ ResetFile \/ ResetDir \/ ResetDone
    PROVE  Typed'
<1>1. CASE Reset
  BY <1>1, NoDataType DEF Reset, Typed, TypeOK, JobOK, Place, disk
<1>2. CASE ResetFile
  <2>1. files' \subseteq files /\ IsFiniteSet(files')
    BY <1>2, FS_Subset DEF ResetFile, Typed
  <2> QED
    BY <1>2, <2>1 DEF ResetFile, Typed, TypeOK, JobOK, store, ghost
<1>3. CASE ResetDir
  <2>1. job.level + 1 \in 0..(MaxLevel + 1)
    BY <1>3, LevelsAssumption DEF ResetDir, Typed, TypeOK
  <2>2. job' \in [level : 0..(MaxLevel + 1), rest : Data, doomed : SUBSET Name]
    BY <1>3, <2>1 DEF ResetDir, Typed, TypeOK
  <2>3. sstableIndex' \in [Level -> Seq(Table)]
    <3>1. << >> \in Seq(Table)
      OBVIOUS
    <3>2. sstableIndex' = [sstableIndex EXCEPT ![job.level] = << >>]
      BY <1>3 DEF ResetDir
    <3> QED
      BY <3>1, <3>2 DEF Typed, TypeOK
  <2>4. dirs' \subseteq Level /\ pc' = "reset"
        /\ UNCHANGED <<s, totalLevel, TIME, files, pending, clock, latest, flushed, restarts>>
    BY <1>3 DEF ResetDir, Typed, TypeOK, ghost
  <2> QED
    BY <2>2, <2>3, <2>4 DEF Typed, TypeOK, JobOK, Place
<1>4. CASE ResetDone
  BY <1>4, NoDataType, LevelsAssumption
  DEF ResetDone, Typed, TypeOK, JobOK, NoJob, Place, disk, ghost
<1> QED
  BY <1>1, <1>2, <1>3, <1>4

(* The end of the process: closed with an empty memtable, closed,          *)
(* killed.                                                                 *)
LEMMA TypedEnd ==
    ASSUME Typed, CloseEmpty \/ Close \/ Crash
    PROVE  Typed'
<1>1. CASE CloseEmpty
  BY <1>1, NoDataType, LevelsAssumption
  DEF CloseEmpty, Forget, Typed, TypeOK, JobOK, NoJob, Place, disk
<1>2. CASE Close
  <2> DEFINE f == [level |-> 0, time |-> TIME + 1, data |-> s]
  <2>1. 0 \in Level
    BY LevelsAssumption DEF Level
  <2>2. f \in File
    BY <2>1 DEF File, Typed, TypeOK
  <2>3. files' \subseteq File /\ IsFiniteSet(files')
    BY <1>2, <2>2, WriteType DEF Close, Typed, TypeOK
  <2>4. totalLevel' \in -1..MaxLevel /\ dirs' \subseteq Level
    BY <1>2, <2>1, LevelsAssumption DEF Close, Typed, TypeOK
  <2>5. job' \in [level : 0..(MaxLevel + 1), rest : Data, doomed : SUBSET Name]
        /\ job'.level = 0
    BY <1>2, NoDataType, LevelsAssumption DEF Close, NoJob
  <2> QED
    BY <1>2, <2>1, <2>3, <2>4, <2>5 DEF Close, Typed, TypeOK, JobOK, Place
<1>3. CASE Crash
  BY <1>3, NoDataType, LevelsAssumption
  DEF Crash, Forget, Typed, TypeOK, JobOK, NoJob, Place, disk
<1> QED
  BY <1>1, <1>2, <1>3

(* The steps of the constructor.                                           *)
LEMMA TypedOpen ==
    ASSUME Typed, OpenStart \/ OpenLevel \/ OpenDone
    PROVE  Typed'
<1>1. CASE OpenStart
  BY <1>1 DEF OpenStart, Typed, TypeOK, JobOK, Place, store, disk, ghost
<1>2. CASE OpenLevel
  <2> DEFINE here == {HeadOf(f) : f \in {g \in files : g.level = job.level}}
  <2>1. here \subseteq Table
    BY HeadType DEF Typed, TypeOK
  <2>2. IsFiniteSet(here)
    <3>1. IsFiniteSet({g \in files : g.level = job.level})
      BY FS_Subset DEF Typed
    <3> DEFINE local == {g \in files : g.level = job.level}
               heads == [g \in local |-> HeadOf(g)]
    <3>2. heads \in Surjection(local, here)
      BY DEF Surjection
    <3> QED
      BY <3>1, <3>2, FS_Surjection
  <2>3. PICK order \in SetToSeqs(here) :
          sstableIndex' = [sstableIndex EXCEPT ![job.level] = order]
    BY <1>2 DEF OpenLevel
  <2>4. order \in Seq(here)
    BY <2>2, ListingType
  <2>5. order \in Seq(Table)
    BY <2>1, <2>4
  <2>6. sstableIndex' \in [Level -> Seq(Table)]
    BY <2>3, <2>5 DEF Typed, TypeOK
  <2>7. TIME' \in Nat
    BY <1>2, <2>1 DEF OpenLevel, Typed, TypeOK, Table
  <2>8. job.level + 1 \in 0..(MaxLevel + 1)
    BY <1>2, LevelsAssumption DEF OpenLevel, Typed, TypeOK, Level
  <2> QED
    BY <1>2, <2>6, <2>7, <2>8 DEF OpenLevel, Typed, TypeOK, JobOK, disk, ghost
<1>3. CASE OpenDone
  BY <1>3, NoDataType, LevelsAssumption
  DEF OpenDone, Typed, TypeOK, JobOK, NoJob, Place, disk, ghost
<1> QED
  BY <1>1, <1>2, <1>3

(* Every step of the store keeps the types.                                *)
LEMMA TypedNext ==
    ASSUME Typed, [Next]_vars
    PROVE  Typed'
<1>1. CASE Continue
  BY <1>1, TypedCompact, TypedTables, TypedFinish, TypedReset, TypedOpen DEF Continue
<1>2. CASE Call
  <2>1. ASSUME NEW k \in Key, Del(k) PROVE Typed'
    BY <2>1, TypedStore DEF Del
  <2>2. ASSUME NEW k \in Key, NEW v \in Value, Put(k, v) PROVE Typed'
    BY <2>2, TypedStore DEF Put
  <2> QED
    BY <1>2, <2>1, <2>2, TypedReset, TypedEnd DEF Call
<1>3. CASE OpenStart \/ Crash
  BY <1>3, TypedOpen, TypedEnd
<1>4. CASE UNCHANGED vars
  BY <1>4 DEF vars, store, disk, ghost, Typed, TypeOK, JobOK
<1> QED
  BY <1>1, <1>2, <1>3, <1>4 DEF Next

(* The variables of the store keep their types in every behaviour.         *)
THEOREM TypeCorrect == Spec => []TypeOK
<1>1. Init => Typed
  BY TypedInit
<1>2. Typed /\ [Next]_vars => Typed'
  BY TypedNext
<1>3. Typed => TypeOK
  BY DEF Typed
<1> QED
  BY <1>1, <1>2, <1>3, PTL DEF Spec
---------------------------------------------------------------------------
(* The names of files.  A kill within reset leaves the directories of the  *)
(* deeper levels without those of the first ones, and the next process     *)
(* does not read their timestamps: the theorems below are about stores     *)
(* that are not killed there.                                              *)

Fresh == Typed /\ DirsOK /\ TimesRead /\ NamesAreFresh

(* The empty store has fresh names.                                        *)
THEOREM FreshInit == Init => Fresh
  BY TypedInit DEF Init, Fresh, DirsOK, TimesRead, NamesAreFresh, Up

(* The memtable goes to a new file of level 0, in put or the destructor.   *)
LEMMA FreshFile ==
    ASSUME Fresh, pc = "idle", NEW f \in File, f.level = 0, f.time = TIME + 1,
           files' = WriteFile(f), TIME' = TIME + 1, dirs' = dirs \cup {0},
           totalLevel' = IF 0 \in dirs THEN totalLevel ELSE 0,
           pc' = "compact", job'.level = 0
    PROVE  DirsOK' /\ TimesRead' /\ NamesAreFresh'
<1>1. \A g \in files' : g \in files \/ g = f
  BY DEF WriteFile
<1>2. TIME \in Nat /\ \A g \in files : g.time \in Nat /\ g.time <= TIME
  BY DEF Fresh, NamesAreFresh, Up, Typed, TypeOK, File
<1>3. NamesAreFresh'
  BY <1>1, <1>2 DEF NamesAreFresh
<1>4. 0 \in Level /\ \A l \in dirs : l \in Nat
  BY LevelsAssumption DEF Fresh, Typed, TypeOK, Level
<1>5. \A l \in dirs : \A m \in Level : m < l => m \in dirs
  BY DEF Fresh, DirsOK
<1>6. \A l \in dirs' : l <= totalLevel'
  <2>1. CASE 0 \in dirs
    BY <2>1 DEF Fresh, DirsOK, Up
  <2>2. CASE 0 \notin dirs
    <3>1. ASSUME NEW l \in dirs PROVE FALSE
      <4>1. 0 < l
        BY <1>4, <2>2
      <4> QED
        BY <1>4, <1>5, <2>2, <4>1
    <3> QED
      BY <2>2, <3>1
  <2> QED
    BY <2>1, <2>2
<1>7. \A l \in dirs' : \A m \in Level : m < l => m \in dirs'
  <2>1. \A m \in Level : ~(m < 0)
    BY LevelsAssumption DEF Level
  <2> QED
    BY <1>5, <2>1
<1>8. \A g \in files' : g.level \in dirs'
  BY <1>1 DEF Fresh, DirsOK
<1> QED
  BY <1>3, <1>6, <1>7, <1>8 DEF DirsOK, TimesRead

(* A put or a del keeps the names fresh.                                   *)
LEMMA FreshStore ==
    ASSUME Fresh, NEW k \in Key, NEW v \in Value \cup {DEL}, Store(k, v)
    PROVE  DirsOK' /\ TimesRead' /\ NamesAreFresh'
<1>1. CASE PutInMemory(k, v)
  BY <1>1 DEF PutInMemory, Fresh, DirsOK, TimesRead, NamesAreFresh, Up, disk
<1>2. CASE PutAndFlush(k, v)
  <2> DEFINE f == [level |-> 0, time |-> TIME + 1, data |-> s]
  <2>1. f \in File /\ f.level = 0 /\ f.time = TIME + 1
    BY LevelsAssumption DEF File, Fresh, Typed, TypeOK, Level
  <2>2. pc = "idle" /\ pc' = "compact" /\ TIME' = TIME + 1
        /\ dirs' = dirs \cup {0} /\ totalLevel' = IF 0 \in dirs THEN totalLevel ELSE 0
    BY <1>2 DEF PutAndFlush, Store
  <2>3. job'.level = 0
    BY <1>2 DEF PutAndFlush, NoJob
  <2>4. files' = WriteFile(f)
    BY <1>2 DEF PutAndFlush
  <2> HIDE DEF f
  <2> QED
    BY <2>1, <2>2, <2>3, <2>4, FreshFile
<1> QED
  BY <1>1, <1>2 DEF Store

(* A compaction that finds nothing, begins or ends keeps the names         *)
(* fresh.                                                                  *)
LEMMA FreshCompact ==
    ASSUME Fresh, CompactNothing \/ CompactStart \/ CompactEnd
    PROVE  DirsOK' /\ TimesRead' /\ NamesAreFresh'
<1>1. CASE CompactNothing
  BY <1>1 DEF CompactNothing, Fresh, DirsOK, TimesRead, NamesAreFresh, Up, store, disk
<1>2. CASE CompactStart
  <2>1. /\ pc = "compact" /\ pc' \in {"write", "delete"} /\ job'.level = job.level
        /\ job.level \in Level /\ job.level < MaxLevel
        /\ dirs' = dirs \cup {job.level + 1}
        /\ totalLevel' = IF job.level + 1 \notin dirs /\ totalLevel < job.level + 1
                         THEN job.level + 1 ELSE totalLevel
        /\ TIME' = TIME + 1 /\ files' = files
    BY <1>2 DEF CompactStart, Fresh, Typed, JobOK
  <2>2. job.level \in dirs
    BY <2>1 DEF Fresh, DirsOK
  <2>3. \A l \in dirs : l \in Int /\ l <= totalLevel
    BY <2>1, LevelsAssumption DEF Fresh, DirsOK, Up, Typed, TypeOK, Level
  <2>4. \A l \in dirs' : l <= totalLevel'
    <3>1. totalLevel \in Int /\ job.level + 1 \in Int
      BY <2>1, LevelsAssumption DEF Fresh, Typed, TypeOK, Level
    <3>2. totalLevel <= totalLevel'
      BY <2>1, <3>1
    <3>3. job.level + 1 <= totalLevel'
      BY <2>1, <2>3, <3>1
    <3>4. totalLevel' \in Int
      BY <2>1, <3>1
    <3> QED
      BY <2>1, <2>3, <3>1, <3>2, <3>3, <3>4
  <2>5. \A l \in dirs' : \A m \in Level : m < l => m \in dirs'
    BY <2>1, <2>2, LevelsAssumption DEF Fresh, DirsOK, Level
  <2>6. \A f \in files : f.time < TIME'
    BY <2>1 DEF Fresh, NamesAreFresh, Up, Typed, TypeOK, File
  <2>7. \A f \in files : f.time <= TIME'
    BY <2>1, <2>6 DEF Fresh, Typed, TypeOK, File
  <2> QED
    BY <2>1, <2>4, <2>5, <2>6, <2>7 DEF Fresh, DirsOK, TimesRead, NamesAreFresh
<1>3. CASE CompactEnd
  <2>1. /\ pc = "delete"
        /\ \/ pc' = "compact" /\ job'.level = job.level + 1
           \/ pc' = "finish"
        /\ UNCHANGED <<files, dirs, totalLevel, TIME>>
    BY <1>3 DEF CompactEnd, NoJob, store, disk
  <2> QED
    BY <2>1 DEF Fresh, DirsOK, TimesRead, NamesAreFresh, Up
<1> QED
  BY <1>1, <1>2, <1>3

(* An output table takes a fresh name, a deleted input frees one.          *)
LEMMA FreshTables ==
    ASSUME Fresh, WriteOutput \/ DeleteInput
    PROVE  DirsOK' /\ TimesRead' /\ NamesAreFresh'
<1>1. CASE WriteOutput
  <2> DEFINE f == [level |-> job.level + 1, time |-> TIME,
                   data |-> Only(job.rest, Fitting(job.rest))]
  <2>1. /\ pc = "write" /\ pc' \in {"write", "delete"}
        /\ files' = WriteFile(f) /\ UNCHANGED <<dirs, totalLevel>>
        /\ TIME' \in {TIME, TIME + 1}
        /\ pc' = "write" => TIME' = TIME + 1
    BY <1>1 DEF WriteOutput
  <2>2. job'.level = job.level
    BY <1>1 DEF WriteOutput, Fresh, Typed, TypeOK
  <2>3. \A g \in files' : g \in files \/ g = f
    BY <2>1 DEF WriteFile
  <2>4. f.level = job.level + 1 /\ f.time = TIME
    OBVIOUS
  <2>5. \A g \in files : g.time \in Nat /\ g.time < TIME
    BY <2>1 DEF Fresh, NamesAreFresh, Typed, TypeOK, File
  <2>6. TIME \in Nat
    BY DEF Fresh, Typed, TypeOK
  <2> HIDE DEF f
  <2>7. NamesAreFresh'
    BY <2>1, <2>3, <2>4, <2>5, <2>6 DEF NamesAreFresh
  <2>8. \A g \in files' : g.level \in dirs'
    BY <2>1, <2>3, <2>4 DEF Fresh, DirsOK
  <2> QED
    BY <2>1, <2>2, <2>7, <2>8 DEF Fresh, DirsOK, TimesRead, Up
<1>2. CASE DeleteInput
  <2>1. PICK l \in {job.level, job.level + 1} : \E i \in DOMAIN sstableIndex[l] :
          delsstable(l, i)
    BY <1>2 DEF DeleteInput
  <2>2. files' \subseteq files
    BY <2>1 DEF delsstable
  <2>3. job'.level = job.level
    BY <2>1 DEF delsstable, Fresh, Typed, TypeOK
  <2>4. pc = "delete" /\ UNCHANGED <<totalLevel, TIME, dirs, pc>>
    BY <1>2 DEF DeleteInput
  <2> QED
    BY <2>2, <2>3, <2>4 DEF Fresh, DirsOK, TimesRead, NamesAreFresh, Up
<1> QED
  BY <1>1, <1>2

(* reset takes files and directories away from the first level on.         *)
LEMMA FreshReset ==
    ASSUME Fresh, Reset \/ ResetFile \/ ResetDir \/ ResetDone
    PROVE  DirsOK' /\ TimesRead' /\ NamesAreFresh'
<1>1. CASE Reset
  <2>1. pc = "idle" /\ pc' = "reset" /\ UNCHANGED <<files, dirs, totalLevel, TIME, job>>
    BY <1>1 DEF Reset, disk
  <2>2. job.level = 0
    BY <2>1 DEF Fresh, Typed, JobOK
  <2> QED
    BY <2>1, <2>2, LevelsAssumption
    DEF Fresh, DirsOK, TimesRead, NamesAreFresh, Up, Typed, TypeOK, Level
<1>2. CASE ResetFile
  <2>1. files' \subseteq files /\ pc = "reset"
        /\ UNCHANGED <<dirs, totalLevel, TIME, pc, job>>
    BY <1>2 DEF ResetFile, store
  <2> QED
    BY <2>1 DEF Fresh, DirsOK, TimesRead, NamesAreFresh, Up
<1>3. CASE ResetDir
  <2>1. /\ pc = "reset" /\ pc' = "reset"
        /\ \A f \in files : f.level # job.level
        /\ dirs' = dirs \ {job.level}
        /\ UNCHANGED <<files, totalLevel, TIME>>
    BY <1>3 DEF ResetDir
  <2>2. job'.level = job.level + 1
    BY <1>3 DEF ResetDir, Fresh, Typed, TypeOK
  <2>3. \A l \in dirs : l \in Nat /\ job.level \in Nat /\ job.level <= l
    BY <2>1, LevelsAssumption DEF Fresh, DirsOK, Typed, TypeOK, Level
  <2>4. \A l \in dirs' : job'.level <= l
    BY <2>1, <2>2, <2>3
  <2> QED
    BY <2>1, <2>4 DEF Fresh, DirsOK, TimesRead, NamesAreFresh, Up
<1>4. CASE ResetDone
  <2>1. /\ pc = "reset" /\ pc' = "idle" /\ job.level > totalLevel
        /\ totalLevel' = -1 /\ UNCHANGED <<files, dirs, TIME>>
    BY <1>4 DEF ResetDone, disk
  <2>2. dirs = {}
    BY <2>1, LevelsAssumption DEF Fresh, DirsOK, Up, Typed, TypeOK, Level
  <2>3. files = {}
    BY <2>2 DEF Fresh, DirsOK
  <2> QED
    BY <2>1, <2>2, <2>3 DEF DirsOK, TimesRead, NamesAreFresh
<1> QED
  BY <1>1, <1>2, <1>3, <1>4

(* The end of the process leaves the directories of the first levels.      *)
LEMMA FreshEnd ==
    ASSUME Fresh, "reset" \notin CrashPoints,
           CloseEmpty \/ Close \/ FinishPut \/ FinishClose \/ Crash
    PROVE  DirsOK' /\ TimesRead' /\ NamesAreFresh'
<1>1. CASE CloseEmpty \/ FinishClose \/ Crash
  <2>1. pc # "reset" /\ pc' = "down" /\ UNCHANGED <<files, dirs>>
    BY <1>1 DEF CloseEmpty, FinishClose, Crash, Forget, disk
  <2> QED
    BY <2>1 DEF Fresh, DirsOK, TimesRead, NamesAreFresh, Up
<1>2. CASE Close
  <2> DEFINE f == [level |-> 0, time |-> TIME + 1, data |-> s]
  <2>1. f \in File /\ f.level = 0 /\ f.time = TIME + 1
    BY LevelsAssumption DEF File, Fresh, Typed, TypeOK, Level
  <2>2. pc = "idle" /\ pc' = "compact" /\ TIME' = TIME + 1
        /\ dirs' = dirs \cup {0} /\ totalLevel' = IF 0 \in dirs THEN totalLevel ELSE 0
    BY <1>2 DEF Close
  <2>3. job'.level = 0
    BY <1>2 DEF Close, NoJob
  <2>4. files' = WriteFile(f)
    BY <1>2 DEF Close
  <2> HIDE DEF f
  <2> QED
    BY <2>1, <2>2, <2>3, <2>4, FreshFile
<1>3. CASE FinishPut
  <2>1. pc = "finish" /\ pc' = "idle" /\ UNCHANGED <<files, dirs, totalLevel, TIME>>
    BY <1>3 DEF FinishPut, disk
  <2> QED
    BY <2>1 DEF Fresh, DirsOK, TimesRead, NamesAreFresh, Up
<1> QED
  BY <1>1, <1>2, <1>3

(* The constructor sees all files, since no level is missing before        *)
(* them.                                                                   *)
LEMMA FreshOpen ==
    ASSUME Fresh, OpenStart \/ OpenLevel \/ OpenDone
    PROVE  DirsOK' /\ TimesRead' /\ NamesAreFresh'
<1>1. CASE OpenStart
  <2>1. pc = "down" /\ pc' = "open" /\ UNCHANGED <<files, dirs, totalLevel, TIME, job>>
    BY <1>1 DEF OpenStart, store, disk
  <2>2. job.level = 0
    BY <2>1 DEF Fresh, Typed, JobOK
  <2>3. \A f \in files : ~(f.level < 0)
    BY LevelsAssumption DEF Fresh, Typed, TypeOK, File, Level
  <2> QED
    BY <2>1, <2>2, <2>3 DEF Fresh, DirsOK, TimesRead, NamesAreFresh, Up
<1>2. CASE OpenLevel
  <2> DEFINE times == {TIME} \cup {h.time : h \in {HeadOf(f) : f \in {g \in files : g.level = job.level}}}
  <2>1. pc = "open" /\ pc' = "open" /\ UNCHANGED <<files, dirs, totalLevel>>
    BY <1>2 DEF OpenLevel, disk
  <2>2. job'.level = job.level + 1
    BY <1>2 DEF OpenLevel, Fresh, Typed, TypeOK
  <2>3. \A u \in times : u <= TIME'
    BY <1>2 DEF OpenLevel
  <2>4. TIME \in times /\ TIME' \in times
    BY <1>2 DEF OpenLevel
  <2>5. ASSUME NEW f \in files, f.level = job.level PROVE f.time \in times
    <3>1. HeadOf(f) \in {HeadOf(g) : g \in {g \in files : g.level = job.level}}
      BY <2>5
    <3>2. HeadOf(f).time = f.time
      BY DEF HeadOf
    <3> QED
      BY <3>1, <3>2
  <2>6. /\ job.level \in Nat /\ TIME \in Nat /\ \A f \in files : f.level \in Nat /\ f.time \in Nat
    BY LevelsAssumption DEF Fresh, Typed, TypeOK, File, Level
  <2>7. TIME' \in Nat
    BY <2>4, <2>6 DEF HeadOf
  <2>8. TIME <= TIME'
    BY <2>3, <2>4
  <2>9. ASSUME NEW f \in files, f.level < job.level + 1 PROVE f.time <= TIME'
    <3>1. CASE f.level = job.level
      BY <2>3, <2>5, <3>1
    <3>2. CASE f.level < job.level
      <4>1. f.time <= TIME
        BY <2>1, <3>2 DEF Fresh, TimesRead
      <4> HIDE DEF times
      <4> QED
        BY <2>6, <2>7, <2>8, <4>1
    <3> QED
      BY <2>6, <2>9, <3>1, <3>2
  <2> QED
    BY <2>1, <2>2, <2>9 DEF Fresh, DirsOK, TimesRead, NamesAreFresh, Up
<1>3. CASE OpenDone
  <2>1. /\ pc = "open" /\ pc' = "idle" /\ job.level \notin dirs
        /\ totalLevel' = job.level - 1 /\ UNCHANGED <<files, dirs, TIME>>
    BY <1>3 DEF OpenDone, disk
  <2>2. \A l \in dirs : l < job.level
    <3>1. ASSUME NEW l \in dirs, job.level < l PROVE FALSE
      <4>1. job.level \in Level
        BY <3>1, LevelsAssumption DEF Fresh, Typed, TypeOK, Level
      <4> QED
        BY <2>1, <3>1, <4>1 DEF Fresh, DirsOK
    <3> QED
      BY <2>1, <3>1, LevelsAssumption DEF Fresh, Typed, TypeOK, Level
  <2>3. \A l \in dirs : l <= totalLevel'
    BY <2>1, <2>2, LevelsAssumption DEF Fresh, Typed, TypeOK, Level
  <2>4. \A f \in files : f.time <= TIME
    BY <2>1, <2>2 DEF Fresh, DirsOK, TimesRead
  <2> QED
    BY <2>1, <2>3, <2>4 DEF Fresh, DirsOK, TimesRead, NamesAreFresh, Up
<1> QED
  BY <1>1, <1>2, <1>3

(* Every step keeps the names fresh.                                       *)
LEMMA FreshNext ==
    ASSUME Fresh, "reset" \notin CrashPoints, [Next]_vars
    PROVE  Fresh'
<1>0. Typed'
  BY TypedNext DEF Fresh
<1>1. CASE Continue
  <2>1. DirsOK' /\ TimesRead' /\ NamesAreFresh'
    BY <1>1, FreshCompact, FreshTables, FreshReset, FreshEnd, FreshOpen DEF Continue
  <2> QED
    BY <1>0, <2>1 DEF Fresh
<1>2. CASE Call
  <2>1. ASSUME NEW k \in Key, Del(k) PROVE DirsOK' /\ TimesRead' /\ NamesAreFresh'
    BY <2>1, FreshStore DEF Del
  <2>2. ASSUME NEW k \in Key, NEW v \in Value, Put(k, v)
        PROVE  DirsOK' /\ TimesRead' /\ NamesAreFresh'
    BY <2>2, FreshStore DEF Put
  <2>3. DirsOK' /\ TimesRead' /\ NamesAreFresh'
    BY <1>2, <2>1, <2>2, FreshReset, FreshEnd DEF Call
  <2> QED
    BY <1>0, <2>3 DEF Fresh
<1>3. CASE OpenStart \/ Crash
  BY <1>0, <1>3, FreshOpen, FreshEnd DEF Fresh
<1>4. CASE UNCHANGED vars
  BY <1>0, <1>4 DEF vars, store, disk, Fresh, DirsOK, TimesRead, NamesAreFresh, Up
<1> QED
  BY <1>1, <1>2, <1>3, <1>4 DEF Next

(* No timestamp is ever given to two files of a level, whatever order the  *)
(* calls, the merges and the restarts come in.                             *)
LEMMA FreshAlways ==
    ASSUME "reset" \notin CrashPoints
    PROVE  Spec => []Fresh
<1>1. Init => Fresh
  BY FreshInit
<1>2. Fresh /\ [Next]_vars => Fresh'
  BY FreshNext
<1> QED
  BY <1>1, <1>2, PTL DEF Spec

(* While the process runs, get, scan and reset, which walk the levels up   *)
(* to totalLevel, reach every file of the store.                           *)
THEOREM FilesInReach ==
    ASSUME "reset" \notin CrashPoints
    PROVE  Spec => []EveryFileInReach
<1>1. Fresh => EveryFileInReach
  BY DEF Fresh, DirsOK, EveryFileInReach
<1> QED
  BY <1>1, FreshAlways, PTL

NewFile(f) == files' = WriteFile(f) /\ \A g \in files : g.time # f.time

(* A step deletes files, or writes one file with a time no file has.       *)
LEMMA FileSteps ==
    ASSUME Fresh, [Next]_vars
    PROVE  files' \subseteq files \/ \E f : NewFile(f)
<1>1. ASSUME NEW f, f.time = TIME + 1, pc = "idle", files' = WriteFile(f)
      PROVE  NewFile(f)
  <2>1. \A g \in files : g.time \in Nat /\ g.time <= TIME
    BY <1>1 DEF Fresh, NamesAreFresh, Up, Typed, TypeOK, File
  <2>2. \A g \in files : g.time # f.time
    BY <1>1, <2>1 DEF Fresh, Typed, TypeOK
  <2> QED
    BY <1>1, <2>2 DEF NewFile
<1>2. ASSUME NEW k \in Key, NEW v, Store(k, v)
      PROVE  files' = files \/ \E f : NewFile(f)
  <2>1. CASE PutInMemory(k, v)
    BY <2>1 DEF PutInMemory, disk
  <2>2. CASE PutAndFlush(k, v)
    <3> DEFINE f == [level |-> 0, time |-> TIME + 1, data |-> s]
    <3>1. files' = WriteFile(f) /\ pc = "idle"
      BY <1>2, <2>2 DEF PutAndFlush, Store
    <3>2. f.time = TIME + 1
      OBVIOUS
    <3> HIDE DEF f
    <3> QED
      BY <1>1, <3>1, <3>2
  <2> QED
    BY <1>2, <2>1, <2>2 DEF Store
<1>3. CASE Close
  <2> DEFINE f == [level |-> 0, time |-> TIME + 1, data |-> s]
  <2>1. files' = WriteFile(f) /\ pc = "idle"
    BY <1>3 DEF Close
  <2>2. f.time = TIME + 1
    OBVIOUS
  <2> HIDE DEF f
  <2> QED
    BY <1>1, <2>1, <2>2
<1>4. CASE WriteOutput
  <2> DEFINE f == [level |-> job.level + 1, time |-> TIME,
                   data |-> Only(job.rest, Fitting(job.rest))]
  <2>1. files' = WriteFile(f) /\ pc = "write"
    BY <1>4 DEF WriteOutput
  <2>2. f.time = TIME
    OBVIOUS
  <2> HIDE DEF f
  <2>3. \A g \in files : g.time \in Nat /\ g.time < TIME
    BY <2>1 DEF Fresh, NamesAreFresh, Typed, TypeOK, File
  <2>4. \A g \in files : g.time # f.time
    BY <2>2, <2>3 DEF Fresh, Typed, TypeOK
  <2>5. NewFile(f)
    BY <2>1, <2>4 DEF NewFile
  <2> QED
    BY <2>5
<1>5. CASE DeleteInput
  BY <1>5 DEF DeleteInput, delsstable
<1>6. CASE CompactNothing \/ CompactStart \/ CompactEnd \/ FinishPut \/ FinishClose
  BY <1>6 DEF CompactNothing, CompactStart, CompactEnd, FinishPut, FinishClose, disk
<1>7. CASE Reset \/ ResetFile \/ ResetDir \/ ResetDone
  BY <1>7 DEF Reset, ResetFile, ResetDir, ResetDone, disk
<1>8. CASE OpenStart \/ OpenLevel \/ OpenDone \/ CloseEmpty \/ Crash
  BY <1>8 DEF OpenStart, OpenLevel, OpenDone, CloseEmpty, Crash, disk
<1>9. CASE UNCHANGED vars
  BY <1>9 DEF vars, disk
<1>10. CASE \E k \in Key : Del(k) \/ \E v \in Value : Put(k, v)
  BY <1>2, <1>10 DEF Del, Put
<1> QED
  BY <1>3, <1>4, <1>5, <1>6, <1>7, <1>8, <1>9, <1>10 DEF Next, Continue, Call

UniqueNames == \A f, g \in files : NameOf(f) = NameOf(g) => f = g

(* A step changes no file that stays, and two files never share a name.    *)
LEMMA FilesStay ==
    ASSUME Fresh, UniqueNames, [Next]_vars
    PROVE  /\ \A f \in files : \A g \in files' : NameOf(f) = NameOf(g) => f = g
           /\ UniqueNames'
<1>1. CASE files' \subseteq files
  BY <1>1 DEF UniqueNames
<1>2. ASSUME NEW f, NewFile(f)
      PROVE  /\ \A g \in files : \A h \in files' : NameOf(g) = NameOf(h) => g = h
             /\ UniqueNames'
  <2>1. \A h \in files' : h \in files \/ h = f
    BY <1>2 DEF NewFile, WriteFile
  <2>2. \A g \in files : NameOf(g) # NameOf(f)
    BY <1>2 DEF NewFile, NameOf
  <2>3. \A h \in files' : NameOf(h)' = NameOf(h)
    BY DEF NameOf
  <2> QED
    BY <2>1, <2>2, <2>3 DEF UniqueNames
<1> QED
  BY <1>1, <1>2, FileSteps

(* A table file, once written, is never overwritten by another one: no two *)
(* tables of a level ever get the same timestamp, over merges, resets,     *)
(* clean shutdowns and kills.                                              *)
THEOREM FilesNeverChange ==
    ASSUME "reset" \notin CrashPoints
    PROVE  Spec => FilesAreImmutable
<1>1. Init => UniqueNames
  BY DEF Init, UniqueNames
<1>2. Fresh /\ UniqueNames /\ [Next]_vars => UniqueNames'
  BY FilesStay
<1>3. Fresh /\ UniqueNames /\ [Next]_vars
      => [\A f \in files : \A g \in files' : NameOf(f) = NameOf(g) => f = g]_vars
  BY FilesStay
<1> QED
  BY <1>1, <1>2, <1>3, FreshAlways, PTL DEF Spec, FilesAreImmutable
----------------------------------------------------------------------------
(* The cached heads of LsmTree are the disk, as long as the process is not *)
(* killed within reset.                                                    *)

(* A new head under a new name goes to the end.                            *)
LEMMA EachAppend ==
    ASSUME NEW idx \in Seq(Table), Each(idx), NEW h \in Table,
           \A i \in DOMAIN idx : NameOf(idx[i]) # NameOf(h)
    PROVE  /\ Each(Append(idx, h))
           /\ ToSet(Append(idx, h)) = ToSet(idx) \cup {h}
<1> DEFINE q == Append(idx, h)
<1>1. /\ Len(idx) \in Nat /\ DOMAIN idx = 1..Len(idx)
      /\ q \in Seq(Table) /\ Len(q) = Len(idx) + 1 /\ DOMAIN q = 1..(Len(idx) + 1)
      /\ \A i \in 1..Len(idx) : q[i] = idx[i]
      /\ q[Len(idx) + 1] = h
  OBVIOUS
<1> HIDE DEF q
<1>2. ASSUME NEW i \in DOMAIN q, NEW j \in DOMAIN q, NameOf(q[i]) = NameOf(q[j])
      PROVE  i = j
  <2>1. /\ i \in DOMAIN idx \/ i = Len(idx) + 1
        /\ j \in DOMAIN idx \/ j = Len(idx) + 1
    BY <1>1
  <2> QED
    BY <1>1, <1>2, <2>1 DEF Each
<1>3. ToSet(q) = ToSet(idx) \cup {h}
  <2>1. ASSUME NEW g \in ToSet(q) PROVE g \in ToSet(idx) \cup {h}
    BY <1>1, <2>1 DEF ToSet
  <2>2. ASSUME NEW g \in ToSet(idx) PROVE g \in ToSet(q)
    <3>1. PICK i \in 1..Len(idx) : idx[i] = g
      BY <1>1, <2>2 DEF ToSet
    <3>2. i \in DOMAIN q /\ q[i] = g
      BY <1>1, <3>1
    <3> QED
      BY <3>2 DEF ToSet
  <2>3. h \in ToSet(q)
    <3>1. Len(idx) + 1 \in DOMAIN q
      BY <1>1
    <3> QED
      BY <1>1, <3>1 DEF ToSet
  <2> QED
    BY <2>1, <2>2, <2>3
<1> QED
  BY <1>2, <1>3 DEF Each, q

LEMMA Slice ==
    ASSUME NEW T, NEW seq \in Seq(T), NEW m \in Nat \ {0}, NEW n \in Nat, m <= n + 1, n <= Len(seq)
    PROVE  /\ SubSeq(seq, m, n) \in Seq(T) /\ Len(SubSeq(seq, m, n)) = n + 1 - m
           /\ \A p \in 1..(n + 1 - m) : SubSeq(seq, m, n)[p] = seq[p + m - 1]
  OBVIOUS

(* The part of a list before a position, and the part behind it.           *)
LEMMA PartsOfList ==
    ASSUME NEW T, NEW seq \in Seq(T), NEW f \in 1..Len(seq),
           NEW a, a = SubSeq(seq, 1, f - 1), NEW b, b = SubSeq(seq, f + 1, Len(seq))
    PROVE  /\ a \in Seq(T) /\ Len(a) = f - 1 /\ \A p \in 1..(f - 1) : a[p] = seq[p]
           /\ b \in Seq(T) /\ Len(b) = Len(seq) - f /\ \A p \in 1..(Len(seq) - f) : b[p] = seq[p + f]
<1>1. Len(seq) \in Nat /\ f \in Nat /\ 1 <= f /\ f <= Len(seq)
  OBVIOUS
<1>2. a \in Seq(T) /\ Len(a) = f - 1 + 1 - 1 /\ \A p \in 1..(f - 1 + 1 - 1) : a[p] = seq[p + 1 - 1]
  <2>1. f - 1 \in Nat /\ 1 <= f - 1 + 1 /\ f - 1 <= Len(seq)
    BY <1>1
  <2> QED
    BY <2>1, Slice
<1>3. /\ b \in Seq(T) /\ Len(b) = Len(seq) + 1 - (f + 1)
      /\ \A p \in 1..(Len(seq) + 1 - (f + 1)) : b[p] = seq[p + (f + 1) - 1]
  <2>1. f + 1 \in Nat \ {0} /\ f + 1 <= Len(seq) + 1 /\ Len(seq) <= Len(seq)
    BY <1>1
  <2> QED
    BY <2>1, <1>1, Slice
<1>4. f - 1 + 1 - 1 = f - 1 /\ Len(seq) + 1 - (f + 1) = Len(seq) - f
  BY <1>1
<1>5. \A p \in 1..(f - 1) : p + 1 - 1 = p
  OBVIOUS
<1>6. \A p \in 1..(Len(seq) - f) : p + (f + 1) - 1 = p + f
  BY <1>1
<1>7. Len(a) = f - 1 /\ \A p \in 1..(f - 1) : a[p] = seq[p]
  BY <1>2, <1>4, <1>5
<1>8. Len(b) = Len(seq) - f /\ \A p \in 1..(Len(seq) - f) : b[p] = seq[p + f]
  BY <1>3, <1>4, <1>6
<1> QED
  BY <1>2, <1>3, <1>7, <1>8

(* A head that leaves takes no other head along.                           *)
LEMMA EachRemoveAt ==
    ASSUME NEW idx \in Seq(Table), Each(idx), NEW i \in DOMAIN idx
    PROVE  /\ Each(RemoveAt(idx, i))
           /\ ToSet(RemoveAt(idx, i)) = {h \in ToSet(idx) : NameOf(h) # NameOf(idx[i])}
<1> DEFINE q == RemoveAt(idx, i)
<1>1. /\ Len(idx) \in Nat /\ DOMAIN idx = 1..Len(idx) /\ i \in 1..Len(idx)
      /\ q \in Seq(Table)
  BY RemoveAtType
<1>2. /\ Len(q) = Len(idx) - 1 /\ DOMAIN q = 1..(Len(idx) - 1)
      /\ \A j \in DOMAIN q : q[j] = idx[IF j < i THEN j ELSE j + 1]
  <2> DEFINE a == SubSeq(idx, 1, i - 1)
             b == SubSeq(idx, i + 1, Len(idx))
  <2>1. /\ a \in Seq(Table) /\ Len(a) = i - 1 /\ \A j \in 1..(i - 1) : a[j] = idx[j]
        /\ b \in Seq(Table) /\ Len(b) = Len(idx) - i /\ \A j \in 1..(Len(idx) - i) : b[j] = idx[j + i]
    <3>1. a = SubSeq(idx, 1, i - 1) /\ b = SubSeq(idx, i + 1, Len(idx))
      OBVIOUS
    <3>2. i \in 1..Len(idx)
      BY <1>1
    <3> HIDE DEF a, b
    <3>3. a \in Seq(Table) /\ Len(a) = i - 1 /\ \A p \in 1..(i - 1) : a[p] = idx[p]
      BY <3>1, <3>2, PartsOfList
    <3>4. b \in Seq(Table) /\ Len(b) = Len(idx) - i /\ \A p \in 1..(Len(idx) - i) : b[p] = idx[p + i]
      BY <3>1, <3>2, PartsOfList
    <3> QED
      BY <3>3, <3>4
  <2>3. q = a \o b
    BY DEF RemoveAt
  <2> HIDE DEF a, b, q
  <2>4. /\ Len(q) = Len(idx) - 1 /\ DOMAIN q = 1..(Len(idx) - 1)
        /\ \A j \in 1..(Len(idx) - 1) : q[j] = IF j <= i - 1 THEN a[j] ELSE b[j - (i - 1)]
    <3>1. /\ q \in Seq(Table) /\ Len(q) = Len(a) + Len(b)
          /\ \A j \in 1..(Len(a) + Len(b)) : q[j] = IF j <= Len(a) THEN a[j] ELSE b[j - Len(a)]
      BY <2>1, <2>3, ConcatProperties
    <3>2. Len(a) + Len(b) = Len(idx) - 1
      BY <1>1, <2>1
    <3>3. Len(q) = Len(idx) - 1 /\ DOMAIN q = 1..Len(q)
      BY <3>1, <3>2
    <3>4. Len(a) = i - 1
      BY <2>1
    <3> QED
      BY <3>1, <3>2, <3>3, <3>4
  <2>5. ASSUME NEW j \in DOMAIN q, j < i PROVE q[j] = idx[j]
    <3>1. j \in 1..(Len(idx) - 1) /\ j <= i - 1 /\ j \in 1..(i - 1)
      BY <1>1, <2>4, <2>5
    <3> QED
      BY <3>1, <2>1, <2>4
  <2>6. ASSUME NEW j \in DOMAIN q, ~(j < i) PROVE q[j] = idx[j + 1]
    <3>1. j \in 1..(Len(idx) - 1) /\ ~(j <= i - 1)
      BY <1>1, <2>4, <2>6
    <3>2. j - (i - 1) \in 1..(Len(idx) - i) /\ (j - (i - 1)) + i = j + 1
      BY <1>1, <3>1
    <3>3. q[j] = b[j - (i - 1)]
      BY <2>4, <3>1
    <3> QED
      BY <2>1, <3>2, <3>3
  <2> QED
    BY <2>4, <2>5, <2>6
<1> HIDE DEF q
<1>3. ASSUME NEW j \in DOMAIN q, NEW k \in DOMAIN q, NameOf(q[j]) = NameOf(q[k])
      PROVE  j = k
  <2>1. /\ (IF j < i THEN j ELSE j + 1) \in DOMAIN idx
        /\ (IF k < i THEN k ELSE k + 1) \in DOMAIN idx
    BY <1>1, <1>2
  <2>2. (IF j < i THEN j ELSE j + 1) = (IF k < i THEN k ELSE k + 1)
    BY <1>2, <1>3, <2>1 DEF Each
  <2> QED
    BY <1>1, <1>2, <2>2
<1>4. ASSUME NEW h \in ToSet(q) PROVE h \in ToSet(idx) /\ NameOf(h) # NameOf(idx[i])
  <2>1. PICK j \in DOMAIN q : q[j] = h
    BY <1>4 DEF ToSet
  <2>2. PICK k \in DOMAIN idx : k # i /\ idx[k] = h
    <3>1. (IF j < i THEN j ELSE j + 1) \in DOMAIN idx /\ (IF j < i THEN j ELSE j + 1) # i
      BY <1>1, <1>2
    <3> QED
      BY <1>2, <2>1, <3>1
  <2> QED
    BY <2>2 DEF Each, ToSet
<1>5. ASSUME NEW h \in ToSet(idx), NameOf(h) # NameOf(idx[i]) PROVE h \in ToSet(q)
  <2>1. PICK k \in DOMAIN idx : idx[k] = h
    BY <1>5 DEF ToSet
  <2>2. k # i
    BY <1>5, <2>1
  <2> DEFINE j == IF k < i THEN k ELSE k - 1
  <2>3. j \in DOMAIN q /\ (IF j < i THEN j ELSE j + 1) = k
    BY <1>1, <1>2, <2>1, <2>2
  <2>4. q[j] = h
    BY <1>2, <2>1, <2>3
  <2> QED
    BY <2>3, <2>4 DEF ToSet
<1> QED
  BY <1>3, <1>4, <1>5 DEF Each, q

(* A sequence that lists nothing is empty.                                 *)
LEMMA NothingListed ==
    ASSUME NEW S, NEW q \in Seq(S), ToSet(q) = {}
    PROVE  q = <<>>
<1>1. DOMAIN q = 1..Len(q) /\ Len(q) \in Nat /\ DOMAIN q = {}
  BY DEF ToSet
<1>2. Len(q) = 0
  BY <1>1
<1> QED
  BY <1>2

(* The heads of a disk with one file more, and with one file less.         *)
LEMMA HeadsWrite ==
    ASSUME NEW f, \A g \in files : NameOf(g) # NameOf(f), NEW l
    PROVE  HeadsIn(WriteFile(f), l) =
               HeadsIn(files, l) \cup (IF f.level = l THEN {HeadOf(f)} ELSE {})
  BY DEF HeadsIn, WriteFile

LEMMA HeadsDelete ==
    ASSUME NEW n, NEW l
    PROVE  HeadsIn({f \in files : NameOf(f) # n}, l) =
               {h \in HeadsIn(files, l) : NameOf(h) # n}
  BY DEF HeadsIn, HeadOf, NameOf

(* A head has the name and the level of its file.                          *)
LEMMA HeadOfLevel ==
    ASSUME NEW l
    PROVE  \A h \in HeadsIn(files, l) :
               h.level = l /\ \E f \in files : f.level = l /\ h = HeadOf(f) /\ NameOf(h) = NameOf(f)
  BY DEF HeadsIn, HeadOf, NameOf

(* A new listing of a directory has each head once.                        *)
LEMMA EachListed ==
    ASSUME NEW S \in SUBSET Table, IsFiniteSet(S), NEW idx \in SetToSeqs(S),
           \A g, h \in S : NameOf(g) = NameOf(h) => g = h
    PROVE  Each(idx) /\ ToSet(idx) = S
<1> DEFINE D == 1..Cardinality(S)
<1>1. idx \in [D -> S] /\ \A i, j \in D : i # j => idx[i] # idx[j]
  BY DEF SetToSeqs
<1>2. IsFiniteSet(D) /\ Cardinality(D) = Cardinality(S)
  <2>1. Cardinality(S) \in Nat
    BY FS_CardinalityType
  <2> QED
    BY <2>1, FS_Interval
<1> HIDE DEF D
<1>3. idx \in Injection(D, S)
  BY <1>1 DEF Injection, IsInjective
<1>4. idx \in Surjection(D, S)
  BY <1>2, <1>3, FS_Injection
<1>5. ToSet(idx) = S
  BY <1>1, <1>4 DEF Surjection, ToSet
<1> QED
  BY <1>1, <1>5 DEF Each

---------------------------------------------------------------------------
(* The invariant.                                                          *)
Cached == Fresh /\ PendingOK /\ DirsExact /\ TimesDiffer /\ CacheOK

(* The store starts with no files and no heads.                            *)
LEMMA CachedInit == Init => Cached
<1> SUFFICES ASSUME Init PROVE PendingOK /\ DirsExact /\ TimesDiffer /\ CacheOK
  BY FreshInit DEF Cached
<1>1. \A l \in Level : sstableIndex[l] = <<>>
  BY DEF Init
<1>2. \A l : HeadsIn(files, l) = {}
  BY DEF Init, HeadsIn
<1>3. \A l \in Level : LevelCached(l)
  BY <1>1, <1>2 DEF LevelCached, Each, ToSet
<1>4. 0..-1 = {}
  OBVIOUS
<1> QED
  BY <1>3, <1>4 DEF Init, PendingOK, DirsExact, TimesDiffer, CacheOK, Up

(* No file is in a level whose directory is missing.                       *)
LEMMA NoDirNoHeads ==
    ASSUME Fresh, NEW l, l \notin dirs
    PROVE  HeadsIn(files, l) = {}
  BY DEF Fresh, DirsOK, HeadsIn

(* While the process runs, also a level that is not in use is cached.      *)
LEMMA CachedUp ==
    ASSUME Cached, Up, NEW l \in Level, ~(pc = "reset" /\ l = job.level)
    PROVE  /\ ToSet(sstableIndex[l]) \subseteq HeadsIn(files, l)
           /\ ~(Closing /\ l = 0) => ToSet(sstableIndex[l]) = HeadsIn(files, l)
<1>1. LevelCached(l)
  BY DEF Cached, CacheOK
<1>2. CASE Unread(l)
  <2>1. l > totalLevel
    BY <1>2 DEF Unread, Up
  <2>2. l \notin dirs
    BY <2>1, LevelsAssumption DEF Cached, Fresh, DirsOK, Up, Typed, TypeOK, Level
  <2>3. HeadsIn(files, l) = {}
    BY <2>2, NoDirNoHeads DEF Cached
  <2> QED
    BY <1>1, <2>3 DEF LevelCached
<1> QED
  BY <1>1, <1>2 DEF LevelCached

(* A step that changes neither the files nor the heads keeps the levels    *)
(* cached; a level that gets into use has no files.                        *)
LEMMA CachedStill ==
    ASSUME Cached, Up, Up', UNCHANGED <<sstableIndex, files>>, totalLevel <= totalLevel',
           totalLevel' \in Int, pc # "reset", pc' # "reset", Closing => Closing',
           NEW l \in Level
    PROVE  LevelCached(l)'
<1>1. LevelCached(l)
  BY DEF Cached, CacheOK
<1>2. Unread(l)' => Unread(l)
  <2>1. l \in Int /\ totalLevel \in Int
    BY LevelsAssumption DEF Level, Cached, Fresh, Typed, TypeOK
  <2> QED
    BY <2>1 DEF Unread, Up
<1>3. /\ ToSet(sstableIndex[l]) \subseteq HeadsIn(files, l)
      /\ (Closing /\ l = 0) \/ HeadsIn(files, l) \subseteq ToSet(sstableIndex[l])
  BY CachedUp
<1>4. HeadsIn(files, l)' = HeadsIn(files, l)
  BY DEF HeadsIn, HeadOf
<1>5. /\ Each(sstableIndex[l])'
      /\ Unread(l)' => sstableIndex'[l] = <<>>
  BY <1>1, <1>2 DEF LevelCached, Each
<1> QED
  BY <1>3, <1>4, <1>5 DEF LevelCached

(* A table that is written enters its file on the disk and its head in the *)
(* cache at once.                                                          *)
LEMMA CachedWrite ==
    ASSUME Cached, Up, Up', pc # "reset", pc' # "reset", Closing => Closing',
           NEW f \in File, files' = WriteFile(f), \A g \in files : g.time # f.time,
           sstableIndex' = [sstableIndex EXCEPT ![f.level] = Append(@, HeadOf(f))],
           totalLevel' \in Int, totalLevel <= totalLevel', f.level <= totalLevel',
           Closing => f.level # 0,
           NEW l \in Level
    PROVE  LevelCached(l)'
<1>1. LevelCached(l) /\ sstableIndex \in [Level -> Seq(Table)]
  BY DEF Cached, CacheOK, Fresh, Typed, TypeOK
<1>2. HeadsIn(files', l) = HeadsIn(files, l) \cup (IF f.level = l THEN {HeadOf(f)} ELSE {})
  <2>1. \A g \in files : NameOf(g) # NameOf(f)
    BY DEF NameOf
  <2> QED
    BY <2>1, HeadsWrite
<1>3. /\ ToSet(sstableIndex[l]) \subseteq HeadsIn(files, l)
      /\ (Closing /\ l = 0) \/ HeadsIn(files, l) \subseteq ToSet(sstableIndex[l])
  BY CachedUp
<1>4. CASE f.level = l
  <2>1. \A i \in DOMAIN sstableIndex[l] : NameOf(sstableIndex[l][i]) # NameOf(HeadOf(f))
    <3>1. ASSUME NEW i \in DOMAIN sstableIndex[l]
          PROVE  NameOf(sstableIndex[l][i]) # NameOf(HeadOf(f))
      <4>1. sstableIndex[l][i] \in HeadsIn(files, l)
        BY <1>3 DEF ToSet
      <4>2. PICK g \in files : sstableIndex[l][i] = HeadOf(g)
        BY <4>1 DEF HeadsIn
      <4> QED
        BY <4>2 DEF HeadOf, NameOf
    <3> QED
      BY <3>1
  <2>2. /\ Each(Append(sstableIndex[l], HeadOf(f)))
        /\ ToSet(Append(sstableIndex[l], HeadOf(f))) = ToSet(sstableIndex[l]) \cup {HeadOf(f)}
    BY <1>1, <2>1, HeadType, EachAppend DEF LevelCached
  <2>3. sstableIndex'[l] = Append(sstableIndex[l], HeadOf(f))
    BY <1>1, <1>4
  <2>4. ~Unread(l)'
    <3>1. l \in Int /\ l <= totalLevel'
      BY <1>4, LevelsAssumption DEF Level
    <3> QED
      BY <3>1 DEF Unread, Up
  <2>5. Each(sstableIndex'[l]) /\ ToSet(sstableIndex'[l]) = ToSet(sstableIndex[l]) \cup {HeadOf(f)}
    BY <2>2, <2>3
  <2>6. Each(sstableIndex[l])' /\ HeadsIn(files, l)' = HeadsIn(files', l)
    BY <2>5 DEF Each, HeadsIn, HeadOf
  <2>7. /\ ToSet(sstableIndex'[l]) \subseteq HeadsIn(files', l)
        /\ (Closing' /\ l = 0) \/ HeadsIn(files', l) \subseteq ToSet(sstableIndex'[l])
    BY <1>2, <1>3, <1>4, <2>5
  <2> QED
    BY <2>4, <2>6, <2>7 DEF LevelCached
<1>5. CASE f.level # l
  <2>1. sstableIndex'[l] = sstableIndex[l] /\ HeadsIn(files, l)' = HeadsIn(files, l)
    BY <1>1, <1>2, <1>5 DEF HeadsIn, HeadOf
  <2>2. Unread(l)' => Unread(l)
    <3>1. l \in Int /\ totalLevel \in Int
      BY LevelsAssumption DEF Level, Cached, Fresh, Typed, TypeOK
    <3> QED
      BY <3>1 DEF Unread, Up
  <2>3. /\ Each(sstableIndex[l])'
        /\ Unread(l)' => sstableIndex'[l] = <<>>
    BY <1>1, <2>1, <2>2 DEF LevelCached, Each
  <2> QED
    BY <1>3, <2>1, <2>3 DEF LevelCached
<1> QED
  BY <1>4, <1>5

---------------------------------------------------------------------------
(* Times, pending entries and directories.                                 *)

(* A new file has a time of its own.                                       *)
LEMMA TimesNext ==
    ASSUME Fresh, TimesDiffer, [Next]_vars
    PROVE  TimesDiffer'
<1>1. CASE files' \subseteq files
  BY <1>1 DEF TimesDiffer
<1>2. ASSUME NEW f, NewFile(f) PROVE TimesDiffer'
  <2>1. \A h \in files' : h \in files \/ h = f
    BY <1>2 DEF NewFile, WriteFile
  <2> QED
    BY <1>2, <2>1 DEF NewFile, TimesDiffer
<1> QED
  BY <1>1, <1>2, FileSteps

(* Only a flush leaves something to insert, and only FinishPut takes it.   *)
LEMMA PendingNext ==
    ASSUME PendingOK, [Next]_vars
    PROVE  PendingOK'
<1>1. CASE Continue
  BY <1>1 DEF Continue, CompactNothing, CompactStart, WriteOutput, DeleteInput, CompactEnd,
      FinishPut, FinishClose, ResetFile, ResetDir, ResetDone, OpenLevel, OpenDone, Forget,
      PendingOK
<1>2. ASSUME NEW k \in Key, NEW v, Store(k, v) PROVE PendingOK'
  BY <1>2 DEF Store, PutInMemory, PutAndFlush, PendingOK
<1>3. CASE Call
  BY <1>2, <1>3 DEF Call, Put, Del, Reset, CloseEmpty, Close, Forget, PendingOK
<1>4. CASE OpenStart \/ Crash \/ UNCHANGED vars
  BY <1>4 DEF OpenStart, Crash, Forget, vars, PendingOK
<1> QED
  BY <1>1, <1>3, <1>4 DEF Next

(* The directories keep to the levels in use.                              *)
LEMMA DirsExactUp ==
    ASSUME Fresh, DirsExact, Up, pc # "reset", Up', pc' # "reset",
           UNCHANGED <<dirs, totalLevel>>
    PROVE  DirsExact'
  BY DEF DirsExact, Up

LEMMA DirsExactFlush ==
    ASSUME Fresh, DirsExact, pc = "idle", pc' = "compact",
           dirs' = dirs \cup {0}, totalLevel' = IF 0 \in dirs THEN totalLevel ELSE 0
    PROVE  DirsExact'
<1>1. dirs = 0..totalLevel /\ totalLevel \in -1..MaxLevel
  BY DEF DirsExact, Up, Fresh, Typed, TypeOK
<1>2. CASE 0 \in dirs
  BY <1>1, <1>2 DEF DirsExact
<1>3. CASE 0 \notin dirs
  <2>1. totalLevel = -1 /\ dirs = {}
    BY <1>1, <1>3, LevelsAssumption
  <2>2. dirs' = 0..totalLevel'
    BY <1>3, <2>1
  <2> QED
    BY <2>2 DEF DirsExact
<1> QED
  BY <1>2, <1>3

LEMMA DirsExactNext ==
    ASSUME Fresh, DirsExact, "reset" \notin CrashPoints, [Next]_vars
    PROVE  DirsExact'
<1>0. totalLevel \in -1..MaxLevel /\ job.level \in 0..(MaxLevel + 1) /\ MaxLevel \in Nat
  BY LevelsAssumption DEF Fresh, Typed, TypeOK
<1>1. CASE CompactNothing \/ WriteOutput \/ DeleteInput \/ CompactEnd \/ FinishPut
  BY <1>1, DirsExactUp DEF CompactNothing, WriteOutput, DeleteInput, CompactEnd, FinishPut,
      Up, store, disk
<1>2. CASE CompactStart
  <2>1. /\ pc = "compact" /\ pc' \in {"write", "delete"}
        /\ dirs' = dirs \cup {job.level + 1}
        /\ totalLevel' = IF job.level + 1 \notin dirs /\ totalLevel < job.level + 1
                         THEN job.level + 1 ELSE totalLevel
    BY <1>2 DEF CompactStart
  <2>2. dirs = 0..totalLevel /\ job.level \in dirs
    BY <2>1 DEF DirsExact, Up, Fresh, DirsOK
  <2>3. dirs' = 0..totalLevel'
    BY <1>0, <2>1, <2>2
  <2> QED
    BY <2>1, <2>3 DEF DirsExact
<1>3. CASE CloseEmpty \/ FinishClose \/ Crash
  BY <1>3 DEF CloseEmpty, FinishClose, Crash, Forget, DirsExact, Up
<1>4. CASE Reset
  <2>1. pc = "idle" /\ pc' = "reset" /\ job.level = 0 /\ UNCHANGED <<job, dirs, totalLevel>>
    BY <1>4 DEF Reset, disk, Fresh, Typed, JobOK
  <2> QED
    BY <2>1 DEF DirsExact, Up
<1>5. CASE ResetFile
  BY <1>5 DEF ResetFile, store, DirsExact, Up
<1>6. CASE ResetDir
  <2>1. /\ pc = "reset" /\ pc' = "reset" /\ dirs' = dirs \ {job.level}
        /\ totalLevel' = totalLevel
    BY <1>6 DEF ResetDir
  <2>2. job'.level = job.level + 1
    BY <1>6 DEF ResetDir, Fresh, Typed, TypeOK
  <2>3. dirs = job.level..totalLevel
    BY <2>1 DEF DirsExact, Up
  <2>4. dirs' = (job.level + 1)..totalLevel
    BY <1>0, <2>1, <2>3
  <2> QED
    BY <2>1, <2>2, <2>4 DEF DirsExact
<1>7. CASE ResetDone
  <2>1. /\ pc = "reset" /\ pc' = "idle" /\ job.level > totalLevel
        /\ totalLevel' = -1 /\ dirs' = dirs
    BY <1>7 DEF ResetDone, disk
  <2>2. dirs = {}
    BY <1>0, <2>1 DEF DirsExact, Up
  <2> QED
    BY <2>1, <2>2 DEF DirsExact
<1>8. CASE OpenStart
  <2>1. pc = "down" /\ pc' = "open" /\ job.level = 0 /\ UNCHANGED <<job, dirs, totalLevel>>
    BY <1>8 DEF OpenStart, store, disk, Fresh, Typed, JobOK
  <2>2. 0..(job.level - 1) = {}
    BY <2>1
  <2> QED
    BY <2>1, <2>2 DEF DirsExact, Up
<1>9. CASE OpenLevel
  <2>1. pc = "open" /\ pc' = "open" /\ job.level \in dirs /\ UNCHANGED <<dirs, totalLevel>>
    BY <1>9 DEF OpenLevel, disk
  <2>2. job'.level = job.level + 1
    BY <1>9 DEF OpenLevel, Fresh, Typed, TypeOK
  <2>3. 0..(job.level - 1) \subseteq dirs
    BY <2>1 DEF DirsExact
  <2>4. 0..(job'.level - 1) \subseteq dirs'
    <3> DEFINE n == job.level
               m == job'.level
    <3>1. n \in Nat /\ m = n + 1 /\ 0..(n - 1) \subseteq dirs /\ n \in dirs /\ dirs' = dirs
      BY <1>0, <2>1, <2>2, <2>3
    <3> HIDE DEF n, m
    <3>2. 0..(m - 1) \subseteq dirs'
      BY <3>1
    <3> QED
      BY <3>2 DEF m
  <2> QED
    BY <2>1, <2>4 DEF DirsExact, Up
<1>10. CASE OpenDone
  <2>1. /\ pc = "open" /\ pc' = "idle" /\ job.level \notin dirs
        /\ totalLevel' = job.level - 1 /\ dirs' = dirs
    BY <1>10 DEF OpenDone, disk
  <2>2. \A l \in dirs : l \in Nat /\ ~(job.level < l)
    <3>1. \A l \in dirs : l \in 0..MaxLevel
      BY DEF Fresh, Typed, TypeOK, Level
    <3>2. ASSUME NEW l \in dirs, job.level < l PROVE FALSE
      <4>1. job.level \in Level
        BY <1>0, <3>1, <3>2 DEF Level
      <4> QED
        BY <2>1, <3>2, <4>1 DEF Fresh, DirsOK
    <3> QED
      BY <3>1, <3>2
  <2>3. 0..(job.level - 1) \subseteq dirs
    BY <2>1 DEF DirsExact
  <2>4. dirs = 0..(job.level - 1)
    <3> DEFINE n == job.level
    <3>1. n \in Nat /\ n \notin dirs /\ 0..(n - 1) \subseteq dirs
          /\ \A l \in dirs : l \in Nat /\ ~(n < l)
      BY <1>0, <2>1, <2>2, <2>3
    <3> HIDE DEF n
    <3>2. ASSUME NEW l \in dirs PROVE l \in 0..(n - 1)
      <4>1. l \in Nat /\ ~(n < l) /\ l # n
        BY <3>1
      <4> QED
        BY <3>1, <4>1
    <3>3. dirs = 0..(n - 1)
      BY <3>1, <3>2
    <3> QED
      BY <3>3 DEF n
  <2>5. dirs' = 0..totalLevel' /\ pc' = "idle"
    BY <2>1, <2>4
  <2> QED
    BY <2>5 DEF DirsExact, Up
<1>11. ASSUME NEW k \in Key, NEW v, Store(k, v) PROVE DirsExact'
  <2>1. CASE PutInMemory(k, v)
    BY <1>11, <2>1, DirsExactUp DEF Store, PutInMemory, disk, Up
  <2>2. CASE PutAndFlush(k, v)
    BY <1>11, <2>2, DirsExactFlush DEF Store, PutAndFlush
  <2> QED
    BY <1>11, <2>1, <2>2 DEF Store
<1>12. CASE Close
  BY <1>12, DirsExactFlush DEF Close
<1>13. CASE UNCHANGED vars
  BY <1>13 DEF vars, store, disk, DirsExact, Up
<1>14. CASE Call
  BY <1>3, <1>4, <1>11, <1>12, <1>14 DEF Call, Put, Del
<1> QED
  BY <1>1, <1>2, <1>3, <1>5, <1>6, <1>7, <1>8, <1>9, <1>10, <1>13, <1>14 DEF Next, Continue

---------------------------------------------------------------------------
(* The cache, step by step.                                                *)

(* A put in memory, a flush, and the destructor's flush.                   *)
LEMMA CachedStore ==
    ASSUME Cached, NEW k \in Key, NEW v \in Value \cup {DEL}, Store(k, v), NEW l \in Level
    PROVE  LevelCached(l)'
<1>0. pc = "idle" /\ Up /\ ~Closing /\ totalLevel \in -1..MaxLevel /\ MaxLevel \in Nat
  BY LevelsAssumption DEF Store, Up, Closing, Cached, Fresh, Typed, TypeOK
<1>1. CASE PutInMemory(k, v)
  <2>1. UNCHANGED <<sstableIndex, files, totalLevel, pc>>
    BY <1>1 DEF PutInMemory, disk
  <2> QED
    BY <1>0, <2>1, CachedStill DEF Up
<1>2. CASE PutAndFlush(k, v)
  <2> DEFINE f == [level |-> 0, time |-> TIME + 1, data |-> s]
  <2>1. f \in File /\ f.level = 0 /\ f.time = TIME + 1
    BY LevelsAssumption DEF File, Cached, Fresh, Typed, TypeOK, Level
  <2>2. /\ pc' = "compact" /\ files' = WriteFile(f)
        /\ sstableIndex' = [sstableIndex EXCEPT ![f.level] = Append(@, HeadOf(f))]
        /\ totalLevel' = IF 0 \in dirs THEN totalLevel ELSE 0
    BY <1>2 DEF PutAndFlush
  <2>3. \A g \in files : g.time # f.time
    <3>1. \A g \in files : g.time \in Nat /\ g.time <= TIME
      BY <1>0 DEF Cached, Fresh, NamesAreFresh, Up, Typed, TypeOK, File
    <3> QED
      BY <2>1, <3>1 DEF Cached, Fresh, Typed, TypeOK
  <2>4. totalLevel' \in Int /\ totalLevel <= totalLevel' /\ 0 <= totalLevel'
    <3>1. 0 \in dirs => 0 <= totalLevel
      BY <1>0 DEF Cached, Fresh, DirsOK
    <3>2. 0 \notin dirs => totalLevel = -1
      <4>1. dirs = 0..totalLevel
        BY <1>0 DEF Cached, DirsExact
      <4> QED
        BY <1>0, <4>1
    <3> QED
      BY <1>0, <2>2, <3>1, <3>2
  <2>5. Up'
    BY <2>2 DEF Up
  <2> HIDE DEF f
  <2> QED
    BY <1>0, <2>1, <2>2, <2>3, <2>4, <2>5, CachedWrite
<1> QED
  BY <1>1, <1>2 DEF Store

(* The destructor's flush leaves the cache behind the disk at level 0.     *)
LEMMA CachedClose ==
    ASSUME Cached, Close, NEW l \in Level
    PROVE  LevelCached(l)'
<1> DEFINE f == [level |-> 0, time |-> TIME + 1, data |-> s]
<1>1. /\ pc = "idle" /\ pc' = "compact" /\ files' = WriteFile(f)
      /\ UNCHANGED <<sstableIndex, pending>>
      /\ totalLevel' = IF 0 \in dirs THEN totalLevel ELSE 0
  BY DEF Close
<1>2. Up /\ Up' /\ ~Closing /\ Closing'
  BY <1>1 DEF Up, Closing, Cached, PendingOK
<1>3. \A g \in files : NameOf(g) # NameOf(f)
  <2>1. \A g \in files : g.time \in Nat /\ g.time <= TIME
    BY <1>2 DEF Cached, Fresh, NamesAreFresh, Typed, TypeOK, File
  <2> QED
    BY <2>1 DEF Cached, Fresh, Typed, TypeOK, NameOf
<1>4. f.level = 0
  OBVIOUS
<1> HIDE DEF f
<1>5. HeadsIn(files, l)' = HeadsIn(files, l) \cup (IF l = 0 THEN {HeadOf(f)} ELSE {})
  <2>1. HeadsIn(files', l) = HeadsIn(files, l) \cup (IF l = 0 THEN {HeadOf(f)} ELSE {})
    BY <1>1, <1>3, <1>4, HeadsWrite
  <2> QED
    BY <2>1 DEF HeadsIn, HeadOf
<1>6. ToSet(sstableIndex[l]) = HeadsIn(files, l) /\ LevelCached(l)
  BY <1>1, <1>2, CachedUp DEF Cached, CacheOK
<1>7. Unread(l)' => Unread(l)
  <2>1. totalLevel \in -1..MaxLevel /\ l \in Nat /\ MaxLevel \in Nat
    BY LevelsAssumption DEF Level, Cached, Fresh, Typed, TypeOK
  <2>2. 0 \notin dirs => totalLevel = -1
    <3>1. dirs = 0..totalLevel
      BY <1>1, <1>2 DEF Cached, DirsExact
    <3> QED
      BY <2>1, <3>1
  <2>3. l > totalLevel' => l > totalLevel
    BY <1>1, <2>1, <2>2
  <2> QED
    BY <1>1, <1>2, <2>3 DEF Unread, Up
<1>8. Each(sstableIndex[l])' /\ (Unread(l)' => sstableIndex'[l] = <<>>)
  BY <1>1, <1>6, <1>7 DEF LevelCached, Each
<1> QED
  BY <1>1, <1>2, <1>5, <1>6, <1>8 DEF LevelCached

(* An input that leaves the cache leaves the disk.                         *)
LEMMA CachedDelete ==
    ASSUME Cached, DeleteInput, NEW m \in Level
    PROVE  LevelCached(m)'
<1>1. PICK l \in {job.level, job.level + 1} : \E i \in DOMAIN sstableIndex[l] : delsstable(l, i)
  BY DEF DeleteInput
<1>2. PICK i \in DOMAIN sstableIndex[l] : delsstable(l, i)
  BY <1>1
<1> DEFINE n == NameOf(sstableIndex[l][i])
<1>3. /\ pc = "delete" /\ UNCHANGED <<pc, totalLevel, pending>> /\ Up /\ Up'
  BY DEF DeleteInput, Up
<1>4. job.level + 1 \in dirs /\ job.level + 1 <= totalLevel /\ job.level + 1 \in Level
      /\ job.level \in Nat
  BY <1>3, LevelsAssumption DEF Cached, Fresh, DirsOK, Typed, TypeOK, JobOK, Level
<1>5. l \in Level /\ l <= totalLevel
  <2> DEFINE j == job.level
  <2>1. j \in Nat /\ j + 1 \in 0..MaxLevel /\ j + 1 <= totalLevel /\ l \in {j, j + 1}
        /\ totalLevel \in Int /\ MaxLevel \in Nat
    BY <1>4, LevelsAssumption DEF Level, Cached, Fresh, Typed, TypeOK
  <2> HIDE DEF j
  <2>2. l \in 0..MaxLevel /\ l <= totalLevel
    BY <2>1
  <2> QED
    BY <2>2 DEF Level
<1>6. /\ sstableIndex' = [sstableIndex EXCEPT ![l] = RemoveAt(@, i)]
      /\ files' = {f \in files : NameOf(f) # n}
  BY <1>2, <1>5 DEF delsstable
<1>7. /\ sstableIndex \in [Level -> Seq(Table)] /\ LevelCached(m) /\ LevelCached(l)
      /\ (Closing' <=> Closing) /\ (Unread(m)' <=> Unread(m))
  BY <1>3, <1>5 DEF Cached, CacheOK, Fresh, Typed, TypeOK, Closing, Unread, Up
<1>8. n.level = l
  <2>1. sstableIndex[l][i] \in HeadsIn(files, l)
    BY <1>2, <1>3, <1>5, CachedUp DEF ToSet
  <2> QED
    BY <2>1, HeadOfLevel DEF NameOf
<1>9. HeadsIn(files, m)' = {h \in HeadsIn(files, m) : NameOf(h) # n}
  <2>1. HeadsIn(files', m) = {h \in HeadsIn(files, m) : NameOf(h) # n}
    BY <1>6, HeadsDelete
  <2> QED
    BY <2>1 DEF HeadsIn, HeadOf
<1>10. /\ ToSet(sstableIndex[m]) \subseteq HeadsIn(files, m)
       /\ (Closing /\ m = 0) \/ HeadsIn(files, m) \subseteq ToSet(sstableIndex[m])
  BY <1>3, CachedUp
<1>11. CASE m = l
  <2>1. sstableIndex'[m] = RemoveAt(sstableIndex[m], i)
    BY <1>6, <1>7, <1>11
  <2>2. /\ Each(sstableIndex'[m])
        /\ ToSet(sstableIndex'[m]) = {h \in ToSet(sstableIndex[m]) : NameOf(h) # n}
    BY <1>2, <1>5, <1>7, <1>11, <2>1, EachRemoveAt DEF LevelCached
  <2>3. ~Unread(m)
    BY <1>3, <1>5, <1>11, LevelsAssumption DEF Unread, Level, Up, Cached, Fresh, Typed, TypeOK
  <2>4. Each(sstableIndex[m])'
    BY <2>2 DEF Each
  <2> HIDE DEF n
  <2>5. /\ ToSet(sstableIndex'[m]) \subseteq HeadsIn(files, m)'
        /\ (Closing /\ m = 0) \/ HeadsIn(files, m)' \subseteq ToSet(sstableIndex'[m])
    BY <1>9, <1>10, <2>2
  <2> QED
    BY <1>7, <2>3, <2>4, <2>5 DEF LevelCached
<1>12. CASE m # l
  <2>1. sstableIndex'[m] = sstableIndex[m]
    BY <1>6, <1>7, <1>12
  <2>2. HeadsIn(files, m)' = HeadsIn(files, m)
    <3>1. \A h \in HeadsIn(files, m) : NameOf(h).level = m
      BY HeadOfLevel DEF NameOf
    <3> QED
      BY <1>8, <1>9, <1>12, <3>1
  <2>3. Each(sstableIndex[m])' /\ (Unread(m)' => sstableIndex'[m] = <<>>)
    BY <1>7, <2>1 DEF LevelCached, Each
  <2> QED
    BY <1>7, <1>10, <2>1, <2>2, <2>3 DEF LevelCached
<1> QED
  BY <1>11, <1>12

(* The other steps of a compaction touch neither the files nor the heads.  *)
LEMMA CachedCompact ==
    ASSUME Cached, CompactNothing \/ CompactStart \/ CompactEnd \/ FinishPut, NEW l \in Level
    PROVE  LevelCached(l)'
<1>0. totalLevel \in -1..MaxLevel /\ MaxLevel \in Nat
  BY LevelsAssumption DEF Cached, Fresh, Typed, TypeOK
<1>1. CASE CompactNothing \/ CompactEnd \/ FinishPut
  <2>1. /\ pc \in {"compact", "delete", "finish"} /\ pc' \in {"idle", "compact", "finish"}
        /\ UNCHANGED <<sstableIndex, files, totalLevel>>
        /\ Closing => Closing'
    BY <1>1 DEF CompactNothing, CompactEnd, FinishPut, store, disk, Closing
  <2> QED
    BY <1>0, <2>1, CachedStill DEF Up
<1>2. CASE CompactStart
  <2>1. /\ pc = "compact" /\ pc' \in {"write", "delete"}
        /\ UNCHANGED <<sstableIndex, files, pending>>
        /\ totalLevel' = IF job.level + 1 \notin dirs /\ totalLevel < job.level + 1
                         THEN job.level + 1 ELSE totalLevel
    BY <1>2 DEF CompactStart
  <2>2. totalLevel' \in Int /\ totalLevel <= totalLevel'
    <3> DEFINE j == job.level
    <3>1. j \in Nat
      BY <2>1, LevelsAssumption DEF Cached, Fresh, Typed, JobOK, Level
    <3>2. totalLevel' = IF j + 1 \notin dirs /\ totalLevel < j + 1 THEN j + 1 ELSE totalLevel
      BY <2>1
    <3> HIDE DEF j
    <3> QED
      BY <1>0, <3>1, <3>2
  <2> QED
    BY <2>1, <2>2, CachedStill DEF Up, Closing
<1> QED
  BY <1>1, <1>2

(* A merge's output.                                                       *)
LEMMA CachedOutput ==
    ASSUME Cached, WriteOutput, NEW l \in Level
    PROVE  LevelCached(l)'
<1> DEFINE f == [level |-> job.level + 1, time |-> TIME,
                 data |-> Only(job.rest, Fitting(job.rest))]
<1>1. /\ pc = "write" /\ pc' \in {"write", "delete"} /\ files' = WriteFile(f)
      /\ sstableIndex' = [sstableIndex EXCEPT ![f.level] = Append(@, HeadOf(f))]
      /\ UNCHANGED <<totalLevel, pending>>
  BY DEF WriteOutput
<1>2. Up /\ Up' /\ (Closing => Closing')
  BY <1>1 DEF Up, Closing
<1>3. f \in File
  <2>1. job.level + 1 \in Level
    BY <1>1 DEF Cached, Fresh, Typed, JobOK
  <2> QED
    BY <2>1, OnlyType DEF File, Cached, Fresh, Typed, TypeOK
<1>4. \A g \in files : g.time # f.time
  <2>1. \A g \in files : g.time \in Nat /\ g.time < TIME
    BY <1>1 DEF Cached, Fresh, NamesAreFresh, Typed, TypeOK, File
  <2> QED
    BY <2>1 DEF Cached, Fresh, Typed, TypeOK
<1>5. f.level \in dirs
  BY <1>1 DEF Cached, Fresh, DirsOK
<1>6. totalLevel' \in Int /\ totalLevel <= totalLevel' /\ f.level <= totalLevel'
  BY <1>1, <1>2, <1>5 DEF Cached, Fresh, DirsOK, Typed, TypeOK
<1>7. f.level # 0
  BY <1>1, LevelsAssumption DEF Cached, Fresh, Typed, TypeOK
<1> HIDE DEF f
<1> QED
  BY <1>1, <1>2, <1>3, <1>4, <1>6, <1>7, CachedWrite

(* What the process cached is gone with it.                                *)
LEMMA CachedEnd ==
    ASSUME CloseEmpty \/ FinishClose \/ Crash, NEW l \in Level
    PROVE  LevelCached(l)'
<1>1. sstableIndex'[l] = <<>> /\ pc' = "down"
  BY DEF CloseEmpty, FinishClose, Crash, Forget
<1>2. ToSet(sstableIndex'[l]) = {} /\ Each(sstableIndex[l])'
  BY <1>1 DEF ToSet, Each
<1> QED
  BY <1>1, <1>2 DEF LevelCached, Unread

(* reset removes files, then their level's heads, from level 0 on.         *)
LEMMA CachedReset ==
    ASSUME Cached, Reset \/ ResetFile \/ ResetDir \/ ResetDone, NEW l \in Level
    PROVE  LevelCached(l)'
<1>0. /\ LevelCached(l) /\ l \in Nat /\ job.level \in Nat
      /\ totalLevel \in Int /\ sstableIndex \in [Level -> Seq(Table)]
  BY LevelsAssumption DEF Cached, CacheOK, Level, Fresh, Typed, TypeOK
<1>1. CASE Reset
  <2>1. /\ pc = "idle" /\ pc' = "reset" /\ UNCHANGED <<sstableIndex, files, totalLevel>>
    BY <1>1 DEF Reset, disk
  <2>2. ToSet(sstableIndex[l]) = HeadsIn(files, l)
    BY <2>1, CachedUp DEF Up, Closing
  <2>3. Each(sstableIndex[l])' /\ HeadsIn(files, l)' = HeadsIn(files, l)
    BY <1>0, <2>1 DEF LevelCached, Each, HeadsIn, HeadOf
  <2>4. Unread(l)' <=> Unread(l)
    BY <2>1 DEF Unread, Up
  <2> QED
    BY <1>0, <2>1, <2>2, <2>3, <2>4 DEF LevelCached
<1>2. CASE ResetFile
  <2>1. PICK f \in files : f.level = job.level /\ files' = files \ {f}
    BY <1>2 DEF ResetFile
  <2>2. pc = "reset" /\ UNCHANGED <<sstableIndex, totalLevel, pc, job, pending>>
    BY <1>2 DEF ResetFile, store
  <2>3. Each(sstableIndex[l])' /\ HeadsIn(files, l)' = HeadsIn(files', l)
    BY <1>0, <2>2 DEF LevelCached, Each, HeadsIn, HeadOf
  <2>4. Unread(l)' <=> Unread(l)
    BY <2>2 DEF Unread, Up
  <2>5. HeadsIn(files', l) \subseteq HeadsIn(files, l)
    BY <2>1 DEF HeadsIn
  <2>6. l # job.level => HeadsIn(files', l) = HeadsIn(files, l)
    BY <2>1 DEF HeadsIn
  <2>7. ~Closing
    BY <2>2 DEF Closing
  <2> QED
    BY <1>0, <2>2, <2>3, <2>4, <2>5, <2>6, <2>7 DEF LevelCached
<1>3. CASE ResetDir
  <2>1. /\ pc = "reset" /\ UNCHANGED <<totalLevel, pc, files, pending>>
        /\ \A f \in files : f.level # job.level
        /\ sstableIndex' = [sstableIndex EXCEPT ![job.level] = <<>>]
    BY <1>3 DEF ResetDir
  <2>2. (Unread(l)' <=> Unread(l)) /\ ~Closing
    BY <2>1 DEF Unread, Up, Closing
  <2>3. HeadsIn(files, l)' = HeadsIn(files, l)
    BY <2>1 DEF HeadsIn, HeadOf
  <2>4. CASE l = job.level
    <3>1. sstableIndex'[l] = <<>>
      BY <1>0, <2>1, <2>4
    <3>2. ToSet(sstableIndex'[l]) = {} /\ Each(sstableIndex[l])' /\ HeadsIn(files, l) = {}
      BY <2>1, <2>4, <3>1 DEF ToSet, Each, HeadsIn
    <3> QED
      BY <2>3, <3>1, <3>2 DEF LevelCached
  <2>5. CASE l # job.level
    <3>1. sstableIndex'[l] = sstableIndex[l]
      BY <1>0, <2>1, <2>5
    <3>2. Each(sstableIndex[l])'
      BY <1>0, <3>1 DEF LevelCached, Each
    <3> QED
      BY <1>0, <2>2, <2>3, <2>5, <3>1, <3>2 DEF LevelCached
  <2> QED
    BY <2>4, <2>5
<1>4. CASE ResetDone
  <2>1. /\ pc = "reset" /\ pc' = "idle" /\ job.level > totalLevel
        /\ UNCHANGED <<sstableIndex, files>>
    BY <1>4 DEF ResetDone, disk
  <2>2. dirs = {}
    BY <1>0, <2>1 DEF Cached, DirsExact, Up
  <2>3. HeadsIn(files, l) = {}
    BY <2>2, NoDirNoHeads DEF Cached
  <2>4. sstableIndex[l] = <<>>
    <3>1. CASE l > totalLevel
      BY <1>0, <2>1, <3>1 DEF LevelCached, Unread, Up
    <3>2. CASE ~(l > totalLevel)
      <4>1. ToSet(sstableIndex[l]) = {}
        BY <1>0, <2>1, <2>3, <3>2 DEF LevelCached
      <4>2. sstableIndex[l] \in Seq(Table)
        BY <1>0
      <4> QED
        BY <4>1, <4>2, NothingListed
    <3> QED
      BY <3>1, <3>2
  <2>5. sstableIndex'[l] = <<>> /\ HeadsIn(files, l)' = {}
    BY <2>1, <2>3, <2>4 DEF HeadsIn, HeadOf
  <2>6. ToSet(sstableIndex'[l]) = {} /\ Each(sstableIndex[l])'
    BY <2>5 DEF ToSet, Each
  <2> QED
    BY <2>5, <2>6 DEF LevelCached
<1> QED
  BY <1>1, <1>2, <1>3, <1>4

(* The constructor reads the levels one by one.                            *)
LEMMA CachedOpen ==
    ASSUME Cached, OpenStart \/ OpenLevel \/ OpenDone, NEW l \in Level
    PROVE  LevelCached(l)'
<1>0. /\ LevelCached(l) /\ l \in Nat /\ sstableIndex \in [Level -> Seq(Table)]
  BY LevelsAssumption DEF Cached, CacheOK, Level, Fresh, Typed, TypeOK
<1>1. CASE OpenStart
  <2>1. pc = "down" /\ pc' = "open" /\ UNCHANGED <<sstableIndex, job>>
    BY <1>1 DEF OpenStart, store
  <2>2. job.level = 0
    BY <2>1 DEF Cached, Fresh, Typed, JobOK
  <2>3. sstableIndex'[l] = <<>>
    BY <1>0, <2>1 DEF LevelCached, Unread
  <2>4. ToSet(sstableIndex'[l]) = {} /\ Each(sstableIndex[l])'
    BY <2>3 DEF ToSet, Each
  <2>5. Unread(l)'
    BY <1>0, <2>1, <2>2 DEF Unread
  <2> QED
    BY <2>3, <2>4, <2>5 DEF LevelCached
<1>2. CASE OpenLevel
  <2> DEFINE here == HeadsIn(files, job.level)
  <2>1. pc = "open" /\ pc' = "open" /\ UNCHANGED files /\ job.level \in dirs
    BY <1>2 DEF OpenLevel, disk
  <2>2. PICK order \in SetToSeqs(here) :
          sstableIndex' = [sstableIndex EXCEPT ![job.level] = order]
    BY <1>2 DEF OpenLevel, HeadsIn
  <2>3. job'.level = job.level + 1 /\ job.level \in Nat
    BY <1>2, LevelsAssumption DEF OpenLevel, Cached, Fresh, Typed, TypeOK
  <2>4. HeadsIn(files, l)' = HeadsIn(files, l) /\ ~Closing /\ ~Closing'
    BY <2>1 DEF HeadsIn, HeadOf, Closing
  <2>5. CASE l = job.level
    <3>1. here \in SUBSET Table /\ \A g, h \in here : NameOf(g) = NameOf(h) => g = h
      <4>1. here \subseteq Table
        BY HeadType DEF HeadsIn, Cached, Fresh, Typed, TypeOK
      <4>2. ASSUME NEW g \in here, NEW h \in here, NameOf(g) = NameOf(h) PROVE g = h
        <5>1. PICK a \in files : g = HeadOf(a)
          BY <4>2 DEF HeadsIn
        <5>2. PICK b \in files : h = HeadOf(b)
          BY <4>2 DEF HeadsIn
        <5>3. a.time = b.time
          BY <4>2, <5>1, <5>2 DEF HeadOf, NameOf
        <5> QED
          BY <5>1, <5>2, <5>3 DEF Cached, TimesDiffer
      <4> QED
        BY <4>1, <4>2
    <3>2. IsFiniteSet(here)
      <4>1. IsFiniteSet({g \in files : g.level = job.level})
        BY FS_Subset DEF Cached, Fresh, Typed
      <4> DEFINE local == {g \in files : g.level = job.level}
                 heads == [g \in local |-> HeadOf(g)]
      <4>2. heads \in Surjection(local, here)
        BY DEF Surjection, HeadsIn
      <4> QED
        BY <4>1, <4>2, FS_Surjection
    <3> HIDE DEF here
    <3>3. Each(order) /\ ToSet(order) = here
      BY <3>1, <3>2, EachListed
    <3>4. sstableIndex'[l] = order
      BY <1>0, <2>2, <2>5
    <3>5. Each(sstableIndex[l])' /\ ToSet(sstableIndex'[l]) = HeadsIn(files, l)
      BY <2>5, <3>3, <3>4 DEF here, Each
    <3>6. ~Unread(l)'
      BY <2>1, <2>3, <2>5 DEF Unread, Up
    <3> QED
      BY <2>4, <3>5, <3>6 DEF LevelCached
  <2>6. CASE l # job.level
    <3>1. sstableIndex'[l] = sstableIndex[l]
      BY <1>0, <2>2, <2>6
    <3>2. Unread(l)' <=> Unread(l)
      <4>1. (l >= job'.level) <=> (l >= job.level)
        BY <1>0, <2>3, <2>6
      <4> QED
        BY <2>1, <4>1 DEF Unread, Up
    <3>3. Each(sstableIndex[l])'
      BY <1>0, <3>1 DEF LevelCached, Each
    <3> QED
      BY <1>0, <2>1, <2>4, <3>1, <3>2, <3>3 DEF LevelCached
  <2> QED
    BY <2>5, <2>6
<1>3. CASE OpenDone
  <2>1. /\ pc = "open" /\ pc' = "idle" /\ UNCHANGED <<sstableIndex, files>>
        /\ totalLevel' = job.level - 1
    BY <1>3 DEF OpenDone, disk
  <2>2. Unread(l)' <=> Unread(l)
    <3>1. job.level \in Nat
      BY LevelsAssumption DEF Cached, Fresh, Typed, TypeOK
    <3>2. (l > totalLevel') <=> (l >= job.level)
      BY <1>0, <2>1, <3>1
    <3> QED
      BY <2>1, <3>2 DEF Unread, Up
  <2>3. HeadsIn(files, l)' = HeadsIn(files, l) /\ ~Closing /\ ~Closing' /\ Each(sstableIndex[l])'
    BY <1>0, <2>1 DEF HeadsIn, HeadOf, Closing, LevelCached, Each
  <2> QED
    BY <1>0, <2>1, <2>2, <2>3 DEF LevelCached
<1> QED
  BY <1>1, <1>2, <1>3

(* Every step keeps the cache in step with the disk.                       *)
LEMMA CachedNext ==
    ASSUME Cached, "reset" \notin CrashPoints, [Next]_vars
    PROVE  Cached'
<1>1. Fresh' /\ PendingOK' /\ DirsExact' /\ TimesDiffer'
  BY FreshNext, PendingNext, DirsExactNext, TimesNext DEF Cached
<1>2. ASSUME NEW l \in Level PROVE LevelCached(l)'
  <2>1. CASE Continue
    BY <2>1, CachedCompact, CachedOutput, CachedDelete, CachedEnd, CachedReset, CachedOpen
    DEF Continue
  <2>2. CASE Call
    <3>1. ASSUME NEW k \in Key, Del(k) PROVE LevelCached(l)'
      BY <3>1, CachedStore DEF Del
    <3>2. ASSUME NEW k \in Key, NEW v \in Value, Put(k, v) PROVE LevelCached(l)'
      BY <3>2, CachedStore DEF Put
    <3> QED
      BY <2>2, <3>1, <3>2, CachedReset, CachedEnd, CachedClose DEF Call
  <2>3. CASE OpenStart \/ Crash
    BY <2>3, CachedOpen, CachedEnd
  <2>4. CASE UNCHANGED vars
    <3>1. LevelCached(l)
      BY DEF Cached, CacheOK
    <3> QED
      BY <2>4, <3>1
      DEF vars, store, disk, LevelCached, Unread, Up, Closing, Each, HeadsIn, HeadOf
  <2> QED
    BY <2>1, <2>2, <2>3, <2>4 DEF Next
<1>3. CacheOK'
  BY <1>2 DEF CacheOK
<1> QED
  BY <1>1, <1>3 DEF Cached

(* The invariant, in every behaviour without a kill within reset.          *)
LEMMA CachedAlways ==
    ASSUME "reset" \notin CrashPoints
    PROVE  Spec => []Cached
<1>1. Init => Cached
  BY CachedInit
<1>2. Cached /\ [Next]_vars => Cached'
  BY CachedNext
<1> QED
  BY <1>1, <1>2, PTL DEF Spec

(* The inductive invariant that lsm_kill checks.                           *)
THEOREM InductiveInvHolds ==
    ASSUME "reset" \notin CrashPoints
    PROVE  Spec => []InductiveInv
<1>1. Cached => InductiveInv
  BY DEF Cached, Fresh, Typed, InductiveInv
<1> QED
  BY <1>1, CachedAlways, PTL

(* A sequence of different heads is as long as the set it lists.           *)
LEMMA EachLength ==
    ASSUME NEW idx \in Seq(Table), Each(idx), NEW F,
           \A f, g \in F : HeadOf(f) = HeadOf(g) => f = g,
           ToSet(idx) = {HeadOf(f) : f \in F}
    PROVE  Len(idx) = Cardinality(F)
<1> DEFINE D == 1..Len(idx)
           at == [i \in D |-> CHOOSE f \in F : HeadOf(f) = idx[i]]
<1>1. DOMAIN idx = D /\ Len(idx) \in Nat
  OBVIOUS
<1>2. ASSUME NEW i \in D PROVE at[i] \in F /\ HeadOf(at[i]) = idx[i]
  <2>1. idx[i] \in ToSet(idx)
    BY <1>1 DEF ToSet
  <2>2. \E f \in F : HeadOf(f) = idx[i]
    BY <2>1
  <2> QED
    BY <2>2
<1>3. at \in [D -> F]
  BY <1>2
<1>4. ASSUME NEW i \in D, NEW j \in D, at[i] = at[j] PROVE i = j
  <2>1. idx[i] = idx[j]
    BY <1>2, <1>4
  <2> QED
    BY <1>1, <2>1 DEF Each
<1>5. ASSUME NEW f \in F PROVE \E i \in D : at[i] = f
  <2>1. HeadOf(f) \in ToSet(idx)
    OBVIOUS
  <2>2. PICK i \in D : idx[i] = HeadOf(f)
    BY <1>1, <2>1 DEF ToSet
  <2>3. at[i] = f
    BY <1>2, <2>2
  <2> QED
    BY <2>3
<1> HIDE DEF D, at
<1>6. at \in Bijection(D, F)
  BY <1>3, <1>4, <1>5 DEF Bijection, Injection, Surjection, IsInjective
<1>7. IsFiniteSet(D) /\ Cardinality(D) = Len(idx)
  BY <1>1, FS_Interval DEF D
<1>8. ExistsBijection(D, F)
  BY <1>6 DEF ExistsBijection
<1> QED
  BY <1>7, <1>8, FS_Bijection

(* Between calls the cache and the disk agree: each file has one head      *)
(* under its level, each head a file, and the directories are those of the *)
(* levels in use, over flushes, merges, resets, shutdowns and kills.       *)
THEOREM CacheIsDisk ==
    ASSUME "reset" \notin CrashPoints
    PROVE  Spec => []CacheMatchesDisk
<1>1. ASSUME Cached, Quiet PROVE dirs = 0..totalLevel
  BY <1>1 DEF Cached, DirsExact, Up, Quiet
<1>2. ASSUME Cached, Quiet, NEW l \in Level
      PROVE  /\ ToSet(sstableIndex[l]) = HeadsIn(files, l)
             /\ Len(sstableIndex[l]) = Cardinality({g \in files : g.level = l})
  <2>1. ToSet(sstableIndex[l]) = HeadsIn(files, l)
    BY <1>2, CachedUp DEF Quiet, Up, Closing
  <2> DEFINE F == {g \in files : g.level = l}
  <2>2. \A f, g \in F : HeadOf(f) = HeadOf(g) => f = g
    BY <1>2 DEF Cached, TimesDiffer, HeadOf
  <2>3. sstableIndex[l] \in Seq(Table) /\ Each(sstableIndex[l])
    BY <1>2 DEF Cached, CacheOK, LevelCached, Fresh, Typed, TypeOK
  <2>4. ToSet(sstableIndex[l]) = {HeadOf(f) : f \in F}
    BY <2>1 DEF HeadsIn
  <2> HIDE DEF F
  <2>5. Len(sstableIndex[l]) = Cardinality(F)
    BY <2>2, <2>3, <2>4, EachLength
  <2> QED
    BY <2>1, <2>5 DEF F
<1>3. Cached => CacheMatchesDisk
  BY <1>1, <1>2 DEF CacheMatchesDisk, HeadsIn
<1> QED
  BY <1>3, CachedAlways, PTL
---------------------------------------------------------------------------
(* Sizes.                                                                  *)

(* A set of numbers that is not empty has a smallest one.                  *)
LEMMA SmallestKey ==
    ASSUME NEW I \in SUBSET Nat, I # {}
    PROVE  \E p \in I : \A q \in I : p <= q
<1>1. IsWellFoundedOn(OpToRel(<, Nat), Nat)
  BY NatLessThanWellFounded
<1>2. PICK p \in I : \A q \in I : ~(<<q, p>> \in OpToRel(<, Nat))
  BY <1>1, WFMin
<1>3. \A q \in I : ~(q < p)
  BY <1>2 DEF OpToRel
<1> QED
  BY <1>3

(* A finite set of numbers that is not empty has a largest one.            *)
LEMMA LargestExists ==
    ASSUME NEW S \in SUBSET Nat, IsFiniteSet(S), S # {}
    PROVE  \E m \in S : \A n \in S : n <= m
<1> DEFINE UpTo(n) == {m \in S : n <= m}
           T     == {UpTo(n) : n \in S}
<1>1. T \subseteq FiniteSubsetsOf(S) /\ T # {}
  <2>1. \A n \in S : UpTo(n) \subseteq S /\ IsFiniteSet(UpTo(n))
    BY FS_Subset
  <2> QED
    BY <2>1 DEF FiniteSubsetsOf
<1>2. PICK U \in T : \A V \in T : ~(<<V, U>> \in StrictSubsetOrdering(S))
  <2> HIDE DEF T
  <2> DEFINE R == StrictSubsetOrdering(S)
             F == FiniteSubsetsOf(S)
  <2>1. IsWellFoundedOn(R, F)
    BY FS_StrictSubsetOrderingWellFounded
  <2>2. T \subseteq F
    BY <1>1
  <2> HIDE DEF R, F
  <2>3. \E U \in T : \A V \in T : ~(<<V, U>> \in R)
    BY <1>1, <2>1, <2>2, WFMin
  <2> QED
    BY <2>3 DEF R
<1>3. PICK m \in S : U = UpTo(m)
  BY <1>2
<1>4. ASSUME NEW n \in S, ~(n <= m) PROVE FALSE
  <2>1. UpTo(n) \subseteq UpTo(m) /\ m \in UpTo(m) /\ m \notin UpTo(n)
    <3>1. \A k \in S : n <= k => m <= k
      <4>1. n \in Nat /\ m \in Nat /\ \A k \in S : k \in Nat
        OBVIOUS
      <4> QED
        BY <1>4, <4>1
    <3>2. m <= m
      OBVIOUS
    <3> QED
      BY <1>4, <3>1, <3>2
  <2>2. <<UpTo(n), UpTo(m)>> \in StrictSubsetOrdering(S)
    BY <2>1 DEF StrictSubsetOrdering
  <2> QED
    BY <1>2, <1>3, <2>2
<1> QED
  BY <1>4

(* The size of a table is the number of its bytes: a sum over the keys is  *)
(* the cardinality of a set with as many members for each key.             *)
Cells(w, T) == {c \in T \X Nat : c[2] < w[c[1]]}

(* Taking a key out takes its bytes out.                                   *)
LEMMA CellsSplit ==
    ASSUME NEW T, IsFiniteSet(T), NEW w, \A x \in T : w[x] \in Nat, NEW x \in T,
           IsFiniteSet(Cells(w, T \ {x}))
    PROVE  /\ IsFiniteSet(Cells(w, T))
           /\ Cardinality(Cells(w, T)) = w[x] + Cardinality(Cells(w, T \ {x}))
<1> DEFINE R == Cells(w, T \ {x})
           X == {x} \X (0..(w[x] - 1))
<1>1. IsFiniteSet(X) /\ Cardinality(X) = w[x]
  <2>1. IsFiniteSet({x}) /\ Cardinality({x}) = 1
    BY FS_Singleton
  <2>2. ASSUME NEW n \in Nat
        PROVE  IsFiniteSet(0..(n - 1)) /\ Cardinality(0..(n - 1)) = n
    <3>1. n - 1 \in Int /\ 0 \in Int
      OBVIOUS
    <3>2. /\ IsFiniteSet(0..(n - 1))
          /\ Cardinality(0..(n - 1)) = IF 0 > n - 1 THEN 0 ELSE n - 1 - 0 + 1
      BY <3>1, FS_Interval
    <3> QED
      BY <3>2
  <2> DEFINE I == 0..(w[x] - 1)
  <2>3. w[x] \in Nat /\ IsFiniteSet(I) /\ Cardinality(I) = w[x]
    BY <2>2
  <2> HIDE DEF I
  <2>4. IsFiniteSet({x} \X I) /\ Cardinality({x} \X I) = 1 * w[x]
    BY <2>1, <2>3, FS_Product
  <2> QED
    BY <2>3, <2>4 DEF I
<1>2. Cells(w, T) = R \cup X
  <2>1. ASSUME NEW c \in Cells(w, T) PROVE c \in R \cup X
    <3>1. c \in T \X Nat /\ c[2] < w[c[1]] /\ c[1] \in T /\ c[2] \in Nat /\ c = <<c[1], c[2]>>
      BY DEF Cells
    <3>2. CASE c[1] = x
      <4>1. c[2] \in 0..(w[x] - 1)
        BY <3>1, <3>2
      <4> QED
        BY <3>1, <3>2, <4>1
    <3>3. CASE c[1] # x
      <4>1. c[1] \in T \ {x}
        BY <3>1, <3>3
      <4>2. c \in (T \ {x}) \X Nat
        BY <3>1, <4>1
      <4> QED
        BY <3>1, <4>2 DEF Cells
    <3> QED
      BY <3>2, <3>3
  <2>2. ASSUME NEW c \in X PROVE c \in Cells(w, T)
    <3>1. c[1] = x /\ c[2] \in 0..(w[x] - 1) /\ c = <<c[1], c[2]>>
      OBVIOUS
    <3>2. c[2] \in Nat /\ c[2] < w[x]
      BY <3>1
    <3> QED
      BY <3>1, <3>2 DEF Cells
  <2>3. R \subseteq Cells(w, T)
    BY DEF Cells
  <2> QED
    BY <2>1, <2>2, <2>3
<1>3. R \cap X = {}
  BY DEF Cells
<1>4. Cardinality(R \cap X) = 0
  BY <1>3, FS_EmptySet
<1>5. Cardinality(R) \in Nat
  BY FS_CardinalityType
<1> HIDE DEF R, X
<1>6. IsFiniteSet(R)
  BY DEF R
<1>7. IsFiniteSet(R \cup X) /\ Cardinality(R \cup X) = Cardinality(R) + Cardinality(X) - 0
  BY <1>1, <1>4, <1>6, FS_Union
<1> QED
  BY <1>1, <1>2, <1>5, <1>7 DEF R

(* An induction over the subsets of a finite set; the property is a set of *)
(* them.                                                                   *)
LEMMA SubsetInduction ==
    ASSUME NEW S, IsFiniteSet(S), NEW G,
           \A T \in SUBSET S : (\A x \in T : T \ {x} \in G) => T \in G
    PROVE  \A T \in SUBSET S : T \in G
<1> DEFINE B == {T \in SUBSET S : T \notin G}
           R == StrictSubsetOrdering(S)
           F == FiniteSubsetsOf(S)
<1>1. SUFFICES ASSUME B # {} PROVE FALSE
  OBVIOUS
<1>2. B \subseteq F
  BY FS_Subset DEF FiniteSubsetsOf
<1>3. IsWellFoundedOn(R, F)
  BY FS_StrictSubsetOrderingWellFounded
<1>4. PICK T \in B : \A U \in B : ~(<<U, T>> \in R)
  <2> HIDE DEF B, R, F
  <2> QED
    BY <1>1, <1>2, <1>3, WFMin
<1>5. PICK x \in T : T \ {x} \in B
  BY <1>4
<1>6. <<T \ {x}, T>> \in R
  BY <1>4, <1>5 DEF StrictSubsetOrdering
<1> QED
  BY <1>4, <1>5, <1>6

(* The cells of finitely many keys are finite in number.                   *)
LEMMA CellsFinite ==
    ASSUME NEW S, IsFiniteSet(S), NEW w, \A x \in S : w[x] \in Nat
    PROVE  \A T \in SUBSET S : IsFiniteSet(Cells(w, T))
<1> DEFINE G == {T \in SUBSET S : IsFiniteSet(Cells(w, T))}
<1>1. ASSUME NEW T \in SUBSET S, \A x \in T : T \ {x} \in G PROVE T \in G
  <2>1. CASE T = {}
    <3>1. Cells(w, T) = {}
      BY <2>1 DEF Cells
    <3> QED
      BY <3>1, FS_EmptySet
  <2>2. CASE T # {}
    <3>1. PICK x : x \in T
      BY <2>2
    <3>2. IsFiniteSet(T)
      BY FS_Subset
    <3> QED
      BY <1>1, <3>1, <3>2, CellsSplit
  <2> QED
    BY <2>1, <2>2
<1> HIDE DEF G
<1>2. \A T \in SUBSET S : T \in G
  BY <1>1, SubsetInduction
<1> QED
  BY <1>2 DEF G

(* The equation by which the fold of the community modules is defined.     *)
IsFold(iter, S, w) ==
    iter = [T \in SUBSET S |->
               IF T = {} THEN 0
               ELSE w[CHOOSE x \in T : TRUE] + iter[T \ {CHOOSE x \in T : TRUE}]]

(* What the fold of the community modules computes, however it chooses.    *)
LEMMA FoldCounts ==
    ASSUME NEW S, IsFiniteSet(S), NEW w, \A x \in S : w[x] \in Nat, NEW iter, IsFold(iter, S, w)
    PROVE  \A T \in SUBSET S : iter[T] = Cardinality(Cells(w, T))
<1> DEFINE G == {T \in SUBSET S : iter[T] = Cardinality(Cells(w, T))}
<1>1. ASSUME NEW T \in SUBSET S, \A x \in T : T \ {x} \in G PROVE T \in G
  <2>1. CASE T = {}
    <3>1. Cells(w, T) = {} /\ iter[T] = 0
      BY <2>1 DEF Cells, IsFold
    <3> QED
      BY <3>1, FS_EmptySet
  <2>2. CASE T # {}
    <3> DEFINE x == CHOOSE x \in T : TRUE
    <3>1. x \in T /\ iter[T] = w[x] + iter[T \ {x}]
      BY <2>2 DEF IsFold
    <3> HIDE DEF x
    <3>2. IsFiniteSet(T) /\ IsFiniteSet(Cells(w, T \ {x}))
      <4>1. T \ {x} \in SUBSET S
        OBVIOUS
      <4>2. \A U \in SUBSET S : IsFiniteSet(Cells(w, U))
        BY CellsFinite
      <4>3. IsFiniteSet(T)
        BY FS_Subset
      <4> HIDE DEF G
      <4> QED
        BY <4>1, <4>2, <4>3
    <3>3. Cardinality(Cells(w, T)) = w[x] + Cardinality(Cells(w, T \ {x}))
      BY <3>1, <3>2, CellsSplit
    <3> QED
      BY <1>1, <3>1, <3>3
  <2> QED
    BY <2>1, <2>2
<1> HIDE DEF G
<1>2. \A T \in SUBSET S : T \in G
  BY <1>1, SubsetInduction
<1> QED
  BY <1>2 DEF G

(* The other way round, that count is such a fold, so that there is one.   *)
LEMMA CountIsFold ==
    ASSUME NEW S, IsFiniteSet(S), NEW w, \A x \in S : w[x] \in Nat, NEW count,
           count = [T \in SUBSET S |-> Cardinality(Cells(w, T))]
    PROVE  IsFold(count, S, w)
<1> SUFFICES ASSUME NEW T \in SUBSET S
             PROVE  count[T] = IF T = {} THEN 0
                               ELSE w[CHOOSE x \in T : TRUE] + count[T \ {CHOOSE x \in T : TRUE}]
  BY DEF IsFold
<1>1. CASE T = {}
  <2>1. Cells(w, T) = {}
    BY <1>1 DEF Cells
  <2> QED
    BY <1>1, <2>1, FS_EmptySet
<1>2. CASE T # {}
  <2> DEFINE x == CHOOSE x \in T : TRUE
  <2>1. x \in T
    BY <1>2
  <2> HIDE DEF x
  <2>2. IsFiniteSet(T) /\ IsFiniteSet(Cells(w, T \ {x}))
    BY CellsFinite, FS_Subset
  <2>3. Cardinality(Cells(w, T)) = w[x] + Cardinality(Cells(w, T \ {x}))
    BY <2>1, <2>2, CellsSplit
  <2>4. count[T] = w[x] + count[T \ {x}]
    BY <2>3
  <2> QED
    BY <1>2, <2>4 DEF x
<1> QED
  BY <1>1, <1>2

Weights(d) == [k \in Key |-> IndexBytes + ValLen[d[k].val]]

LEMMA WeightsType ==
    ASSUME NEW d \in Data
    PROVE  /\ Keys(d) \subseteq Key /\ IsFiniteSet(Keys(d))
           /\ \A k \in Key : Weights(d)[k] \in Nat
<1>1. Keys(d) \subseteq Key /\ IsFiniteSet(Keys(d))
  BY KeysAssumption, FS_Subset DEF Keys
<1>2. \A k \in Key : d[k].val \in Value \cup {DEL, None}
  BY DEF Data, Entry
<1> QED
  BY <1>1, <1>2, LengthsAssumption, SizesAssumption DEF Weights

LEMMA BytesCount ==
    ASSUME NEW d \in Data
    PROVE  Bytes(d) = Cardinality(Cells(Weights(d), Keys(d)))
<1> DEFINE S == Keys(d)
           w == Weights(d)
           Lit(it) == [T \in SUBSET S |->
                          IF T = {} THEN 0
                          ELSE (IndexBytes + ValLen[d[CHOOSE x \in T : TRUE].val])
                               + it[T \ {CHOOSE x \in T : TRUE}]]
           iter ==  CHOOSE it : it = Lit(it)
<1>1. IsFiniteSet(S) /\ S \subseteq Key /\ \A x \in S : w[x] \in Nat
  BY WeightsType
<1>2. ASSUME NEW it PROVE IsFold(it, S, w) <=> it = Lit(it)
  BY <1>1 DEF IsFold, Weights
<1>3. Bytes(d) = iter[S]
  BY DEF Bytes, MapThenSumSet, MapThenFoldSet
<1> HIDE DEF S, w, Lit
<1>4. \E it : IsFold(it, S, w)
  BY <1>1, CountIsFold
<1>5. iter = Lit(iter)
  BY <1>2, <1>4
<1>6. IsFold(iter, S, w)
  BY <1>2, <1>5
<1> HIDE DEF iter
<1>7. iter[S] = Cardinality(Cells(w, S))
  BY <1>1, <1>6, FoldCounts
<1> QED
  BY <1>3, <1>7 DEF S, w

(* No entries have no bytes; without the entry of a key, a table is        *)
(* smaller by that entry.                                                  *)
LEMMA BytesOfNothing == Bytes(NoData) = 0
<1>1. Keys(NoData) = {} /\ NoData \in Data
  BY NoDataType DEF Keys, NoData
<1>2. Cells(Weights(NoData), {}) = {}
  BY DEF Cells
<1> QED
  BY <1>1, <1>2, BytesCount, FS_EmptySet

Without(d, k) == [d EXCEPT ![k] = NoEntry]

LEMMA BytesWithout ==
    ASSUME NEW d \in Data, NEW k \in Keys(d)
    PROVE  /\ Without(d, k) \in Data /\ Bytes(Without(d, k)) \in Nat
           /\ Bytes(d) = IndexBytes + ValLen[d[k].val] + Bytes(Without(d, k))
<1> DEFINE e == Without(d, k)
<1>1. e \in Data /\ k \in Key /\ Keys(e) = Keys(d) \ {k}
  BY DEF Without, Data, Entry, NoEntry, Keys
<1>2. \A j \in Keys(e) : Weights(e)[j] = Weights(d)[j]
  BY <1>1 DEF Weights, Without, Data, Keys
<1>3. Cells(Weights(e), Keys(e)) = Cells(Weights(d), Keys(e))
  BY <1>2 DEF Cells
<1>4. /\ IsFiniteSet(Keys(d)) /\ \A j \in Keys(d) : Weights(d)[j] \in Nat
      /\ Keys(e) \in SUBSET Keys(d)
  BY <1>1, WeightsType
<1>5. IsFiniteSet(Cells(Weights(d), Keys(e)))
  BY <1>4, CellsFinite
<1>6. Cardinality(Cells(Weights(d), Keys(d))) = Weights(d)[k] + Cardinality(Cells(Weights(d), Keys(e)))
  BY <1>1, <1>4, <1>5, CellsSplit
<1>7. Weights(d)[k] = IndexBytes + ValLen[d[k].val]
  BY <1>1 DEF Weights
<1>8. Cardinality(Cells(Weights(d), Keys(e))) \in Nat
  BY <1>5, FS_CardinalityType
<1> HIDE DEF e
<1>9. Bytes(e) = Cardinality(Cells(Weights(d), Keys(e)))
  BY <1>1, <1>3, BytesCount
<1>10. Bytes(d) = Cardinality(Cells(Weights(d), Keys(d)))
  BY BytesCount
<1> QED
  BY <1>1, <1>6, <1>7, <1>8, <1>9, <1>10 DEF e

(* A size is a number.                                                     *)
LEMMA BytesType ==
    ASSUME NEW d \in Data
    PROVE  Bytes(d) \in Nat
<1>1. IsFiniteSet(Cells(Weights(d), Keys(d)))
  BY WeightsType, CellsFinite
<1> QED
  BY <1>1, BytesCount, FS_CardinalityType

(* What put computes bounds the size that the memtable then has.           *)
LEMMA NextSizeBounds ==
    ASSUME s \in Data, clock \in Nat, NEW k \in Key, NEW v \in Value \cup {DEL}
    PROVE  Bytes([s EXCEPT ![k] = NewEntry(v)]) <= NextSize(k, v)
<1> DEFINE d == [s EXCEPT ![k] = NewEntry(v)]
           e == Without(d, k)
<1>1. d \in Data /\ d[k].val = v /\ k \in Keys(d)
  BY DEF Data, Entry, NewEntry, Keys, NoEntry
<1>2. Bytes(d) = IndexBytes + ValLen[v] + Bytes(e) /\ Bytes(e) \in Nat
  <2> HIDE DEF d
  <2> QED
    BY <1>1, BytesWithout
<1>3. /\ v \in Value \cup {DEL, None} /\ s[k].val \in Value \cup {DEL, None}
      /\ ValLen[v] \in Nat /\ ValLen[s[k].val] \in Nat /\ IndexBytes \in Nat
      /\ Bytes(s) \in Nat
  BY LengthsAssumption, SizesAssumption, BytesType DEF Data, Entry
<1>4. CASE k \in Keys(s)
  <2>1. Without(s, k) = e
    BY DEF Without, Data
  <2>2. Bytes(s) = IndexBytes + ValLen[s[k].val] + Bytes(e)
    BY <1>4, <2>1, BytesWithout
  <2> HIDE DEF d, e
  <2>3. Bytes(d) <= NextSize(k, v)
    BY <1>2, <1>3, <2>2 DEF NextSize
  <2> QED
    BY <2>3 DEF d
<1>5. CASE k \notin Keys(s)
  <2>1. s[k] = NoEntry /\ ValLen[s[k].val] = 0
    BY <1>5, LengthsAssumption DEF Keys, NoEntry
  <2>2. s = e
    BY <2>1 DEF Without, Data
  <2> HIDE DEF d, e
  <2>3. Bytes(d) <= NextSize(k, v)
    BY <1>2, <1>3, <2>1, <2>2 DEF NextSize
  <2> QED
    BY <2>3 DEF d
<1> QED
  BY <1>4, <1>5

(* One entry fits a table.                                                 *)
LEMMA OneEntryFits ==
    ASSUME NEW v \in Value \cup {DEL, None}
    PROVE  /\ IndexBytes + ValLen[v] + HeadBytes <= MAXSIZE
           /\ ValLen[v] \in Nat
<1>1. ValLen[v] \in Nat /\ ValLen[DEL] \in Nat
  BY LengthsAssumption
<1>2. CASE v \in Value \cup {DEL}
  BY <1>1, <1>2, SizesAssumption
<1>3. CASE v = None
  BY <1>1, <1>3, SizesAssumption, LengthsAssumption
<1> QED
  BY <1>1, <1>2, <1>3

(* A flush happens only when there is something to flush.                  *)
LEMMA FlushedHasKeys ==
    ASSUME s \in Data, NEW k \in Key, NEW v \in Value \cup {DEL},
           NextSize(k, v) + HeadBytes > MAXSIZE
    PROVE  Keys(s) # {}
<1> SUFFICES ASSUME Keys(s) = {} PROVE FALSE
  OBVIOUS
<1>1. s = NoData /\ s[k] = NoEntry
  BY DEF Keys, NoData, Data
<1>2. NextSize(k, v) = 0 + IndexBytes + ValLen[v]
  BY <1>1, BytesOfNothing, LengthsAssumption DEF NextSize, NoEntry
<1> QED
  BY <1>2, OneEntryFits, SizesAssumption

(* Data that is not empty has a key.                                       *)
LEMMA HasKeys ==
    ASSUME NEW d \in Data, d # NoData
    PROVE  Keys(d) # {}
  BY DEF Keys, NoData, Data

(* The part of a merge that goes to one table has keys and fits it.        *)
LEMMA FittingFits ==
    ASSUME NEW d \in Data, d # NoData
    PROVE  LET f == Only(d, Fitting(d))
           IN  Keys(f) # {} /\ Bytes(f) + HeadBytes <= MAXSIZE
<1> DEFINE F == Fitting(d)
           UpTo(k) == {j \in Key : j <= k}
           fits(k) == Bytes(Only(d, UpTo(k))) + HeadBytes <= MAXSIZE
<1>1. F \subseteq Keys(d) /\ Keys(d) \subseteq Key /\ Key \subseteq Nat /\ IsFiniteSet(F)
  BY KeysAssumption, FS_Subset DEF Fitting, Keys
<1>2. \A k : k \in F <=> k \in Keys(d) /\ \A j \in Keys(d) : j <= k => fits(j)
  BY DEF Fitting
<1>3. F # {}
  <2>1. Keys(d) # {} /\ Keys(d) \in SUBSET Nat
    BY <1>1 DEF Keys, NoData, Data
  <2>2. PICK k \in Keys(d) : \A j \in Keys(d) : k <= j
    BY <2>1, SmallestKey
  <2>4. \A j \in Keys(d) : j <= k => j = k
    <3>1. k \in Nat /\ \A j \in Keys(d) : j \in Nat /\ k <= j
      BY <1>1, <2>2
    <3> HIDE DEF F
    <3> QED
      BY <3>1
  <2>3. fits(k)
    <3> DEFINE o == Only(d, UpTo(k))
    <3>1. o \in Data /\ Keys(o) = {k} /\ o[k] = d[k] /\ Without(o, k) = NoData
      <4>2. k \in Key /\ k \in Nat /\ k <= k /\ d[k] # NoEntry
        BY <1>1, <2>2 DEF Keys
      <4>3. o = [j \in Key |-> IF j = k THEN d[k] ELSE NoEntry]
        BY <2>4, <4>2 DEF Only, Keys
      <4> HIDE DEF o
      <4> QED
        BY <4>2, <4>3 DEF Data, Entry, NoEntry, Keys, Without, NoData
    <3> HIDE DEF o
    <3>2. Bytes(o) = IndexBytes + ValLen[d[k].val] + 0
      BY <3>1, BytesWithout, BytesOfNothing
    <3>3. d[k].val \in Value \cup {DEL, None}
      BY <1>1 DEF Data, Entry
    <3>4. Bytes(o) + HeadBytes <= MAXSIZE
      BY <3>2, <3>3, OneEntryFits, SizesAssumption
    <3> QED
      BY <3>4 DEF o
  <2> HIDE DEF F, fits
  <2> QED
    BY <1>2, <2>2, <2>3, <2>4
<1>4. PICK m \in F : \A k \in F : k <= m
  <2> HIDE DEF F
  <2> QED
    BY <1>1, <1>3, LargestExists
<1>5. Only(d, F) = Only(d, UpTo(m))
  <2>1. ASSUME NEW k \in Key, d[k] # NoEntry PROVE k \in F <=> k <= m
    <3>1. k \in Keys(d) /\ k \in Nat /\ m \in Nat /\ \A j \in Keys(d) : j \in Nat
      BY <1>1, <1>4, <2>1 DEF Keys
    <3>2. ASSUME k <= m, NEW j \in Keys(d), j <= k PROVE fits(j)
      <4>1. j <= m
        BY <3>1, <3>2
      <4> HIDE DEF fits, F
      <4> QED
        BY <1>2, <1>4, <4>1
    <3> HIDE DEF fits, F
    <3> QED
      BY <1>2, <1>4, <3>1, <3>2
  <2> HIDE DEF F
  <2> QED
    BY <2>1 DEF Only
<1>6. fits(m)
  <2>1. m \in Keys(d) /\ m <= m
    BY <1>1, <1>4
  <2> HIDE DEF F, fits
  <2> QED
    BY <1>2, <1>4, <2>1
<1>7. Keys(Only(d, F)) # {}
  BY <1>1, <1>4 DEF Keys, Only
<1> QED
  BY <1>5, <1>6, <1>7

(* The inductive invariant about sizes: the memtable fits a table, it is   *)
(* empty while a put that flushed is not done, and a merge that writes has *)
(* something to write.                                                     *)
SizesOK ==
    /\ Bytes(s) + HeadBytes <= MAXSIZE
    /\ pending # <<>> => s = NoData
    /\ pc = "write" => job.rest # NoData
    /\ PendingOK /\ TablesFit

(* The empty memtable fits, since a single entry would.                    *)
LEMMA NothingFits == Bytes(NoData) + HeadBytes <= MAXSIZE
<1>1. IndexBytes + ValLen[DEL] + HeadBytes <= MAXSIZE /\ ValLen[DEL] \in Nat
  BY OneEntryFits
<1> QED
  BY <1>1, BytesOfNothing, SizesAssumption

(* A file that fits, written, or files that go, leave files that fit.      *)
LEMMA TablesFitWrite ==
    ASSUME TablesFit, NEW f, files' \subseteq files \cup {f},
           Keys(f.data) # {}, Bytes(f.data) + HeadBytes <= MAXSIZE
    PROVE  TablesFit'
  BY DEF TablesFit

LEMMA TablesFitFewer ==
    ASSUME TablesFit, files' \subseteq files
    PROVE  TablesFit'
  BY DEF TablesFit

LEMMA SizesStore ==
    ASSUME Typed, SizesOK, NEW k \in Key, NEW v \in Value \cup {DEL}, Store(k, v), PendingOK'
    PROVE  SizesOK'
<1>1. s \in Data /\ clock \in Nat /\ pc = "idle" /\ pending = <<>>
  BY DEF Typed, TypeOK, Store, SizesOK, PendingOK
<1>2. CASE PutInMemory(k, v)
  <2>1. s' = [s EXCEPT ![k] = NewEntry(v)] /\ NextSize(k, v) + HeadBytes <= MAXSIZE
    BY <1>2 DEF PutInMemory, Insert
  <2>2. s' \in Data
    BY <1>1, <2>1 DEF Data, Entry, NewEntry
  <2>3. Bytes(s') <= NextSize(k, v)
    BY <1>1, <2>1, NextSizeBounds
  <2>4. Bytes(s') \in Nat /\ NextSize(k, v) \in Int
    <3>1. Bytes(s) \in Nat /\ Bytes(s') \in Nat
      BY <1>1, <2>2, BytesType
    <3>2. s[k].val \in Value \cup {DEL, None}
      BY <1>1 DEF Data, Entry
    <3> QED
      BY <3>1, <3>2, OneEntryFits, SizesAssumption DEF NextSize
  <2>5. Bytes(s') + HeadBytes <= MAXSIZE
    BY <2>1, <2>3, <2>4, SizesAssumption
  <2>6. UNCHANGED <<files, pc, job, pending>>
    BY <1>2 DEF PutInMemory, disk
  <2> QED
    BY <1>1, <2>5, <2>6, TablesFitFewer DEF SizesOK
<1>3. CASE PutAndFlush(k, v)
  <2> DEFINE f == [level |-> 0, time |-> TIME + 1, data |-> s]
  <2>1. files' \subseteq files \cup {f} /\ s' = NoData /\ pc' = "compact"
    BY <1>3 DEF PutAndFlush, WriteFile
  <2>2. Keys(s) # {}
    <3>1. NextSize(k, v) + HeadBytes > MAXSIZE
      BY <1>3 DEF PutAndFlush
    <3> QED
      BY <1>1, <3>1, FlushedHasKeys
  <2>3. TablesFit'
    <3>1. f.data = s /\ TablesFit /\ Bytes(s) + HeadBytes <= MAXSIZE
      BY DEF SizesOK
    <3> HIDE DEF f
    <3> QED
      BY <2>1, <2>2, <3>1, TablesFitWrite
  <2> QED
    BY <2>1, <2>3, NothingFits DEF SizesOK
<1> QED
  BY <1>2, <1>3 DEF Store

LEMMA SizesMerge ==
    ASSUME Typed, SizesOK, PendingOK',
           CompactNothing \/ CompactStart \/ WriteOutput \/ DeleteInput \/ CompactEnd
    PROVE  SizesOK'
<1>1. CASE CompactNothing \/ CompactEnd
  <2>1. UNCHANGED <<s, pending, files>> /\ pc' # "write"
    BY <1>1 DEF CompactNothing, CompactEnd, store, disk
  <2> QED
    BY <2>1, TablesFitFewer DEF SizesOK
<1>2. CASE CompactStart
  <2>1. UNCHANGED <<s, pending, files>> /\ (pc' = "write" => job'.rest # NoData)
    BY <1>2 DEF CompactStart
  <2> QED
    BY <2>1, TablesFitFewer DEF SizesOK
<1>3. CASE WriteOutput
  <2> DEFINE d    == Only(job.rest, Fitting(job.rest))
             f    == [level |-> job.level + 1, time |-> TIME, data |-> d]
             rest == Only(job.rest, Keys(job.rest) \ Fitting(job.rest))
  <2>1. /\ files' = WriteFile(f)
        /\ pc' = IF rest = NoData THEN "delete" ELSE "write"
        /\ job' = [job EXCEPT !.rest = rest]
        /\ pc = "write" /\ UNCHANGED <<s, pending>>
    BY <1>3 DEF WriteOutput
  <2>2. job.rest \in Data /\ job.rest # NoData
    BY <2>1 DEF Typed, TypeOK, SizesOK
  <2>3. Keys(d) # {} /\ Bytes(d) + HeadBytes <= MAXSIZE
    BY <2>2, FittingFits
  <2>4. job'.rest = rest
    BY <2>1 DEF Typed, TypeOK
  <2>5. TablesFit'
    <3>1. files' \subseteq files \cup {f} /\ f.data = d
      BY <2>1 DEF WriteFile
    <3> HIDE DEF d, f
    <3> QED
      BY <2>3, <3>1, TablesFitWrite DEF SizesOK
  <2> HIDE DEF d, f, rest
  <2> QED
    BY <2>1, <2>4, <2>5 DEF SizesOK
<1>4. CASE DeleteInput
  <2>1. files' \subseteq files /\ UNCHANGED <<s, pc, pending>> /\ pc = "delete"
    BY <1>4 DEF DeleteInput, delsstable
  <2> QED
    BY <2>1, TablesFitFewer DEF SizesOK
<1> QED
  BY <1>1, <1>2, <1>3, <1>4

LEMMA SizesFinish ==
    ASSUME Typed, SizesOK, PendingOK', FinishPut \/ FinishClose
    PROVE  SizesOK'
<1>1. CASE FinishPut
  <2> DEFINE k == pending[1].key
             v == pending[1].val
             R == [key : Key, val : Value \cup {DEL}]
  <2>1. pending \in Seq(R) /\ pending # <<>> /\ s = NoData
    BY <1>1 DEF FinishPut, Typed, TypeOK, SizesOK
  <2>2. pending[1] \in R
    <3> HIDE DEF R
    <3> QED
      BY <2>1
  <2>3. k \in Key /\ v \in Value \cup {DEL}
    BY <2>2
  <2>4. /\ s' = [s EXCEPT ![k] = NewEntry(v)] /\ pending' = <<>> /\ pc' = "idle"
        /\ UNCHANGED files
    BY <1>1 DEF FinishPut, Insert, disk
  <2> HIDE DEF k, v
  <2>5. s \in Data /\ clock \in Nat /\ s[k] = NoEntry
    BY <2>1, <2>3 DEF Typed, TypeOK, NoData
  <2>6. s' \in Data
    BY <2>3, <2>4, <2>5 DEF Data, Entry, NewEntry
  <2>7. Bytes(s') <= NextSize(k, v) /\ Bytes(s') \in Nat
    BY <2>3, <2>4, <2>5, <2>6, NextSizeBounds, BytesType
  <2>8. NextSize(k, v) = 0 + IndexBytes + ValLen[v]
    BY <2>1, <2>5, BytesOfNothing, LengthsAssumption DEF NextSize, NoEntry
  <2>9. Bytes(s') + HeadBytes <= MAXSIZE
    BY <2>3, <2>7, <2>8, OneEntryFits, SizesAssumption
  <2> QED
    BY <2>4, <2>9, TablesFitFewer DEF SizesOK
<1>2. CASE FinishClose
  <2>1. s' = NoData /\ pc' = "down" /\ UNCHANGED files
    BY <1>2 DEF FinishClose, Forget, disk
  <2> QED
    BY <2>1, NothingFits, TablesFitFewer DEF SizesOK
<1> QED
  BY <1>1, <1>2

LEMMA SizesOther ==
    ASSUME Typed, SizesOK, PendingOK',
           \/ Reset \/ ResetFile \/ ResetDir \/ ResetDone
           \/ CloseEmpty \/ Close \/ Crash \/ OpenStart \/ OpenLevel \/ OpenDone
    PROVE  SizesOK'
<1>1. CASE Close
  <2> DEFINE f == [level |-> 0, time |-> TIME + 1, data |-> s]
  <2>1. files' \subseteq files \cup {f} /\ UNCHANGED <<s, pending>> /\ pc' = "compact" /\ s # NoData
    BY <1>1 DEF Close, WriteFile
  <2>2. Keys(s) # {}
    <3>1. s \in Data /\ s # NoData
      BY <2>1 DEF Typed, TypeOK
    <3> QED
      BY <3>1, HasKeys
  <2>3. TablesFit'
    <3>1. f.data = s /\ TablesFit /\ Bytes(s) + HeadBytes <= MAXSIZE
      BY DEF SizesOK
    <3> HIDE DEF f
    <3> QED
      BY <2>1, <2>2, <3>1, TablesFitWrite
  <2> QED
    BY <2>1, <2>3 DEF SizesOK
<1>2. CASE Reset \/ CloseEmpty \/ Crash
  <2>1. s' = NoData /\ pc' # "write" /\ UNCHANGED files
    BY <1>2 DEF Reset, CloseEmpty, Crash, Forget, disk
  <2> QED
    BY <2>1, NothingFits, TablesFitFewer DEF SizesOK
<1>3. CASE ResetFile \/ ResetDir \/ ResetDone \/ OpenStart \/ OpenLevel \/ OpenDone
  <2>1. UNCHANGED <<s, pending>> /\ pc' # "write" /\ files' \subseteq files
    BY <1>3 DEF ResetFile, ResetDir, ResetDone, OpenStart, OpenLevel, OpenDone, store, disk
  <2> QED
    BY <2>1, TablesFitFewer DEF SizesOK
<1> QED
  BY <1>1, <1>2, <1>3

LEMMA SizesNext ==
    ASSUME Typed, SizesOK, [Next]_vars
    PROVE  SizesOK'
<1> USE PendingNext
<1>0. PendingOK'
  BY DEF SizesOK
<1>1. CASE Continue
  BY <1>0, <1>1, SizesMerge, SizesFinish, SizesOther DEF Continue
<1>2. CASE Call
  <2>1. ASSUME NEW k \in Key, Del(k) PROVE SizesOK'
    BY <1>0, <2>1, SizesStore DEF Del
  <2>2. ASSUME NEW k \in Key, NEW v \in Value, Put(k, v) PROVE SizesOK'
    BY <1>0, <2>2, SizesStore DEF Put
  <2> QED
    BY <1>0, <1>2, <2>1, <2>2, SizesOther DEF Call
<1>3. CASE OpenStart \/ Crash
  BY <1>0, <1>3, SizesOther
<1>4. CASE UNCHANGED vars
  <2>1. UNCHANGED <<s, pending, pc, job, files>>
    BY <1>4 DEF vars, store, disk
  <2> QED
    BY <1>0, <2>1, TablesFitFewer DEF SizesOK
<1> QED
  BY <1>1, <1>2, <1>3, <1>4 DEF Next

(* No table, flushed or merged, is larger than the buffer that loadFile    *)
(* reads it into, and none is empty (kvstore.cc:131-148, sstable.cpp:131,  *)
(* 45).                                                                    *)
THEOREM TablesAlwaysFit == Spec => []TablesFit
<1>1. Init => Typed /\ SizesOK
  <2>1. Init => SizesOK
    BY NothingFits DEF Init, SizesOK, PendingOK, TablesFit
  <2> QED
    BY <2>1, TypedInit
<1>2. Typed /\ SizesOK /\ [Next]_vars => (Typed /\ SizesOK)'
  BY TypedNext, SizesNext
<1>3. SizesOK => TablesFit
  BY DEF SizesOK
<1> QED
  BY <1>1, <1>2, <1>3, PTL DEF Spec
=============================================================================
