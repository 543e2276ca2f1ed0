-------------------------- MODULE LsmTreeOrderProofs -------------------------
(***************************************************************************)
(* The order in which LsmTree keeps the versions of a key: ranges that do  *)
(* not meet, newer versions in shallower levels, no markers at the bottom, *)
(* for every set of keys, every size, threshold and number of writes.      *)
(***************************************************************************)
EXTENDS LsmTreeProofs

(* Of finitely many files, or heads, one has the largest time.             *)
LEMMA NewestExists ==
    ASSUME NEW H, IsFiniteSet(H), H # {}, \A f \in H : f.time \in Nat
    PROVE  \E f \in H : \A g \in H : g.time <= f.time
<1> DEFINE S == {f.time : f \in H}
<1>1. IsFiniteSet(S)
  <2> DEFINE times == [f \in H |-> f.time]
  <2>1. times \in Surjection(H, S)
    BY DEF Surjection
  <2> QED
    BY <2>1, FS_Surjection
<1>2. S \in SUBSET Nat /\ S # {}
  OBVIOUS
<1>3. PICK m \in S : \A n \in S : n <= m
  BY <1>1, <1>2, LargestExists
<1> QED
  BY <1>3

---------------------------------------------------------------------------
(* Ranges of keys.                                                         *)

Below(K, L) == \A a \in K, c \in L : a < c

(* The ranges of K and L do not meet.                                      *)
Apart(K, L) == Below(K, L) \/ Below(L, K)

(* That is what Overlaps and InRange compare, by the ends of the ranges.   *)
LEMMA ApartRanges ==
    ASSUME NEW K \in SUBSET Key, NEW L \in SUBSET Key
    PROVE  Apart(K, L) <=> ~\E a, b \in K : \E c, d \in L : a <= d /\ c <= b
<1>1. \A x \in Key : x \in Nat
  BY KeysAssumption
<1>2. ASSUME Apart(K, L), NEW a \in K, NEW b \in K, NEW c \in L, NEW d \in L,
             a <= d, c <= b
      PROVE  FALSE
  <2>1. a \in Nat /\ b \in Nat /\ c \in Nat /\ d \in Nat
    BY <1>1
  <2>2. b < c \/ d < a
    BY <1>2 DEF Apart, Below
  <2> QED
    BY <1>2, <2>1, <2>2
<1>3. ASSUME ~Apart(K, L)
      PROVE  \E a, b \in K : \E c, d \in L : a <= d /\ c <= b
  <2>1. PICK b \in K, c \in L : ~(b < c)
    BY <1>3 DEF Apart, Below
  <2>2. PICK d \in L, a \in K : ~(d < a)
    BY <1>3 DEF Apart, Below
  <2>3. a <= d /\ c <= b
    BY <1>1, <2>1, <2>2
  <2> QED
    BY <2>3
<1> QED
  BY <1>2, <1>3

(* No key lies in two ranges that are apart.                               *)
LEMMA ApartNoKey ==
    ASSUME NEW K \in SUBSET Key, NEW L \in SUBSET Key, Apart(K, L)
    PROVE  K \cap L = {}
<1>1. \A x \in Key : x \in Nat /\ ~(x < x)
  BY KeysAssumption
<1> QED
  BY <1>1 DEF Apart, Below

(* A range that is apart from S and from every range that meets S is apart *)
(* from all of them together: they lie on one side of it.                  *)
LEMMA ApartUnion ==
    ASSUME NEW K \in SUBSET Key, NEW S \in SUBSET Key, NEW M \in SUBSET SUBSET Key,
           Apart(K, S), \A L \in M : Apart(K, L) /\ ~Apart(L, S)
    PROVE  Apart(K, S \cup UNION M)
<1>0. \A x \in Key : x \in Nat
  BY KeysAssumption
<1>1. ASSUME Below(K, S), NEW L \in M, NEW x \in K, NEW c \in L PROVE x < c
  <2>1. CASE Below(L, K)
    <3>1. PICK y \in S, z \in L : ~(z < y)
      BY <1>1 DEF Apart, Below
    <3>2. z \in Nat /\ y \in Nat /\ x \in Nat /\ z < x /\ x < y
      BY <1>0, <1>1, <2>1, <3>1 DEF Below
    <3> QED
      BY <3>1, <3>2
  <2>2. CASE Below(K, L)
    BY <1>1, <2>2 DEF Below
  <2> QED
    BY <1>1, <2>1, <2>2 DEF Apart
<1>2. ASSUME Below(S, K), NEW L \in M, NEW x \in K, NEW c \in L PROVE c < x
  <2>1. CASE Below(K, L)
    <3>1. PICK y \in S, z \in L : ~(y < z)
      BY <1>2 DEF Apart, Below
    <3>2. z \in Nat /\ y \in Nat /\ x \in Nat /\ y < x /\ x < z
      BY <1>0, <1>2, <2>1, <3>1 DEF Below
    <3> QED
      BY <3>1, <3>2
  <2>2. CASE Below(L, K)
    BY <1>2, <2>2 DEF Below
  <2> QED
    BY <1>2, <2>1, <2>2 DEF Apart
<1>3. CASE Below(K, S)
  BY <1>1, <1>3 DEF Apart, Below
<1>4. CASE Below(S, K)
  BY <1>2, <1>4 DEF Apart, Below
<1> QED
  BY <1>3, <1>4 DEF Apart

---------------------------------------------------------------------------
(* What a merge takes from its inputs.                                     *)

(* A file is found by its name.                                            *)
LEMMA ContentOf ==
    ASSUME TimesDiffer, NEW f \in files
    PROVE  Content(NameOf(f)) = f.data
<1>1. \A g \in files : NameOf(g) = NameOf(f) => g = f
  BY DEF TimesDiffer, NameOf
<1>2. (CHOOSE g \in files : NameOf(g) = NameOf(f)) = f
  BY <1>1
<1> QED
  BY <1>2 DEF Content

Holders(H, k) == {f \in H : f.data[k] # NoEntry}

(* Of each key a merge takes the entry of the newest input that has one,   *)
(* and drops it if it is a marker that has nothing left to hide.           *)
LEMMA MergedNewest ==
    ASSUME Cached, NEW H \in SUBSET files, NEW deepest \in BOOLEAN, NEW k \in Key,
           Holders(H, k) # {}
    PROVE  \E F \in Holders(H, k) :
              /\ \A g \in Holders(H, k) : g.time <= F.time
              /\ Merged({NameOf(f) : f \in H}, deepest)[k] =
                    IF deepest /\ F.data[k].val = DEL THEN NoEntry ELSE F.data[k]
<1> DEFINE inputs  == {NameOf(f) : f \in H}
           holders == {n \in inputs : Content(n)[k] # NoEntry}
           newest  == CHOOSE n \in holders : \A m \in holders : m.time <= n.time
<1>1. \A f \in files : Content(NameOf(f)) = f.data
  BY ContentOf DEF Cached
<1>2. holders = {NameOf(f) : f \in Holders(H, k)}
  BY <1>1 DEF Holders
<1>3. PICK F \in Holders(H, k) : \A g \in Holders(H, k) : g.time <= F.time
  <2>1. IsFiniteSet(Holders(H, k))
    BY FS_Subset DEF Holders, Cached, Fresh, Typed
  <2>2. \A f \in Holders(H, k) : f.time \in Nat
    BY DEF Holders, Cached, Fresh, Typed, TypeOK, File
  <2> QED
    BY <2>1, <2>2, NewestExists
<1>4. \A f : NameOf(f).time = f.time
  BY DEF NameOf
<1>5. /\ NameOf(F) \in holders
      /\ \A m \in holders : m.time <= NameOf(F).time
  BY <1>2, <1>3, <1>4
<1> HIDE DEF holders
<1>6. newest \in holders /\ \A m \in holders : m.time <= newest.time
  BY <1>5
<1>7. PICK G \in Holders(H, k) : newest = NameOf(G)
  BY <1>2, <1>6
<1>8. \A g \in Holders(H, k) : g.time <= G.time
  <2>1. \A g \in Holders(H, k) : NameOf(g) \in holders
    BY <1>2
  <2> HIDE DEF newest
  <2> QED
    BY <1>4, <1>6, <1>7, <2>1
<1>9. Content(newest) = G.data
  BY <1>1, <1>7 DEF Holders
<1>10. Merged(inputs, deepest)[k] =
          IF deepest /\ Content(newest)[k].val = DEL THEN NoEntry ELSE Content(newest)[k]
  BY <1>6 DEF Merged, holders
<1> QED
  BY <1>8, <1>9, <1>10

(* A key that no input has is not in the merge.                            *)
LEMMA MergedNothing ==
    ASSUME Cached, NEW H \in SUBSET files, NEW deepest, NEW k \in Key,
           Holders(H, k) = {}
    PROVE  Merged({NameOf(f) : f \in H}, deepest)[k] = NoEntry
<1>1. \A f \in files : Content(NameOf(f)) = f.data
  BY ContentOf DEF Cached
<1>2. {n \in {NameOf(f) : f \in H} : Content(n)[k] # NoEntry} = {}
  BY <1>1 DEF Holders
<1> QED
  BY <1>2 DEF Merged

(* A compaction starts: in terms of files instead of cached heads, `sel`   *)
(* are its tables and `met` those of the next level that it meets.         *)
KeysOf(F) == UNION {Keys(f.data) : f \in F}

Starts(sel, met) ==
    /\ sel \subseteq {f \in files : f.level = job.level}
    /\ job.level = 0 => \A f \in files \ sel : f.level = 0 => HeadOf(f) \notin ToSet(sstableIndex[0])
    /\ met = {f \in files : f.level = job.level + 1 /\ ~Apart(Keys(f.data), KeysOf(sel))}
    /\ job'.level = job.level
    /\ job'.rest = Merged({NameOf(f) : f \in sel \cup met}, job.level + 1 = totalLevel')
    /\ job'.doomed = {NameOf(f) : f \in sel \cup met}

(* The tables a level gives up are some of its tables, all of level 0.     *)
LEMMA SelectedPart ==
    ASSUME Cached, NEW l \in Level
    PROVE  /\ ToSet(Selected(l)) \subseteq ToSet(sstableIndex[l])
           /\ l = 0 => ToSet(Selected(l)) = ToSet(sstableIndex[l])
<1>1. sstableIndex[l] \in Seq(Table) /\ MergeWidth \in Nat
  BY LevelsAssumption DEF Cached, Fresh, Typed, TypeOK
<1>2. ASSUME ~(Len(sstableIndex[l]) <= MergeWidth)
      PROVE  ToSet(SubSeq(sstableIndex[l], 1, MergeWidth)) \subseteq ToSet(sstableIndex[l])
  <2> DEFINE idx == sstableIndex[l]
             q   == SubSeq(idx, 1, MergeWidth)
  <2>1. DOMAIN q = 1..MergeWidth /\ \A i \in 1..MergeWidth : q[i] = idx[i] /\ i \in DOMAIN idx
    BY <1>1, <1>2
  <2> HIDE DEF q
  <2>2. ToSet(q) \subseteq ToSet(idx)
    BY <2>1 DEF ToSet
  <2> QED
    BY <2>2 DEF q
<1> QED
  BY <1>2 DEF Selected

LEMMA StartFiles ==
    ASSUME Cached, CompactStart
    PROVE  \E sel, met : Starts(sel, met)
<1> DEFINE l      == job.level
           heads  == ToSet(Selected(l))
           deeper == IF l + 1 \notin dirs /\ totalLevel < l + 1 THEN l + 1 ELSE totalLevel
           hmet   == {h \in ToSet(sstableIndex[l + 1]) : l + 1 <= deeper /\ Overlaps(h, heads)}
           inputs == {NameOf(h) : h \in heads \cup hmet}
           sel    == {f \in files : HeadOf(f) \in heads}
           met    == {f \in files : f.level = l + 1 /\ ~Apart(Keys(f.data), KeysOf(sel))}
<1>1. /\ pc = "compact" /\ totalLevel' = deeper /\ Up
      /\ job' = [level |-> l, rest |-> Merged(inputs, l + 1 = deeper), doomed |-> inputs]
  BY DEF CompactStart, Up
<1>2. l \in Level /\ l + 1 \in Level /\ l + 1 # 0 /\ l \in Nat
  BY LevelsAssumption DEF CompactStart, Cached, Fresh, Typed, JobOK, Level
<1>3. /\ heads \subseteq HeadsIn(files, l)
      /\ l = 0 => heads = ToSet(sstableIndex[0])
      /\ ToSet(sstableIndex[l + 1]) = HeadsIn(files, l + 1)
  <2>1. /\ ToSet(sstableIndex[l]) \subseteq HeadsIn(files, l)
        /\ ToSet(sstableIndex[l + 1]) = HeadsIn(files, l + 1)
    BY <1>1, <1>2, CachedUp
  <2> QED
    BY <1>2, <2>1, SelectedPart
<1>4. heads = {HeadOf(f) : f \in sel} /\ sel \subseteq {f \in files : f.level = l}
  <2> HIDE DEF heads
  <2>1. ASSUME NEW h \in heads PROVE \E f \in sel : h = HeadOf(f)
    BY <1>3 DEF HeadsIn
  <2>2. ASSUME NEW f \in sel PROVE f.level = l
    <3>1. HeadOf(f) \in HeadsIn(files, l)
      BY <1>3
    <3>2. HeadOf(f).level = l
      BY <3>1, HeadOfLevel
    <3> QED
      BY <3>2 DEF HeadOf
  <2> QED
    BY <2>1, <2>2
<1>5. UNION {h.keys : h \in heads} = KeysOf(sel)
  <2>1. \A f \in sel : HeadOf(f).keys = Keys(f.data)
    BY DEF HeadOf
  <2>2. {h.keys : h \in heads} = {Keys(f.data) : f \in sel}
    <3> HIDE DEF sel, heads
    <3> QED
      BY <1>4, <2>1
  <2> QED
    BY <2>2 DEF KeysOf
<1>6. ASSUME NEW f \in files, f.level = l + 1
      PROVE  /\ HeadOf(f) \in ToSet(sstableIndex[l + 1])
             /\ l + 1 <= deeper
             /\ Overlaps(HeadOf(f), heads) <=> ~Apart(Keys(f.data), KeysOf(sel))
  <2>1. HeadOf(f) \in HeadsIn(files, l + 1)
    BY <1>6 DEF HeadsIn
  <2>2. l + 1 \in dirs
    BY <1>6 DEF Cached, Fresh, DirsOK
  <2>3. l + 1 <= deeper
    BY <1>1, <2>2 DEF Cached, Fresh, DirsOK
  <2>4. KeysOf(sel) \subseteq Key /\ Keys(f.data) \subseteq Key
    BY DEF KeysOf, Keys
  <2>5. Overlaps(HeadOf(f), heads) <=>
            \E c, d \in Keys(f.data) : \E a, b \in KeysOf(sel) : c <= b /\ a <= d
    <3>1. HeadOf(f).keys = Keys(f.data)
      BY DEF HeadOf
    <3> HIDE DEF heads, sel
    <3> QED
      BY <1>5, <3>1 DEF Overlaps
  <2> HIDE DEF heads, sel
  <2> QED
    BY <1>3, <2>1, <2>3, <2>4, <2>5, ApartRanges
<1>7. hmet = {HeadOf(f) : f \in met}
  <2>1. ASSUME NEW h \in hmet PROVE \E f \in met : h = HeadOf(f)
    <3>1. h \in HeadsIn(files, l + 1)
      BY <1>3
    <3>2. PICK f \in files : f.level = l + 1 /\ h = HeadOf(f)
      BY <3>1 DEF HeadsIn
    <3>3. f \in met
      BY <1>6, <3>2
    <3> QED
      BY <3>2, <3>3
  <2>2. ASSUME NEW f \in met PROVE HeadOf(f) \in hmet
    BY <1>6
  <2> QED
    BY <2>1, <2>2
<1>8. inputs = {NameOf(f) : f \in sel \cup met}
  <2>1. \A f : NameOf(HeadOf(f)) = NameOf(f)
    BY DEF NameOf, HeadOf
  <2>2. heads \cup hmet = {HeadOf(f) : f \in sel \cup met}
    <3> HIDE DEF heads, hmet, sel, met
    <3> QED
      BY <1>4, <1>7
  <2> HIDE DEF heads, hmet, sel, met
  <2> QED
    BY <2>1, <2>2
<1>9. l = 0 => \A f \in files \ sel : f.level = 0 => HeadOf(f) \notin ToSet(sstableIndex[0])
  BY <1>3
<1>10. Starts(sel, met)
  <2>1. /\ job'.level = l
        /\ job'.rest = Merged({NameOf(f) : f \in sel \cup met}, l + 1 = totalLevel')
        /\ job'.doomed = {NameOf(f) : f \in sel \cup met}
    <3> HIDE DEF inputs, deeper, sel, met
    <3> QED
      BY <1>1, <1>8
  <2> HIDE DEF heads, sel, inputs, deeper
  <2> QED
    BY <1>4, <1>9, <2>1 DEF Starts
<1> QED
  BY <1>10

---------------------------------------------------------------------------
(* The arrangement of the files.                                           *)

(* The files that a compaction is not about to delete.                     *)
Live == {f \in files : NameOf(f) \notin job.doomed}

(* What a merge has still to write comes from files that are no deeper,    *)
(* and what it is to delete is there.                                      *)
MergeOK ==
    /\ pc \notin {"write", "delete"} => job.doomed = {}
    /\ job.doomed \subseteq {NameOf(f) : f \in files}
    /\ pc = "write" => \A k \in Keys(job.rest) :
           \E f \in files : f.level <= job.level + 1 /\ f.data[k] = job.rest[k]

(* Below level 0 the ranges of a level do not meet, nor do they meet what  *)
(* is going to be written to it.                                           *)
DisjointOK ==
    /\ \A f, g \in Live : f.level = g.level /\ f.level > 0 /\ f # g =>
           Apart(Keys(f.data), Keys(g.data))
    /\ pc = "write" => \A f \in Live : f.level = job.level + 1 =>
           Apart(Keys(f.data), Keys(job.rest))

(* A shallower level has the newer version of a key; what a merge has to   *)
(* write lies between the levels below the target and those above.         *)
ShallowOK ==
    /\ \A f, g \in Live : f.level < g.level =>
           \A k \in Keys(f.data) \cap Keys(g.data) : g.data[k].ver <= f.data[k].ver
    /\ pc = "write" => \A f \in Live : \A k \in Keys(f.data) \cap Keys(job.rest) :
           /\ f.level <= job.level => job.rest[k].ver <= f.data[k].ver
           /\ f.level > job.level + 1 => f.data[k].ver <= job.rest[k].ver

Arranged == MergeOK /\ DisjointOK /\ ShallowOK

(* The version d is not newer than e.                                      *)
NotNewer(d, e) == d.ver <= e.ver /\ (d.ver = e.ver => d = e)

(* The memtable holds the last writes of the keys it has, the files hold   *)
(* those of the others; versions are numbered as they are written.         *)
MemOK ==
    /\ \A k \in Key : latest[k] # NoEntry => latest[k].ver \in 1..clock
    /\ \A k \in Key : flushed[k] # NoEntry => flushed[k].ver \in 1..clock
    /\ \A k \in Key : NotNewer(flushed[k], latest[k])
    /\ \A k \in Key : s[k] \in {NoEntry, latest[k]}
    /\ \A k \in Key : s[k] = NoEntry => latest[k] = flushed[k]
    /\ Closing => flushed = latest

FilesOld ==
    pc # "reset" => \A f \in files : \A k \in Keys(f.data) : NotNewer(f.data[k], flushed[k])

(* The table of level 0 that the destructor does not cache is the memtable.*)
UncachedOK ==
    Closing => \A f \in files :
        f.level = 0 /\ HeadOf(f) \notin ToSet(sstableIndex[0]) => f.data = s

Versions == MemOK /\ FilesOld /\ UncachedOK

Ordered == Cached /\ Arranged /\ Versions

(* The files and their entries have their types.                           *)
LEMMA FileTypes ==
    ASSUME Cached
    PROVE  /\ \A f \in files : f.level \in Nat /\ f.time \in Nat /\ f.data \in Data
           /\ \A d \in Data : \A k \in Key : d[k] \in Entry /\ d[k].ver \in Nat
           /\ job.level \in Nat /\ job.rest \in Data
  BY LevelsAssumption DEF Cached, Fresh, Typed, TypeOK, File, Level, Data, Entry

(* No merge is under way before or after the step, and no file is new.     *)
LEMMA ArrangedStill ==
    ASSUME Cached, Arranged, files' \subseteq files,
           job.doomed = {}, job'.doomed = {}, pc' # "write"
    PROVE  Arranged'
<1>1. Live' \subseteq Live
  BY DEF Live
<1>2. MergeOK'
  BY DEF MergeOK
<1>3. DisjointOK'
  BY <1>1 DEF Arranged, DisjointOK
<1>4. ShallowOK'
  BY <1>1 DEF Arranged, ShallowOK
<1> QED
  BY <1>2, <1>3, <1>4 DEF Arranged

(* The memtable becomes a file of level 0, whose versions are the newest.  *)
LEMMA ArrangedFlush ==
    ASSUME Cached, Arranged, Versions, pc = "idle", NEW f \in File,
           f.level = 0, f.data = s, files' = WriteFile(f),
           job'.doomed = {}, pc' = "compact"
    PROVE  Arranged'
<1>1. job.doomed = {}
  BY DEF Arranged, MergeOK
<1>2. Live = files /\ Live' = files' /\ \A g \in files' : g \in files \/ g = f
  BY <1>1 DEF Live, WriteFile
<1>3. MergeOK'
  BY DEF MergeOK
<1>4. DisjointOK'
  <2>1. \A g \in files' : g.level > 0 => g \in files
    BY <1>2
  <2> QED
    BY <1>2, <2>1 DEF Arranged, DisjointOK
<1>5. ShallowOK'
  <2>1. ASSUME NEW g \in files, NEW k \in Keys(f.data) \cap Keys(g.data)
        PROVE  g.data[k].ver <= f.data[k].ver
    <3>1. k \in Key /\ s[k] # NoEntry
      BY DEF Keys
    <3>2. s[k] = latest[k]
      BY <3>1 DEF Versions, MemOK
    <3>3. g.data[k].ver <= flushed[k].ver /\ flushed[k].ver <= latest[k].ver
      BY <3>1 DEF Versions, MemOK, FilesOld, NotNewer
    <3>4. g.data[k].ver \in Nat /\ flushed[k].ver \in Nat /\ latest[k].ver \in Nat
      BY <3>1, FileTypes DEF Cached, Fresh, Typed, TypeOK
    <3> QED
      BY <3>2, <3>3, <3>4
  <2>2. \A g \in files' : ~(g.level < 0)
    BY <1>2, FileTypes
  <2> QED
    BY <1>2, <2>1, <2>2 DEF Arranged, ShallowOK
<1> QED
  BY <1>3, <1>4, <1>5 DEF Arranged

(* A compaction starts, in terms of the files `H` that it takes.           *)
LEMMA StartFacts ==
    ASSUME Cached, MergeOK, CompactStart, NEW sel, NEW met, Starts(sel, met)
    PROVE  /\ pc = "compact" /\ pc' \in {"write", "delete"} /\ job.doomed = {}
           /\ job.level \in Nat /\ job'.level = job.level
           /\ dirs' = dirs \cup {job.level + 1} /\ dirs' = 0..totalLevel'
           /\ totalLevel' \in Nat /\ files' = files
           /\ job'.rest = NoData => pc' = "delete"
           /\ job'.rest # NoData => pc' = "write"
           /\ Live = files /\ Live' = files \ (sel \cup met)
           /\ sel \cup met \subseteq files
           /\ \A f \in sel : f.level = job.level
           /\ \A f \in met : f.level = job.level + 1
           /\ job'.doomed = {NameOf(f) : f \in sel \cup met}
<1>1. /\ pc = "compact" /\ pc' \in {"write", "delete"} /\ job'.level = job.level
      /\ job'.rest = NoData => pc' = "delete"
      /\ job'.rest # NoData => pc' = "write"
      /\ dirs' = dirs \cup {job.level + 1} /\ files' = files
  BY DEF CompactStart
<1>2. job.doomed = {} /\ Live = files
  BY <1>1 DEF MergeOK, Live
<1>3. /\ sel \cup met \subseteq files
      /\ \A f \in sel : f.level = job.level
      /\ \A f \in met : f.level = job.level + 1
      /\ job'.doomed = {NameOf(f) : f \in sel \cup met}
  BY DEF Starts
<1>4. Live' = files \ (sel \cup met)
  <2>1. \A f, g \in files : NameOf(f) = NameOf(g) => f = g
    BY DEF Cached, TimesDiffer, NameOf
  <2>2. \A f : NameOf(f)' = NameOf(f)
    BY DEF NameOf
  <2>3. \A f \in files : f \in sel \cup met <=> NameOf(f) \in job'.doomed
    BY <1>3, <2>1
  <2> QED
    BY <1>1, <2>2, <2>3 DEF Live
<1>5. job.level \in Nat
  BY FileTypes
<1>6. dirs' = 0..totalLevel' /\ totalLevel' \in Nat
  <2> DEFINE j == job.level
  <2>1. /\ totalLevel' = IF j + 1 \notin dirs /\ totalLevel < j + 1 THEN j + 1 ELSE totalLevel
        /\ totalLevel \in -1..MaxLevel /\ MaxLevel \in Nat /\ j \in Nat
        /\ dirs' = dirs \cup {j + 1}
    BY <1>1, <1>5, LevelsAssumption DEF CompactStart, Cached, Fresh, Typed, TypeOK
  <2>2. dirs = 0..totalLevel /\ j \in dirs
    BY <1>1 DEF Cached, Fresh, DirsOK, DirsExact, Up
  <2> HIDE DEF j
  <2>3. 0 <= totalLevel
    BY <2>1, <2>2
  <2> QED
    BY <2>1, <2>2, <2>3
<1> QED
  BY <1>1, <1>2, <1>3, <1>4, <1>5, <1>6

(* What a merge has to write comes from its inputs, newest first.          *)
LEMMA StartRest ==
    ASSUME Cached, NEW sel, NEW met, Starts(sel, met), NEW k \in Key
    PROVE  /\ Holders(sel \cup met, k) = {} => job'.rest[k] = NoEntry
           /\ Holders(sel \cup met, k) # {} =>
                 \E F \in Holders(sel \cup met, k) :
                    /\ \A g \in Holders(sel \cup met, k) : g.time <= F.time
                    /\ job'.rest[k] = IF job.level + 1 = totalLevel' /\ F.data[k].val = DEL
                                      THEN NoEntry ELSE F.data[k]
<1> DEFINE H == sel \cup met
<1>1. H \in SUBSET files
  BY DEF Starts
<1>2. job'.rest = Merged({NameOf(f) : f \in H}, job.level + 1 = totalLevel')
  BY DEF Starts
<1> HIDE DEF H
<1>3. /\ Holders(H, k) = {} => job'.rest[k] = NoEntry
      /\ Holders(H, k) # {} =>
            \E F \in Holders(H, k) :
               /\ \A g \in Holders(H, k) : g.time <= F.time
               /\ job'.rest[k] = IF job.level + 1 = totalLevel' /\ F.data[k].val = DEL
                                 THEN NoEntry ELSE F.data[k]
  <2>1. ASSUME NEW deepest, Holders(H, k) = {}
        PROVE  Merged({NameOf(f) : f \in H}, deepest)[k] = NoEntry
    BY <1>1, <2>1, MergedNothing
  <2>2. ASSUME NEW deepest \in BOOLEAN, Holders(H, k) # {}
        PROVE  \E F \in Holders(H, k) :
                 /\ \A g \in Holders(H, k) : g.time <= F.time
                 /\ Merged({NameOf(f) : f \in H}, deepest)[k] =
                       IF deepest /\ F.data[k].val = DEL THEN NoEntry ELSE F.data[k]
    BY <1>1, <2>2, MergedNewest
  <2> QED
    BY <1>2, <2>1, <2>2
<1> QED
  BY <1>3 DEF H

(* A table of the next level that a merge does not take lies apart from    *)
(* all that the merge takes.                                               *)
LEMMA StartApart ==
    ASSUME Cached, Arranged, CompactStart, NEW sel, NEW met, Starts(sel, met),
           NEW f \in files, f.level = job.level + 1, f \notin met
    PROVE  Apart(Keys(f.data), KeysOf(sel \cup met))
<1> DEFINE K == Keys(f.data)
           S == KeysOf(sel)
           M == {Keys(g.data) : g \in met}
<1>1. K \in SUBSET Key /\ S \in SUBSET Key /\ M \in SUBSET SUBSET Key
  BY DEF Keys, KeysOf
<1>2. Apart(K, S)
  BY DEF Starts
<1>3. ASSUME NEW g \in met PROVE Apart(K, Keys(g.data)) /\ ~Apart(Keys(g.data), S)
  <2>1. g \in files /\ g.level = job.level + 1 /\ ~Apart(Keys(g.data), S)
    BY DEF Starts
  <2>2. f \in Live /\ g \in Live /\ f.level > 0
    BY <2>1, StartFacts DEF Arranged
  <2> QED
    BY <2>1, <2>2 DEF Arranged, DisjointOK
<1>4. S \cup UNION M = KeysOf(sel \cup met)
  <2>1. ASSUME NEW x \in KeysOf(sel \cup met) PROVE x \in S \cup UNION M
    BY <2>1 DEF KeysOf
  <2>2. ASSUME NEW x \in S \cup UNION M PROVE x \in KeysOf(sel \cup met)
    BY <2>2 DEF KeysOf
  <2> QED
    BY <2>1, <2>2
<1>5. Apart(K, S \cup UNION M)
  <2>1. \A L \in M : Apart(K, L) /\ ~Apart(L, S)
    BY <1>3
  <2> HIDE DEF K, S, M
  <2> QED
    BY <1>1, <1>2, <2>1, ApartUnion
<1> QED
  <2> HIDE DEF S, M
  <2> QED
    BY <1>4, <1>5

(* An entry that a merge has to write is that of its newest input.         *)
LEMMA RestFrom ==
    ASSUME Cached, NEW sel, NEW met, Starts(sel, met), NEW k \in Keys(job'.rest)
    PROVE  \E F \in Holders(sel \cup met, k) :
              /\ \A g \in Holders(sel \cup met, k) : g.time <= F.time
              /\ job'.rest[k] = F.data[k]
<1>1. k \in Key /\ job'.rest[k] # NoEntry
  BY DEF Keys
<1> QED
  BY <1>1, StartRest

(* A merge starts with entries of its inputs.                              *)
LEMMA MergeStart ==
    ASSUME Cached, MergeOK, CompactStart
    PROVE  MergeOK'
<1>1. PICK sel, met : Starts(sel, met)
  BY StartFiles
<1> DEFINE H == sel \cup met
           j == job.level
<1>2. /\ pc' \in {"write", "delete"} /\ j \in Nat /\ job'.level = j
      /\ files' = files /\ H \subseteq files
      /\ \A f \in sel : f.level = j
      /\ \A f \in met : f.level = j + 1
      /\ job'.doomed = {NameOf(f) : f \in H}
  BY <1>1, StartFacts
<1>3. ASSUME NEW k \in Keys(job'.rest)
      PROVE  \E f \in files : f.level <= j + 1 /\ f.data[k] = job'.rest[k]
  <2>1. PICK F \in Holders(H, k) : job'.rest[k] = F.data[k]
    BY <1>1, RestFrom
  <2>2. F \in files /\ F.level \in {j, j + 1}
    BY <1>2 DEF Holders
  <2> HIDE DEF j
  <2>3. F.level <= j + 1
    BY <1>2, <2>2
  <2> QED
    BY <2>1, <2>2, <2>3
<1>4. job'.doomed \subseteq {NameOf(f) : f \in files}
  BY <1>2
<1> HIDE DEF H, j
<1> QED
  BY <1>2, <1>3, <1>4 DEF MergeOK, NameOf, Keys, j

LEMMA ArrangedStart ==
    ASSUME Cached, Arranged, Versions, CompactStart
    PROVE  Arranged'
<1>1. PICK sel, met : Starts(sel, met)
  BY StartFiles
<1> DEFINE H == sel \cup met
           j == job.level
<1>2. /\ pc = "compact" /\ pc' \in {"write", "delete"} /\ job.doomed = {}
      /\ j \in Nat /\ job'.level = j
      /\ files' = files
      /\ Live = files /\ Live' = files \ H
      /\ H \subseteq files
      /\ \A f \in sel : f.level = j
      /\ \A f \in met : f.level = j + 1
      /\ job'.doomed = {NameOf(f) : f \in H}
  BY <1>1, StartFacts DEF Arranged
<1>3. ASSUME NEW k \in Keys(job'.rest)
      PROVE  \E F \in H : k \in Keys(F.data) /\ job'.rest[k] = F.data[k]
  <2>1. PICK F \in Holders(H, k) : job'.rest[k] = F.data[k]
    BY <1>1, RestFrom
  <2> QED
    BY <2>1 DEF Holders, Keys
<1>4. MergeOK'
  BY MergeStart DEF Arranged
<1>5. DisjointOK'
  <2>1. ASSUME NEW f \in Live', f.level = j + 1
        PROVE  Apart(Keys(f.data), Keys(job'.rest))
    <3>1. f \in files /\ f \notin met
      BY <1>2
    <3>2. Apart(Keys(f.data), KeysOf(H))
      BY <1>1, <2>1, <3>1, StartApart
    <3>3. Keys(job'.rest) \subseteq KeysOf(H)
      BY <1>3 DEF KeysOf
    <3> QED
      BY <3>2, <3>3 DEF Apart, Below
  <2>2. \A f, g \in Live' : f.level = g.level /\ f.level > 0 /\ f # g =>
           Apart(Keys(f.data), Keys(g.data))
    BY <1>2 DEF Arranged, DisjointOK
  <2> HIDE DEF H
  <2> QED
    BY <1>2, <2>1, <2>2 DEF DisjointOK, Apart, Below, Keys
<1>6. ShallowOK'
  <2>1. ASSUME NEW f \in Live', NEW k \in Keys(f.data) \cap Keys(job'.rest), f.level <= j
        PROVE  job'.rest[k].ver <= f.data[k].ver
    <3>1. PICK F \in H : k \in Keys(F.data) /\ job'.rest[k] = F.data[k]
      BY <1>3
    <3>2. f \in files /\ F \in files /\ f \notin H /\ f # F
      BY <1>2
    <3>3. CASE f.level < F.level
      BY <1>2, <3>1, <3>2, <3>3 DEF Arranged, ShallowOK
    <3>4. CASE f.level = F.level /\ f.level > 0
      <4>1. Apart(Keys(f.data), Keys(F.data))
        BY <1>2, <3>2, <3>4 DEF Arranged, DisjointOK
      <4>2. Keys(f.data) \in SUBSET Key /\ Keys(F.data) \in SUBSET Key
        BY DEF Keys
      <4> QED
        BY <3>1, <4>1, <4>2, ApartNoKey
    <3>5. CASE f.level = 0 /\ F.level = 0
      <4>1. j = 0 /\ f \notin sel
        BY <1>2, <3>2, <3>5
      <4>2. HeadOf(f) \notin ToSet(sstableIndex[0])
        BY <1>1, <3>2, <3>5, <4>1 DEF Starts
      <4>3. Closing
        <5>1. HeadOf(f) \in HeadsIn(files, 0)
          BY <3>2, <3>5 DEF HeadsIn
        <5>2. 0 \in Level /\ Up
          BY <1>2, LevelsAssumption DEF Level, Up
        <5> QED
          BY <1>2, <4>2, <5>1, <5>2, CachedUp
      <4>4. f.data = s /\ flushed = latest /\ k \in Key /\ s[k] # NoEntry
        BY <3>2, <3>5, <4>2, <4>3 DEF Versions, UncachedOK, MemOK, Keys
      <4>5. s[k] = flushed[k]
        BY <4>4 DEF Versions, MemOK
      <4>6. F.data[k].ver <= flushed[k].ver
        BY <1>2, <3>1, <3>2 DEF Versions, FilesOld, NotNewer
      <4> QED
        BY <3>1, <4>4, <4>5, <4>6
    <3>6. f.level \in Nat /\ F.level \in Nat /\ F.level \in {j, j + 1}
      BY <1>2, <3>2, FileTypes
    <3> HIDE DEF H, j
    <3>7. f.level < F.level \/ (f.level = F.level /\ f.level > 0) \/ (f.level = 0 /\ F.level = 0)
      BY <1>2, <2>1, <3>6
    <3> QED
      BY <3>3, <3>4, <3>5, <3>7
  <2>2. ASSUME NEW f \in Live', NEW k \in Keys(f.data) \cap Keys(job'.rest), f.level > j + 1
        PROVE  f.data[k].ver <= job'.rest[k].ver
    <3>1. PICK F \in H : k \in Keys(F.data) /\ job'.rest[k] = F.data[k]
      BY <1>3
    <3>2. f \in files /\ F \in files
      BY <1>2
    <3>3. f.level \in Nat /\ F.level \in {j, j + 1}
      BY <1>2, <3>2, FileTypes
    <3>4. F.level < f.level
      <4> HIDE DEF H, j
      <4> QED
        BY <1>2, <2>2, <3>3
    <3> QED
      BY <1>2, <3>1, <3>2, <3>4 DEF Arranged, ShallowOK
  <2>3. \A f, g \in Live' : f.level < g.level =>
           \A k \in Keys(f.data) \cap Keys(g.data) : g.data[k].ver <= f.data[k].ver
    BY <1>2 DEF Arranged, ShallowOK
  <2> HIDE DEF H
  <2> QED
    BY <1>2, <2>1, <2>2, <2>3 DEF ShallowOK, Keys
<1> QED
  BY <1>4, <1>5, <1>6 DEF Arranged

(* What is cut out of a memtable or a merge has the keys it is cut to.     *)
LEMMA OnlyKeys ==
    ASSUME NEW d \in Data, NEW ks
    PROVE  /\ Keys(Only(d, ks)) = Keys(d) \cap ks
           /\ \A k \in Key \cap ks : Only(d, ks)[k] = d[k]
           /\ \A k \in Key \ ks : Only(d, ks)[k] = NoEntry
  BY DEF Only, Keys

(* The keys of the next output table are the first ones of the merge.      *)
LEMMA FittingFirst ==
    ASSUME NEW d \in Data
    PROVE  Fitting(d) \subseteq Keys(d) /\ Below(Fitting(d), Keys(d) \ Fitting(d))
<1> DEFINE fits(k) == Bytes(Only(d, {j \in Key : j <= k})) + HeadBytes <= MAXSIZE
<1>1. Fitting(d) = {k \in Keys(d) : \A j \in Keys(d) : j <= k => fits(j)}
  BY DEF Fitting
<1> HIDE DEF fits
<1>2. \A k \in Keys(d) : k \in Nat
  BY KeysAssumption DEF Keys
<1>3. ASSUME NEW a \in Fitting(d), NEW b \in Keys(d) \ Fitting(d) PROVE a < b
  <2>1. PICK j \in Keys(d) : j <= b /\ ~fits(j)
    BY <1>1
  <2>2. ~(j <= a)
    BY <1>1, <2>1
  <2>3. a \in Nat /\ b \in Nat /\ j \in Nat
    BY <1>1, <1>2, <2>1
  <2> QED
    BY <2>1, <2>2, <2>3
<1> QED
  BY <1>1, <1>3 DEF Below

(* The next output table is a new file, cut out of what was to be written. *)
LEMMA OutputFacts ==
    ASSUME Cached, MergeOK, WriteOutput
    PROVE  \E f \in File :
              /\ pc = "write" /\ job.level + 1 \in Level
              /\ UNCHANGED <<s, dirs, totalLevel, pending, latest, flushed, clock>>
              /\ pc' \in {"write", "delete"} /\ Live' = Live \cup {f}
              /\ f \notin files /\ files' = files \cup {f} /\ \A g \in files : g.time < f.time
              /\ f.level = job.level + 1 /\ f.time = TIME
              /\ job'.level = job.level /\ job'.doomed = job.doomed
              /\ Keys(f.data) = Fitting(job.rest)
              /\ Keys(job'.rest) = Keys(job.rest) \ Fitting(job.rest)
              /\ \A k \in Keys(f.data) : f.data[k] = job.rest[k]
              /\ \A k \in Key \ Keys(f.data) : f.data[k] = NoEntry
              /\ \A k \in Keys(job'.rest) : job'.rest[k] = job.rest[k]
              /\ \A k \in Key \ Keys(job'.rest) : job'.rest[k] = NoEntry
              /\ job'.rest = NoData => pc' = "delete"
<1> DEFINE F == Fitting(job.rest)
           f == [level |-> job.level + 1, time |-> TIME, data |-> Only(job.rest, F)]
           rest == Only(job.rest, Keys(job.rest) \ F)
<1>1. /\ pc = "write" /\ pc' \in {"write", "delete"} /\ files' = WriteFile(f)
      /\ job' = [job EXCEPT !.rest = rest]
      /\ UNCHANGED <<s, dirs, totalLevel, pending, latest, flushed, clock>>
      /\ rest = NoData => pc' = "delete"
  BY DEF WriteOutput, ghost
<1>2. /\ job \in [level : 0..(MaxLevel + 1), rest : Data, doomed : SUBSET Name]
      /\ TIME \in Nat /\ job.level + 1 \in Level /\ job.rest \in Data
  BY <1>1 DEF Cached, Fresh, Typed, TypeOK, JobOK
<1>3. f \in File /\ rest \in Data
  <2> HIDE DEF F
  <2> QED
    BY <1>2, OnlyType DEF File
<1>4. job'.level = job.level /\ job'.doomed = job.doomed /\ job'.rest = rest
  <2> HIDE DEF rest
  <2> QED
    BY <1>1, <1>2
<1>5. /\ Keys(f.data) = F /\ Keys(rest) = Keys(job.rest) \ F
      /\ \A k \in F : f.data[k] = job.rest[k]
      /\ \A k \in Key \ F : f.data[k] = NoEntry
      /\ \A k \in Keys(job.rest) \ F : rest[k] = job.rest[k]
      /\ \A k \in Key \ (Keys(job.rest) \ F) : rest[k] = NoEntry
  <2>1. F \subseteq Keys(job.rest) /\ Keys(job.rest) \subseteq Key
    BY <1>2, FittingFirst DEF Keys
  <2>2. f.data = Only(job.rest, F)
    OBVIOUS
  <2> HIDE DEF F, f
  <2>3. /\ Keys(Only(job.rest, F)) = Keys(job.rest) \cap F
        /\ \A k \in Key \cap F : Only(job.rest, F)[k] = job.rest[k]
        /\ \A k \in Key \ F : Only(job.rest, F)[k] = NoEntry
    BY <1>2, OnlyKeys
  <2>4. Keys(f.data) = F
    BY <2>1, <2>2, <2>3
  <2>5. /\ Keys(rest) = Keys(job.rest) \cap (Keys(job.rest) \ F)
        /\ \A k \in Key \cap (Keys(job.rest) \ F) : rest[k] = job.rest[k]
        /\ \A k \in Key \ (Keys(job.rest) \ F) : rest[k] = NoEntry
    BY <1>2, OnlyKeys
  <2> HIDE DEF rest
  <2>6. Keys(rest) = Keys(job.rest) \ F
    BY <2>5
  <2> QED
    BY <2>1, <2>2, <2>3, <2>4, <2>5, <2>6
<1>6. \A g \in files : g.time < f.time /\ NameOf(g) # NameOf(f) /\ g # f
  <2>1. \A g \in files : g.time < TIME /\ g.time \in Nat
    BY <1>1, FileTypes DEF Cached, Fresh, NamesAreFresh
  <2>2. f.time = TIME
    OBVIOUS
  <2>3. \A g \in files : g.time < f.time /\ g.time # f.time
    BY <1>2, <2>1, <2>2
  <2> HIDE DEF f
  <2> QED
    BY <2>3 DEF NameOf
<1>7. f \notin files /\ files' = files \cup {f}
  BY <1>1, <1>6 DEF WriteFile
<1>8. Live' = Live \cup {f}
  <2>1. NameOf(f) \notin job.doomed
    BY <1>6 DEF MergeOK
  <2>2. \A g : NameOf(g)' = NameOf(g)
    BY DEF NameOf
  <2> HIDE DEF f
  <2> QED
    BY <1>4, <1>7, <2>1, <2>2 DEF Live
<1>9. f.level = job.level + 1 /\ f.time = TIME
  OBVIOUS
<1> HIDE DEF f, F, rest
<1> QED
  BY <1>1, <1>2, <1>3, <1>4, <1>5, <1>6, <1>7, <1>8, <1>9 DEF F

LEMMA MergeOutput ==
    ASSUME Cached, MergeOK, WriteOutput
    PROVE  MergeOK'
<1>1. PICK f \in File :
         /\ pc = "write" /\ pc' \in {"write", "delete"} /\ files' = files \cup {f}
         /\ job'.level = job.level /\ job'.doomed = job.doomed
         /\ Keys(job'.rest) = Keys(job.rest) \ Fitting(job.rest)
         /\ \A k \in Keys(job'.rest) : job'.rest[k] = job.rest[k]
  BY OutputFacts
<1>2. \A k \in Keys(job'.rest) :
         \E g \in files : g.level <= job.level + 1 /\ g.data[k] = job'.rest[k]
  BY <1>1 DEF MergeOK
<1>3. job'.doomed \subseteq {NameOf(g) : g \in files'}
  BY <1>1 DEF MergeOK
<1> QED
  BY <1>1, <1>2, <1>3 DEF MergeOK, NameOf, Keys

LEMMA ArrangedOutput ==
    ASSUME Cached, Arranged, WriteOutput
    PROVE  Arranged'
<1> DEFINE j == job.level
           K == Keys(job.rest)
<1>1. PICK f \in File :
         /\ pc = "write" /\ pc' \in {"write", "delete"} /\ Live' = Live \cup {f}
         /\ f \notin files /\ files' = files \cup {f}
         /\ f.level = j + 1 /\ job'.level = j /\ job'.doomed = job.doomed
         /\ Keys(f.data) = Fitting(job.rest)
         /\ Keys(job'.rest) = K \ Fitting(job.rest)
         /\ \A k \in Keys(f.data) : f.data[k] = job.rest[k]
         /\ \A k \in Key \ Keys(f.data) : f.data[k] = NoEntry
         /\ \A k \in Keys(job'.rest) : job'.rest[k] = job.rest[k]
         /\ \A k \in Key \ Keys(job'.rest) : job'.rest[k] = NoEntry
  BY OutputFacts DEF Arranged
<1>2. j \in Nat /\ \A g \in files : g.level \in Nat
  BY FileTypes
<1>3. /\ Keys(f.data) \subseteq K /\ Keys(job'.rest) \subseteq K
      /\ Below(Keys(f.data), Keys(job'.rest))
  BY <1>1, FileTypes, FittingFirst
<1>4. Live \subseteq files
  BY DEF Live
<1>5. MergeOK'
  BY MergeOutput DEF Arranged
<1>6. DisjointOK'
  <2>1. ASSUME NEW g \in Live, g.level = j + 1
        PROVE  /\ Apart(Keys(g.data), Keys(f.data)) /\ Apart(Keys(f.data), Keys(g.data))
               /\ Apart(Keys(g.data), Keys(job'.rest))
    <3>1. Apart(Keys(g.data), K)
      BY <1>1, <2>1 DEF Arranged, DisjointOK
    <3> HIDE DEF K
    <3> QED
      BY <1>3, <3>1 DEF Apart, Below
  <2>2. Apart(Keys(f.data), Keys(job'.rest))
    BY <1>3 DEF Apart
  <2>3. \A g, h \in Live : g.level = h.level /\ g.level > 0 /\ g # h =>
           Apart(Keys(g.data), Keys(h.data))
    BY DEF Arranged, DisjointOK
  <2> HIDE DEF K, j
  <2>4. \A g, h \in Live' : g.level = h.level /\ g.level > 0 /\ g # h =>
           Apart(Keys(g.data), Keys(h.data))
    BY <1>1, <2>1, <2>3
  <2>5. \A g \in Live' : g.level = j + 1 => Apart(Keys(g.data), Keys(job'.rest))
    BY <1>1, <2>1, <2>2
  <2> QED
    BY <1>1, <2>4, <2>5 DEF DisjointOK, Apart, Below, Keys
<1>7. ShallowOK'
  <2>1. ASSUME NEW g \in Live, NEW k \in Keys(g.data) \cap K
        PROVE  /\ g.level <= j => job.rest[k].ver <= g.data[k].ver
               /\ g.level > j + 1 => g.data[k].ver <= job.rest[k].ver
    BY <1>1, <2>1 DEF Arranged, ShallowOK
  <2>2. \A g, h \in Live : g.level < h.level =>
           \A k \in Keys(g.data) \cap Keys(h.data) : h.data[k].ver <= g.data[k].ver
    BY DEF Arranged, ShallowOK
  <2> HIDE DEF K, j
  <2>3. \A g \in Live : g.level < f.level =>
           \A k \in Keys(g.data) \cap Keys(f.data) : f.data[k].ver <= g.data[k].ver
    BY <1>1, <1>2, <1>3, <1>4, <2>1
  <2>4. \A g \in Live : f.level < g.level =>
           \A k \in Keys(f.data) \cap Keys(g.data) : g.data[k].ver <= f.data[k].ver
    BY <1>1, <1>2, <1>3, <1>4, <2>1
  <2>5. ~(f.level < f.level) /\ ~(f.level <= j) /\ ~(f.level > j + 1)
    BY <1>1, <1>2
  <2>6. \A g, h \in Live' : g.level < h.level =>
           \A k \in Keys(g.data) \cap Keys(h.data) : h.data[k].ver <= g.data[k].ver
    BY <1>1, <2>2, <2>3, <2>4, <2>5
  <2>7. \A g \in Live' : \A k \in Keys(g.data) \cap Keys(job'.rest) :
           /\ g.level <= j => job'.rest[k].ver <= g.data[k].ver
           /\ g.level > j + 1 => g.data[k].ver <= job'.rest[k].ver
    BY <1>1, <1>3, <2>1, <2>5
  <2> QED
    BY <1>1, <2>6, <2>7 DEF ShallowOK, Keys
<1> QED
  BY <1>5, <1>6, <1>7 DEF Arranged

(* An input leaves the disk: a file that was doomed.                       *)
LEMMA DeleteFacts ==
    ASSUME Cached, DeleteInput
    PROVE  \E l \in Level : \E i \in DOMAIN sstableIndex[l] :
              LET n == NameOf(sstableIndex[l][i])
              IN  /\ pc = "delete" /\ n \in job.doomed
                  /\ files' = {f \in files : NameOf(f) # n}
                  /\ job'.level = job.level /\ job'.rest = job.rest
                  /\ job'.doomed = job.doomed \ {n}
                  /\ sstableIndex' \in {sstableIndex, [sstableIndex EXCEPT ![l] = RemoveAt(@, i)]}
                  /\ UNCHANGED <<s, dirs, totalLevel, pc, pending, latest, flushed, clock>>
<1>1. PICK l \in {job.level, job.level + 1} :
         \E i \in DOMAIN sstableIndex[l] : FirstDoomed(l, i) /\ delsstable(l, i)
  BY DEF DeleteInput
<1>2. PICK i \in DOMAIN sstableIndex[l] : FirstDoomed(l, i) /\ delsstable(l, i)
  BY <1>1
<1> DEFINE n == NameOf(sstableIndex[l][i])
<1>3. /\ pc = "delete" /\ UNCHANGED <<s, dirs, totalLevel, pc, pending, latest, flushed, clock>>
  BY DEF DeleteInput, ghost
<1>4. l \in Level
  <2> DEFINE j == job.level
  <2>1. j \in 0..(MaxLevel + 1) /\ j + 1 \in Level /\ MaxLevel \in Nat /\ l \in {j, j + 1}
    BY <1>3, LevelsAssumption DEF Cached, Fresh, Typed, TypeOK, JobOK
  <2> HIDE DEF j
  <2> QED
    BY <2>1 DEF Level
<1>5. n \in job.doomed
  BY <1>2 DEF FirstDoomed, IsDoomed
<1>6. /\ files' = {f \in files : NameOf(f) # n}
      /\ job' = [job EXCEPT !.doomed = @ \ {n}]
      /\ sstableIndex' \in {sstableIndex, [sstableIndex EXCEPT ![l] = RemoveAt(@, i)]}
  BY <1>2 DEF delsstable
<1>7. job \in [level : 0..(MaxLevel + 1), rest : Data, doomed : SUBSET Name]
  BY DEF Cached, Fresh, Typed, TypeOK
<1>8. job'.level = job.level /\ job'.rest = job.rest /\ job'.doomed = job.doomed \ {n}
  <2> HIDE DEF n
  <2> QED
    BY <1>6, <1>7
<1> QED
  BY <1>3, <1>4, <1>5, <1>6, <1>8

LEMMA MergeDelete ==
    ASSUME Cached, MergeOK, DeleteInput
    PROVE  MergeOK'
<1>1. PICK n \in job.doomed :
         /\ pc = "delete" /\ files' = {f \in files : NameOf(f) # n}
         /\ job'.doomed = job.doomed \ {n} /\ UNCHANGED pc
  BY DeleteFacts
<1>2. \A f : NameOf(f)' = NameOf(f)
  BY DEF NameOf
<1>3. job'.doomed \subseteq {NameOf(f) : f \in files'}
  BY <1>1 DEF MergeOK
<1> QED
  BY <1>1, <1>2, <1>3 DEF MergeOK

(* Only a merge has something to write or to delete; a kill forgets it.    *)
LEMMA MergeNext ==
    ASSUME Cached, MergeOK, [Next]_vars
    PROVE  MergeOK'
<1>0. pc \notin {"write", "delete"} => job.doomed = {}
  BY DEF MergeOK
<1>1. CASE pc' \notin {"write", "delete"} /\ job'.doomed = {}
  BY <1>1 DEF MergeOK
<1>2. CASE UNCHANGED vars
  <2>1. UNCHANGED <<files, pc, job>>
    BY <1>2 DEF vars, disk
  <2> QED
    BY <2>1 DEF MergeOK
<1>3. ASSUME pc \notin {"write", "delete"}, pc' \notin {"write", "delete"},
             UNCHANGED job \/ job' = NoJob \/ \E l : job' = [job EXCEPT !.level = l]
      PROVE  MergeOK'
  <2>1. job \in [level : 0..(MaxLevel + 1), rest : Data, doomed : SUBSET Name]
    BY DEF Cached, Fresh, Typed, TypeOK
  <2>2. job'.doomed = {}
    BY <1>0, <1>3, <2>1 DEF NoJob
  <2> QED
    BY <1>1, <1>3, <2>2
<1>4. CASE CompactNothing \/ FinishPut \/ ResetFile \/ ResetDir \/ ResetDone
           \/ OpenLevel \/ OpenDone
  BY <1>3, <1>4 DEF CompactNothing, FinishPut, ResetFile, ResetDir, ResetDone, OpenLevel, OpenDone
<1>5. CASE CompactEnd
  BY <1>1, <1>5 DEF CompactEnd, NoJob
<1>6. CASE CloseEmpty \/ FinishClose \/ Crash
  BY <1>1, <1>6 DEF CloseEmpty, FinishClose, Crash, Forget, NoJob
<1>7. ASSUME NEW k, NEW v, Store(k, v) PROVE MergeOK'
  BY <1>3, <1>7 DEF Store, PutInMemory, PutAndFlush
<1>8. CASE Reset \/ Close \/ OpenStart
  BY <1>3, <1>8 DEF Reset, Close, OpenStart
<1>9. CASE Continue
  BY <1>4, <1>5, <1>6, <1>9, MergeStart, MergeOutput, MergeDelete DEF Continue
<1>10. CASE Call
  BY <1>6, <1>7, <1>8, <1>10 DEF Call, Del, Put
<1> QED
  BY <1>2, <1>6, <1>8, <1>9, <1>10 DEF Next

LEMMA ArrangedDelete ==
    ASSUME Cached, Arranged, DeleteInput
    PROVE  Arranged'
<1>1. PICK n \in job.doomed :
         /\ pc = "delete" /\ files' = {f \in files : NameOf(f) # n}
         /\ job'.level = job.level /\ job'.doomed = job.doomed \ {n}
         /\ UNCHANGED pc
  BY DeleteFacts
<1>2. \A f : NameOf(f)' = NameOf(f)
  BY DEF NameOf
<1>3. Live' = Live
  BY <1>1, <1>2 DEF Live
<1>4. MergeOK'
  BY MergeDelete DEF Arranged
<1>5. DisjointOK'
  BY <1>1, <1>3 DEF Arranged, DisjointOK
<1>6. ShallowOK'
  BY <1>1, <1>3 DEF Arranged, ShallowOK
<1> QED
  BY <1>4, <1>5, <1>6 DEF Arranged

LEMMA ArrangedNext ==
    ASSUME Cached, Arranged, Versions, CrashPoints \cap {"write", "delete"} = {}, [Next]_vars
    PROVE  Arranged'
<1>0. pc \notin {"write", "delete"} => job.doomed = {}
  BY DEF Arranged, MergeOK
<1>1. CASE CompactNothing \/ FinishPut \/ CompactEnd \/ UNCHANGED vars
  <2>1. CASE UNCHANGED vars
    <3>1. UNCHANGED <<files, pc, job>>
      BY <2>1 DEF vars, disk
    <3>2. MergeOK'
      BY <3>1 DEF Arranged, MergeOK
    <3>3. DisjointOK' /\ ShallowOK'
      BY <3>1 DEF Arranged, DisjointOK, ShallowOK, Live
    <3> QED
      BY <3>2, <3>3 DEF Arranged
  <2>2. CASE CompactNothing \/ FinishPut \/ CompactEnd
    <3>1. /\ UNCHANGED files /\ job.doomed = {} /\ pc' # "write"
      BY <1>0, <2>2 DEF CompactNothing, FinishPut, CompactEnd, disk
    <3>2. job'.doomed = {}
      BY <2>2, <3>1 DEF CompactNothing, FinishPut, CompactEnd, NoJob
    <3> QED
      BY <3>1, <3>2, ArrangedStill
  <2> QED
    BY <1>1, <2>1, <2>2
<1>2. CASE Reset \/ ResetFile \/ ResetDone
  <2>1. /\ files' \subseteq files /\ job.doomed = {} /\ pc' # "write"
    BY <1>0, <1>2 DEF Reset, ResetFile, ResetDone, disk
  <2>2. job'.doomed = {}
    BY <1>2, <2>1 DEF Reset, ResetFile, ResetDone, NoJob
  <2> QED
    BY <2>1, <2>2, ArrangedStill
<1>3. CASE ResetDir
  <2>1. files' = files /\ job.doomed = {} /\ pc = "reset" /\ pc' = "reset"
    BY <1>0, <1>3 DEF ResetDir
  <2>2. job'.doomed = {}
    <3>1. job \in [level : 0..(MaxLevel + 1), rest : Data, doomed : SUBSET Name]
      BY DEF Cached, Fresh, Typed, TypeOK
    <3> QED
      BY <1>3, <2>1, <3>1 DEF ResetDir
  <2> QED
    BY <2>1, <2>2, ArrangedStill
<1>4. CASE CloseEmpty \/ FinishClose \/ Crash
  <2>1. /\ UNCHANGED files /\ job.doomed = {} /\ pc' = "down"
    BY <1>0, <1>4 DEF CloseEmpty, FinishClose, Crash, Forget, disk
  <2>2. job'.doomed = {}
    BY <1>4 DEF CloseEmpty, FinishClose, Crash, Forget, NoJob
  <2> QED
    BY <2>1, <2>2, ArrangedStill
<1>5. CASE OpenStart \/ OpenLevel \/ OpenDone
  <2>1. /\ UNCHANGED files /\ job.doomed = {} /\ pc' # "write"
    BY <1>0, <1>5 DEF OpenStart, OpenLevel, OpenDone, disk
  <2>2. job'.doomed = {}
    <3>1. job \in [level : 0..(MaxLevel + 1), rest : Data, doomed : SUBSET Name]
      BY DEF Cached, Fresh, Typed, TypeOK
    <3>2. CASE OpenLevel
      BY <2>1, <3>1, <3>2 DEF OpenLevel
    <3> QED
      BY <1>5, <2>1, <3>2 DEF OpenStart, OpenDone, NoJob
  <2> QED
    BY <2>1, <2>2, ArrangedStill
<1>6. ASSUME NEW k \in Key, NEW v \in Value \cup {DEL}, Store(k, v) PROVE Arranged'
  <2>1. CASE PutInMemory(k, v)
    <3>1. UNCHANGED <<files, job, pc>> /\ pc = "idle"
      BY <1>6, <2>1 DEF PutInMemory, Store, disk
    <3> QED
      BY <1>0, <3>1, ArrangedStill
  <2>2. CASE PutAndFlush(k, v)
    <3> DEFINE f == [level |-> 0, time |-> TIME + 1, data |-> s]
    <3>1. f \in File /\ f.level = 0 /\ f.data = s
      BY LevelsAssumption DEF File, Cached, Fresh, Typed, TypeOK, Level
    <3>2. /\ pc = "idle" /\ files' = WriteFile(f)
          /\ job'.doomed = {} /\ pc' = "compact"
      BY <1>6, <2>2 DEF PutAndFlush, Store, NoJob
    <3> HIDE DEF f
    <3> QED
      BY <3>1, <3>2, ArrangedFlush
  <2> QED
    BY <1>6, <2>1, <2>2 DEF Store
<1>7. CASE Close
  <2> DEFINE f == [level |-> 0, time |-> TIME + 1, data |-> s]
  <2>1. f \in File /\ f.level = 0 /\ f.data = s
    BY LevelsAssumption DEF File, Cached, Fresh, Typed, TypeOK, Level
  <2>2. /\ pc = "idle" /\ files' = WriteFile(f)
        /\ job'.doomed = {} /\ pc' = "compact"
    BY <1>7 DEF Close, NoJob
  <2> HIDE DEF f
  <2> QED
    BY <2>1, <2>2, ArrangedFlush
<1>8. CASE Continue
  BY <1>1, <1>2, <1>3, <1>4, <1>5, <1>8, ArrangedStart, ArrangedOutput, ArrangedDelete DEF Continue
<1>9. CASE Call
  BY <1>2, <1>4, <1>6, <1>7, <1>9 DEF Call, Del, Put
<1> QED
  BY <1>1, <1>4, <1>5, <1>8, <1>9 DEF Next

---------------------------------------------------------------------------
(* Deletion markers.                                                       *)

(* The deepest level, if it is not level 0, has no markers and gets none,  *)
(* with the inputs of a merge as well.                                     *)
Bottom(l) == l > 0 /\ l \in dirs /\ \A m \in dirs : m <= l

MarkersOK ==
    /\ \A f \in files : Bottom(f.level) => \A k \in Key : f.data[k].val # DEL
    /\ pc = "write" /\ Bottom(job.level + 1) => \A k \in Key : job.rest[k].val # DEL

LEMMA MarkersStill ==
    ASSUME MarkersOK, pc' # "write", \A f \in files' : f.level = 0 \/ f \in files,
           \A f \in files' : Bottom(f.level)' => Bottom(f.level)
    PROVE  MarkersOK'
<1>1. \A f \in files' : Bottom(f.level)' => f \in files /\ Bottom(f.level)
  BY DEF Bottom
<1> QED
  BY <1>1 DEF MarkersOK

(* A new deepest level has no tables yet, and what it gets has no markers. *)
LEMMA MarkersStart ==
    ASSUME Cached, MergeOK, MarkersOK, CompactStart
    PROVE  MarkersOK'
<1>1. PICK sel, met : Starts(sel, met)
  BY StartFiles
<1> DEFINE j == job.level
<1>2. /\ j \in Nat /\ job'.level = j /\ files' = files
      /\ dirs' = dirs \cup {j + 1} /\ dirs' = 0..totalLevel' /\ totalLevel' \in Nat
  BY <1>1, StartFacts
<1>3. ASSUME NEW f \in files, Bottom(f.level)', NEW k \in Key PROVE f.data[k].val # DEL
  <2>1. Bottom(f.level)
    BY <1>2, <1>3 DEF Bottom, Cached, Fresh, DirsOK
  <2> QED
    BY <1>3, <2>1 DEF MarkersOK
<1>4. ASSUME Bottom(j + 1)', NEW k \in Key PROVE job'.rest[k].val # DEL
  <2>1. j + 1 \in dirs' /\ \A m \in dirs' : m <= j + 1
    BY <1>2, <1>4 DEF Bottom
  <2>2. j + 1 = totalLevel'
    <3> HIDE DEF j
    <3>1. totalLevel' \in dirs'
      BY <1>2
    <3> QED
      BY <1>2, <2>1, <3>1
  <2>3. NoEntry.val # DEL
    BY DEF NoEntry, None, DEL
  <2> QED
    BY <1>1, <2>2, <2>3, StartRest
<1> QED
  BY <1>2, <1>3, <1>4 DEF MarkersOK, Bottom

LEMMA MarkersOutput ==
    ASSUME Cached, MergeOK, MarkersOK, WriteOutput
    PROVE  MarkersOK'
<1> DEFINE j == job.level
<1>1. PICK f \in File :
         /\ pc = "write" /\ dirs' = dirs /\ files' = files \cup {f}
         /\ f.level = j + 1 /\ job'.level = j
         /\ \A k \in Keys(f.data) : f.data[k] = job.rest[k]
         /\ \A k \in Key \ Keys(f.data) : f.data[k] = NoEntry
         /\ \A k \in Keys(job'.rest) : job'.rest[k] = job.rest[k]
         /\ \A k \in Key \ Keys(job'.rest) : job'.rest[k] = NoEntry
  BY OutputFacts
<1>2. NoEntry.val # DEL
  BY DEF NoEntry, None, DEL
<1>3. Bottom(j + 1) => \A k \in Key : job.rest[k].val # DEL
  BY <1>1 DEF MarkersOK
<1>4. \A l : Bottom(l)' <=> Bottom(l)
  BY <1>1 DEF Bottom
<1>5. ASSUME NEW g \in files', Bottom(g.level), NEW k \in Key PROVE g.data[k].val # DEL
  <2>1. CASE g \in files
    BY <1>5, <2>1 DEF MarkersOK
  <2>2. CASE g = f
    BY <1>1, <1>2, <1>3, <1>5, <2>2
  <2> QED
    BY <1>1, <2>1, <2>2
<1>6. ASSUME Bottom(j + 1), NEW k \in Key PROVE job'.rest[k].val # DEL
  BY <1>1, <1>2, <1>3, <1>6
<1> HIDE DEF j
<1>7. \A g \in files' : Bottom(g.level) => \A k \in Key : g.data[k].val # DEL
  BY <1>5
<1>8. Bottom(j + 1) => \A k \in Key : job'.rest[k].val # DEL
  BY <1>6
<1> QED
  BY <1>1, <1>4, <1>7, <1>8 DEF MarkersOK

LEMMA MarkersNext ==
    ASSUME Cached, MergeOK, MarkersOK, [Next]_vars
    PROVE  MarkersOK'
<1>1. CASE CompactNothing \/ DeleteInput \/ CompactEnd \/ FinishPut \/ FinishClose
           \/ ResetFile \/ ResetDone \/ OpenLevel \/ OpenDone
           \/ Reset \/ CloseEmpty \/ OpenStart \/ Crash
  <2>1. files' \subseteq files /\ UNCHANGED dirs /\ pc' # "write"
    BY <1>1 DEF CompactNothing, DeleteInput, delsstable, CompactEnd, FinishPut, FinishClose,
       ResetFile, ResetDone, OpenLevel, OpenDone, Reset, CloseEmpty, OpenStart, Crash,
       Forget, disk
  <2> QED
    BY <2>1, MarkersStill DEF Bottom
<1>2. CASE ResetDir
  <2>1. /\ files' = files /\ dirs' = dirs \ {job.level} /\ pc = "reset" /\ pc' = "reset"
    BY <1>2 DEF ResetDir
  <2>2. ASSUME NEW f \in files, Bottom(f.level)' PROVE Bottom(f.level)
    <3>1. f.level \in dirs /\ \A m \in dirs : job.level <= m
      BY <2>1 DEF Cached, Fresh, DirsOK
    <3> QED
      BY <2>1, <2>2, <3>1 DEF Bottom
  <2> QED
    BY <2>1, <2>2, MarkersStill
<1>3. ASSUME NEW f, f.level = 0, files' = WriteFile(f), dirs' = dirs \cup {0}, pc' = "compact"
      PROVE  MarkersOK'
  <2>1. \A g \in files' : g.level = 0 \/ g \in files
    BY <1>3 DEF WriteFile
  <2>2. ASSUME NEW l, Bottom(l)' PROVE Bottom(l)
    BY <1>3, <2>2 DEF Bottom
  <2> QED
    BY <1>3, <2>1, <2>2, MarkersStill
<1>4. ASSUME NEW k, NEW v, Store(k, v) PROVE MarkersOK'
  <2>1. CASE PutInMemory(k, v)
    <3>1. UNCHANGED <<files, dirs, pc>> /\ pc = "idle"
      BY <1>4, <2>1 DEF PutInMemory, Store, disk
    <3> QED
      BY <3>1, MarkersStill DEF Bottom
  <2>2. CASE PutAndFlush(k, v)
    <3> DEFINE f == [level |-> 0, time |-> TIME + 1, data |-> s]
    <3>1. f.level = 0 /\ files' = WriteFile(f) /\ dirs' = dirs \cup {0} /\ pc' = "compact"
      BY <2>2 DEF PutAndFlush
    <3> HIDE DEF f
    <3> QED
      BY <1>3, <3>1
  <2> QED
    BY <1>4, <2>1, <2>2 DEF Store
<1>5. CASE Close
  <2> DEFINE f == [level |-> 0, time |-> TIME + 1, data |-> s]
  <2>1. f.level = 0 /\ files' = WriteFile(f) /\ dirs' = dirs \cup {0} /\ pc' = "compact"
    BY <1>5 DEF Close
  <2> HIDE DEF f
  <2> QED
    BY <1>3, <2>1
<1>6. CASE UNCHANGED vars
  <2>1. UNCHANGED <<files, dirs, pc, job>>
    BY <1>6 DEF vars, disk
  <2> QED
    BY <2>1 DEF MarkersOK, Bottom
<1>7. CASE Continue
  BY <1>1, <1>2, <1>7, MarkersStart, MarkersOutput DEF Continue
<1>8. CASE Call
  BY <1>1, <1>4, <1>5, <1>8 DEF Call, Del, Put
<1> QED
  BY <1>1, <1>6, <1>7, <1>8 DEF Next

---------------------------------------------------------------------------
(* The versions.                                                           *)

(* The files' versions do not change while their set and flushed do not.   *)
LEMMA NotNewerTransitive ==
    ASSUME NEW a \in Entry, NEW b \in Entry, NEW c \in Entry, NotNewer(a, b), NotNewer(b, c)
    PROVE  NotNewer(a, c)
<1>1. a.ver \in Nat /\ b.ver \in Nat /\ c.ver \in Nat
  BY DEF Entry
<1>2. a.ver <= b.ver /\ b.ver <= c.ver
  BY DEF NotNewer
<1>3. a.ver <= c.ver /\ (a.ver = c.ver => a.ver = b.ver /\ b.ver = c.ver)
  BY <1>1, <1>2
<1> QED
  BY <1>3 DEF NotNewer

(* The memtable takes a new write.                                         *)
LEMMA MemInsert ==
    ASSUME Cached, MemOK, FilesOld, NEW k \in Key, NEW v \in Value \cup {DEL}, Insert(k, v),
           UNCHANGED <<files, flushed>>, pc # "reset", ~Closing'
    PROVE  MemOK' /\ FilesOld' /\ UncachedOK'
<1>1. /\ clock \in Nat /\ latest \in Data /\ s \in Data /\ flushed \in Data
      /\ clock' = clock + 1
      /\ latest' = [latest EXCEPT ![k] = [ver |-> clock + 1, val |-> v]]
      /\ s' = [s EXCEPT ![k] = [ver |-> clock + 1, val |-> v]]
  BY DEF Insert, NewEntry, Cached, Fresh, Typed, TypeOK
<1> DEFINE e == [ver |-> clock + 1, val |-> v]
<1>2. e.ver = clock + 1 /\ e # NoEntry /\ NoEntry.ver = 0
  BY <1>1 DEF NoEntry
<1> HIDE DEF e
<1>3. /\ latest'[k] = e /\ s'[k] = e
      /\ \A x \in Key \ {k} : latest'[x] = latest[x] /\ s'[x] = s[x]
  BY <1>1 DEF e, Data
<1>4. \A x \in Key : flushed[x].ver \in Nat /\ latest[x].ver \in Nat
  BY <1>1, FileTypes
<1>5. \A x \in Key : flushed[x].ver <= clock
  BY <1>1, <1>2, <1>4 DEF MemOK
<1>6. ASSUME NEW x \in Key
      PROVE  /\ latest'[x] # NoEntry => latest'[x].ver \in 1..clock'
             /\ flushed[x] # NoEntry => flushed[x].ver \in 1..clock'
             /\ NotNewer(flushed[x], latest'[x])
             /\ s'[x] \in {NoEntry, latest'[x]}
             /\ s'[x] = NoEntry => latest'[x] = flushed[x]
  <2>1. flushed[x] # NoEntry => flushed[x].ver \in 1..clock'
    BY <1>1 DEF MemOK
  <2>2. CASE x = k
    <3>1. e.ver \in 1..clock' /\ flushed[x].ver < e.ver
      BY <1>1, <1>2, <1>4, <1>5
    <3>2. NotNewer(flushed[x], e)
      BY <1>1, <1>2, <1>4, <3>1 DEF NotNewer
    <3> QED
      BY <1>2, <1>3, <2>1, <2>2, <3>1, <3>2
  <2>3. CASE x # k
    <3>1. latest[x] # NoEntry => latest[x].ver \in 1..clock'
      BY <1>1 DEF MemOK
    <3> QED
      BY <1>3, <2>1, <2>3, <3>1 DEF MemOK
  <2> QED
    BY <2>2, <2>3
<1>7. MemOK'
  BY <1>6 DEF MemOK, NotNewer
<1>8. FilesOld' /\ UncachedOK'
  BY DEF FilesOld, UncachedOK, Keys, NotNewer
<1> QED
  BY <1>7, <1>8

(* The memtable and what was written and flushed do not change.            *)
LEMMA MemStill ==
    ASSUME MemOK, UNCHANGED <<s, clock, latest, flushed>>, Closing' => Closing
    PROVE  MemOK'
<1>1. \A k \in Key : NotNewer(flushed[k], latest[k])' <=> NotNewer(flushed[k], latest[k])
  BY DEF NotNewer
<1> QED
  BY <1>1 DEF MemOK

LEMMA FilesOldStill ==
    ASSUME FilesOld, UNCHANGED flushed, files' \subseteq files, pc = "reset" => pc' = "reset"
    PROVE  FilesOld'
<1>1. \A d, k : NotNewer(d, flushed'[k]) <=> NotNewer(d, flushed[k])
  BY DEF NotNewer
<1>2. \A f, k : NotNewer(f.data[k], flushed[k])' <=> NotNewer(f.data[k], flushed'[k])
  BY DEF NotNewer
<1>3. \A f : Keys(f.data)' = Keys(f.data)
  BY DEF Keys
<1> QED
  BY <1>1, <1>2, <1>3 DEF FilesOld

(* What was written becomes what was flushed, in put or the destructor.    *)
LEMMA MemFlush ==
    ASSUME Cached, MemOK, FilesOld, pc = "idle", flushed' = latest,
           UNCHANGED <<latest, clock>>, s' \in {s, NoData},
           \A f \in files' : f \in files \/ f.data = s
    PROVE  MemOK' /\ FilesOld'
<1>1. /\ latest \in Data /\ flushed \in Data /\ s \in Data
      /\ \A k \in Key : latest[k] \in Entry /\ flushed[k] \in Entry /\ latest[k].ver \in Nat
  BY FileTypes DEF Cached, Fresh, Typed, TypeOK
<1>2. \A k \in Key : NotNewer(latest[k], latest[k])
  BY <1>1 DEF NotNewer
<1>3. \A k \in Key : s'[k] \in {NoEntry, latest[k]}
  BY DEF NoData, MemOK
<1>4. MemOK'
  <2>1. \A k \in Key : NotNewer(flushed[k], latest[k])' <=> NotNewer(latest[k], latest[k])
    BY DEF NotNewer
  <2> QED
    BY <1>2, <1>3, <2>1 DEF MemOK
<1>5. ASSUME NEW f \in files', NEW k \in Keys(f.data) PROVE NotNewer(f.data[k], latest[k])
  <2>1. k \in Key /\ f.data[k] # NoEntry
    BY DEF Keys
  <2>2. CASE f \in files
    <3>1. f.data[k] \in Entry
      BY <2>1, <2>2, FileTypes
    <3>2. NotNewer(f.data[k], flushed[k]) /\ NotNewer(flushed[k], latest[k])
      BY <2>1, <2>2 DEF FilesOld, MemOK
    <3> QED
      BY <1>1, <2>1, <3>1, <3>2, NotNewerTransitive
  <2>3. CASE f.data = s
    BY <1>2, <2>1, <2>3 DEF MemOK
  <2> QED
    BY <2>2, <2>3
<1>6. FilesOld'
  BY <1>5 DEF FilesOld, Keys, NotNewer
<1> QED
  BY <1>4, <1>6

(* A put or a del.                                                         *)
LEMMA VersionsStore ==
    ASSUME Cached, Versions, NEW k \in Key, NEW v \in Value \cup {DEL}, Store(k, v)
    PROVE  Versions'
<1>1. CASE PutInMemory(k, v)
  <2>1. /\ Insert(k, v) /\ UNCHANGED <<files, flushed, pc>> /\ pc = "idle"
    BY <1>1 DEF PutInMemory, Store, disk
  <2> QED
    BY <2>1, MemInsert DEF Versions, Closing
<1>2. CASE PutAndFlush(k, v)
  <2> DEFINE f == [level |-> 0, time |-> TIME + 1, data |-> s]
  <2>1. /\ pc = "idle" /\ flushed' = latest /\ UNCHANGED <<latest, clock>> /\ s' = NoData
        /\ files' = WriteFile(f) /\ pending' = <<[key |-> k, val |-> v]>>
    BY <1>2 DEF PutAndFlush, Store
  <2>2. \A g \in files' : g \in files \/ g.data = s
    BY <2>1 DEF WriteFile
  <2>3. ~Closing'
    BY <2>1 DEF Closing
  <2> HIDE DEF f
  <2> QED
    BY <2>1, <2>2, <2>3, MemFlush DEF Versions, UncachedOK
<1> QED
  BY <1>1, <1>2 DEF Store

(* The destructor writes the memtable to a file that it does not cache.    *)
LEMMA VersionsClose ==
    ASSUME Cached, Versions, Close
    PROVE  Versions'
<1> DEFINE f == [level |-> 0, time |-> TIME + 1, data |-> s]
<1>1. /\ pc = "idle" /\ flushed' = latest
      /\ UNCHANGED <<latest, clock, s, sstableIndex>>
      /\ files' = WriteFile(f)
  BY DEF Close
<1>2. \A g \in files' : g \in files \/ g.data = s
  BY <1>1 DEF WriteFile
<1>3. MemOK' /\ FilesOld'
  <2> HIDE DEF f
  <2> QED
    BY <1>1, <1>2, MemFlush DEF Versions
<1>4. ASSUME NEW g \in files, g.level = 0 PROVE HeadOf(g) \in ToSet(sstableIndex[0])
  <2>1. HeadOf(g) \in HeadsIn(files, 0)
    BY <1>4 DEF HeadsIn
  <2>2. Up /\ ~Closing /\ 0 \in Level
    BY <1>1, LevelsAssumption DEF Up, Closing, Level
  <2> QED
    BY <1>1, <2>1, <2>2, CachedUp
<1>5. UncachedOK'
  <2> HIDE DEF f
  <2>1. \A g : HeadOf(g)' = HeadOf(g)
    BY DEF HeadOf, Keys
  <2>2. ToSet(sstableIndex[0])' = ToSet(sstableIndex[0])
    BY <1>1 DEF ToSet
  <2> QED
    BY <1>1, <1>2, <1>4, <2>1, <2>2 DEF UncachedOK
<1> QED
  BY <1>3, <1>5 DEF Versions

(* The steps of a compaction.                                              *)
LEMMA VersionsCompact ==
    ASSUME Cached, MergeOK, Versions,
           CompactNothing \/ CompactStart \/ WriteOutput \/ DeleteInput \/ CompactEnd
    PROVE  Versions'
<1>1. /\ UNCHANGED <<s, clock, latest, flushed, pending>>
      /\ pc \in {"compact", "write", "delete"} /\ pc' # "reset"
  BY DEF CompactNothing, CompactStart, WriteOutput, DeleteInput, CompactEnd, store, ghost
<1>2. Closing' => Closing
  BY <1>1 DEF Closing
<1>3. MemOK'
  BY <1>1, <1>2, MemStill DEF Versions
<1>4. \A g : HeadOf(g)' = HeadOf(g)
  BY DEF HeadOf, Keys
<1>5. CASE CompactNothing \/ CompactStart \/ CompactEnd
  <2>1. UNCHANGED <<files, sstableIndex>>
    BY <1>5 DEF CompactNothing, CompactStart, CompactEnd, store, disk
  <2>2. ToSet(sstableIndex[0])' = ToSet(sstableIndex[0])
    BY <2>1 DEF ToSet
  <2>3. UncachedOK'
    BY <1>1, <1>2, <1>4, <2>1, <2>2 DEF Versions, UncachedOK
  <2>4. FilesOld'
    BY <1>1, <2>1, FilesOldStill DEF Versions
  <2> QED
    BY <1>3, <2>3, <2>4 DEF Versions
<1>6. CASE WriteOutput
  <2>1. PICK f \in File :
           /\ pc = "write" /\ f.level = job.level + 1 /\ files' = files \cup {f}
           /\ Keys(f.data) = Fitting(job.rest)
           /\ \A k \in Keys(f.data) : f.data[k] = job.rest[k]
    BY <1>6, OutputFacts
  <2>2. f.level # 0
    <3> DEFINE j == job.level
    <3>1. j \in Nat /\ f.level = j + 1
      BY <2>1, FileTypes
    <3> HIDE DEF j
    <3> QED
      BY <3>1
  <2>3. sstableIndex'[0] = sstableIndex[0]
    <3> DEFINE j == job.level
               h == HeadOf([level |-> job.level + 1, time |-> TIME,
                            data |-> Only(job.rest, Fitting(job.rest))])
    <3>1. sstableIndex' = [sstableIndex EXCEPT ![j + 1] = Append(@, h)]
      BY <1>6 DEF WriteOutput
    <3>2. j + 1 # 0 /\ 0 \in Level /\ sstableIndex \in [Level -> Seq(Table)]
      BY <2>1, <2>2, LevelsAssumption DEF Level, Cached, Fresh, Typed, TypeOK
    <3> HIDE DEF j, h
    <3> QED
      BY <3>1, <3>2
  <2>4. ToSet(sstableIndex[0])' = ToSet(sstableIndex[0])
    BY <2>3 DEF ToSet
  <2>5. UncachedOK'
    BY <1>1, <1>2, <1>4, <2>1, <2>2, <2>4 DEF Versions, UncachedOK
  <2>6. ASSUME NEW k \in Keys(f.data) PROVE NotNewer(f.data[k], flushed[k])
    <3>1. k \in Keys(job.rest)
      BY <2>1, FileTypes, FittingFirst
    <3>2. PICK g \in files : g.data[k] = job.rest[k]
      BY <2>1, <3>1 DEF MergeOK
    <3>3. k \in Keys(g.data)
      BY <3>1, <3>2 DEF Keys
    <3> QED
      BY <1>1, <2>1, <3>2, <3>3 DEF Versions, FilesOld
  <2>7. \A g \in files : \A k \in Keys(g.data) : NotNewer(g.data[k], flushed[k])
    BY <1>1 DEF Versions, FilesOld
  <2>8. \A g \in files' : \A k \in Keys(g.data) : NotNewer(g.data[k], flushed[k])
    BY <2>1, <2>6, <2>7
  <2>9. FilesOld'
    BY <1>1, <2>8 DEF FilesOld, Keys, NotNewer
  <2> QED
    BY <1>3, <2>5, <2>9 DEF Versions
<1>7. CASE DeleteInput
  <2>0. PICK l \in Level : \E i \in DOMAIN sstableIndex[l] :
           /\ files' = {f \in files : NameOf(f) # NameOf(sstableIndex[l][i])}
           /\ sstableIndex' \in {sstableIndex, [sstableIndex EXCEPT ![l] = RemoveAt(@, i)]}
    BY <1>7, DeleteFacts
  <2>1. PICK i \in DOMAIN sstableIndex[l] :
           /\ files' = {f \in files : NameOf(f) # NameOf(sstableIndex[l][i])}
           /\ sstableIndex' \in {sstableIndex, [sstableIndex EXCEPT ![l] = RemoveAt(@, i)]}
    BY <2>0
  <2>2. ASSUME NEW f \in files', HeadOf(f) \in ToSet(sstableIndex[0])
        PROVE  HeadOf(f) \in ToSet(sstableIndex'[0])
    <3>1. sstableIndex \in [Level -> Seq(Table)] /\ Each(sstableIndex[l]) /\ 0 \in Level
      BY LevelsAssumption DEF Cached, CacheOK, LevelCached, Fresh, Typed, TypeOK, Level
    <3>2. NameOf(HeadOf(f)) # NameOf(sstableIndex[l][i])
      BY <2>1 DEF HeadOf, NameOf
    <3>3. ToSet(RemoveAt(sstableIndex[l], i)) =
             {h \in ToSet(sstableIndex[l]) : NameOf(h) # NameOf(sstableIndex[l][i])}
      BY <3>1, EachRemoveAt
    <3>4. CASE l = 0 /\ sstableIndex' = [sstableIndex EXCEPT ![l] = RemoveAt(@, i)]
      BY <2>2, <3>1, <3>2, <3>3, <3>4
    <3>5. CASE l # 0 \/ sstableIndex' = sstableIndex
      BY <2>1, <2>2, <3>1, <3>5
    <3> QED
      BY <2>1, <3>4, <3>5
  <2>3. ToSet(sstableIndex[0])' = ToSet(sstableIndex'[0])
    BY DEF ToSet
  <2>4. UncachedOK'
    BY <1>1, <1>2, <1>4, <2>1, <2>2, <2>3 DEF Versions, UncachedOK
  <2>5. FilesOld'
    BY <1>1, <2>1, FilesOldStill DEF Versions
  <2> QED
    BY <1>3, <2>4, <2>5 DEF Versions
<1> QED
  BY <1>5, <1>6, <1>7

LEMMA VersionsNext ==
    ASSUME Cached, MergeOK, Versions, "reset" \notin CrashPoints, [Next]_vars
    PROVE  Versions'
<1>1. CASE FinishPut
  <2> DEFINE R == [key : Key, val : Value \cup {DEL}]
  <2>1. /\ pending \in Seq(R) /\ pending # <<>> /\ pc = "finish" /\ pc' = "idle"
        /\ Insert(pending[1].key, pending[1].val) /\ UNCHANGED <<files, flushed>>
    BY <1>1 DEF FinishPut, Cached, Fresh, Typed, TypeOK, disk
  <2>2. pending[1].key \in Key /\ pending[1].val \in Value \cup {DEL}
    <3> HIDE DEF R
    <3>1. pending[1] \in R
      BY <2>1
    <3> QED
      BY <3>1 DEF R
  <2> QED
    BY <2>1, <2>2, MemInsert DEF Versions, Closing
<1>2. CASE CloseEmpty
  <2>1. /\ pc = "idle" /\ flushed' = latest /\ UNCHANGED <<latest, clock, files>>
        /\ s' = NoData /\ pc' = "down"
    BY <1>2 DEF CloseEmpty, Forget, disk
  <2> QED
    BY <2>1, MemFlush DEF Versions, UncachedOK, Closing
<1>3. CASE FinishClose \/ Crash
  <2>1. /\ latest' = flushed /\ UNCHANGED <<flushed, clock, files>> /\ s' = NoData
        /\ pc # "reset" /\ pc' = "down"
    BY <1>3 DEF FinishClose, Crash, Forget, disk, Versions, MemOK, Closing
  <2>2. \A k \in Key : flushed[k].ver \in Nat /\ NoData[k] = NoEntry
    BY FileTypes DEF Cached, Fresh, Typed, TypeOK, NoData
  <2>3. \A k \in Key : NotNewer(flushed[k], latest[k])'
    BY <2>1, <2>2 DEF NotNewer
  <2>4. MemOK'
    BY <2>1, <2>2, <2>3 DEF Versions, MemOK, Closing
  <2>5. FilesOld' /\ UncachedOK'
    BY <2>1, FilesOldStill DEF Versions, UncachedOK, Closing
  <2> QED
    BY <2>4, <2>5 DEF Versions
<1>4. CASE Reset
  <2>1. /\ latest' = NoData /\ flushed' = NoData /\ s' = NoData /\ pc' = "reset"
    BY <1>4 DEF Reset
  <2>2. \A k \in Key : NoData[k] = NoEntry
    BY DEF NoData
  <2>3. \A k \in Key : NotNewer(flushed[k], latest[k])'
    BY <2>1, <2>2 DEF NotNewer, NoEntry
  <2> QED
    BY <2>1, <2>2, <2>3 DEF Versions, MemOK, FilesOld, UncachedOK, Closing
<1>5. CASE ResetFile \/ ResetDir
  <2>1. /\ UNCHANGED <<s, clock, latest, flushed, pc>> /\ pc = "reset"
    BY <1>5 DEF ResetFile, ResetDir, store, ghost
  <2> QED
    BY <2>1, MemStill DEF Versions, FilesOld, UncachedOK, Closing
<1>6. CASE ResetDone
  <2>1. /\ UNCHANGED <<s, clock, latest, flushed, files>> /\ pc = "reset" /\ pc' = "idle"
        /\ job.level > totalLevel
    BY <1>6 DEF ResetDone, disk, ghost
  <2>2. files' = {}
    <3> DEFINE j == job.level
    <3>1. j \in Nat /\ totalLevel \in Int /\ j > totalLevel /\ dirs = j..totalLevel
      BY <2>1, FileTypes DEF Cached, DirsExact, Up, Fresh, Typed, TypeOK
    <3> HIDE DEF j
    <3>2. dirs = {}
      BY <3>1
    <3> QED
      BY <2>1, <3>2 DEF Cached, Fresh, DirsOK
  <2> QED
    BY <2>1, <2>2, MemStill DEF Versions, FilesOld, UncachedOK, Closing
<1>7. CASE OpenStart \/ OpenLevel \/ OpenDone
  <2>1. /\ UNCHANGED <<s, clock, latest, flushed, files>> /\ pc # "reset"
        /\ pc' \in {"open", "idle"}
    BY <1>7 DEF OpenStart, OpenLevel, OpenDone, store, disk, ghost
  <2> QED
    BY <2>1, MemStill, FilesOldStill DEF Versions, UncachedOK, Closing
<1>8. CASE UNCHANGED vars
  <2>1. UNCHANGED <<s, clock, latest, flushed, files, pc, pending, sstableIndex>>
    BY <1>8 DEF vars, store, disk, ghost
  <2>2. MemOK' /\ FilesOld'
    BY <2>1, MemStill, FilesOldStill DEF Versions, Closing
  <2>3. UncachedOK'
    <3>1. \A f : HeadOf(f)' = HeadOf(f)
      BY DEF HeadOf, Keys
    <3>2. ToSet(sstableIndex[0])' = ToSet(sstableIndex[0])
      BY <2>1 DEF ToSet
    <3> QED
      BY <2>1, <3>1, <3>2 DEF Versions, UncachedOK, Closing
  <2> QED
    BY <2>2, <2>3 DEF Versions
<1>9. CASE Continue
  BY <1>1, <1>3, <1>5, <1>6, <1>7, <1>9, VersionsCompact DEF Continue
<1>10. CASE Call
  BY <1>2, <1>4, <1>10, VersionsStore, VersionsClose DEF Call, Del, Put
<1> QED
  BY <1>3, <1>7, <1>8, <1>9, <1>10 DEF Next

(* What was written, flushed and merged, as long as no reset is cut short. *)
Written == Cached /\ MergeOK /\ Versions

LEMMA WrittenInit == Init => Written
<1> SUFFICES ASSUME Init PROVE MergeOK /\ Versions
  BY CachedInit DEF Written
<1>1. /\ files = {} /\ pc = "idle" /\ job.doomed = {}
      /\ s = NoData /\ latest = NoData /\ flushed = NoData
  BY DEF Init, NoJob
<1>2. \A k \in Key : NoData[k] = NoEntry
  BY DEF NoData
<1>3. NotNewer(NoEntry, NoEntry)
  BY DEF NotNewer, NoEntry
<1> QED
  BY <1>1, <1>2, <1>3 DEF MergeOK, Versions, MemOK, FilesOld, UncachedOK, Closing

LEMMA WrittenAlways ==
    ASSUME "reset" \notin CrashPoints
    PROVE  Spec => []Written
<1>1. Written /\ [Next]_vars => Written'
  BY CachedNext, MergeNext, VersionsNext DEF Written
<1> QED
  BY <1>1, WrittenInit, PTL DEF Spec

(* The order of the versions is an invariant of the store, unless the      *)
(* process is killed while a compaction has both its inputs and its        *)
(* outputs on the disk, or within a reset.                                 *)
LEMMA OrderedAlways ==
    ASSUME CrashPoints \cap {"write", "delete", "reset"} = {}
    PROVE  Spec => []Ordered
<1>1. Init => Arranged
  <2> SUFFICES ASSUME Init PROVE Arranged
    OBVIOUS
  <2>1. files = {} /\ pc = "idle" /\ job.doomed = {}
    BY DEF Init, NoJob
  <2>2. Live = {}
    BY <2>1 DEF Live
  <2> QED
    BY <2>1, <2>2 DEF Arranged, MergeOK, DisjointOK, ShallowOK
<1>2. Written /\ Arranged /\ [Next]_vars => Arranged'
  BY ArrangedNext DEF Written
<1>3. Written /\ Arranged => Ordered
  BY DEF Written, Ordered
<1>4. Spec => []Written
  BY WrittenAlways
<1> QED
  BY <1>1, <1>2, <1>3, <1>4, PTL DEF Spec

(* Between calls no file is about to be deleted.                           *)
LEMMA QuietLive ==
    ASSUME Written, Quiet
    PROVE  Live = files /\ Up /\ ~Closing /\ pc # "reset"
  BY DEF Written, MergeOK, Live, Quiet, Up, Closing

(* Each cached head is that of a file of its level, and two of them are    *)
(* those of two files.                                                     *)
LEMMA QuietHeads ==
    ASSUME Written, Quiet, NEW l \in Level
    PROVE  /\ ToSet(sstableIndex[l]) = HeadsIn(files, l)
           /\ \A i \in DOMAIN sstableIndex[l] :
                 \E f \in files : f.level = l /\ sstableIndex[l][i] = HeadOf(f)
           /\ \A f \in files : f.level = l =>
                 \E i \in DOMAIN sstableIndex[l] : sstableIndex[l][i] = HeadOf(f)
           /\ \A i, j \in DOMAIN sstableIndex[l] :
                 NameOf(sstableIndex[l][i]) = NameOf(sstableIndex[l][j]) => i = j
<1>1. ToSet(sstableIndex[l]) = HeadsIn(files, l)
  BY QuietLive, CachedUp DEF Written
<1>2. Each(sstableIndex[l])
  BY DEF Written, Cached, CacheOK, LevelCached
<1>3. ASSUME NEW i \in DOMAIN sstableIndex[l]
      PROVE  \E f \in files : f.level = l /\ sstableIndex[l][i] = HeadOf(f)
  <2>1. sstableIndex[l][i] \in HeadsIn(files, l)
    BY <1>1 DEF ToSet
  <2> QED
    BY <2>1 DEF HeadsIn
<1>4. ASSUME NEW f \in files, f.level = l
      PROVE  \E i \in DOMAIN sstableIndex[l] : sstableIndex[l][i] = HeadOf(f)
  <2>1. HeadOf(f) \in ToSet(sstableIndex[l])
    BY <1>1, <1>4 DEF HeadsIn
  <2> QED
    BY <2>1 DEF ToSet
<1> QED
  BY <1>1, <1>2, <1>3, <1>4 DEF Each

LEMMA OrderedDisjoint ==
    ASSUME Ordered
    PROVE  LevelsDisjoint
<1>0. Written
  BY DEF Ordered, Arranged, Written
<1>1. ASSUME Quiet, NEW l \in 1..totalLevel,
             NEW i \in DOMAIN sstableIndex[l], NEW j \in DOMAIN sstableIndex[l], i # j,
             NEW k \in Key, InRange(sstableIndex[l][i], k), InRange(sstableIndex[l][j], k)
      PROVE  FALSE
  <2>1. l \in Level /\ l > 0
    BY <1>1, LevelsAssumption DEF Level, Ordered, Cached, Fresh, Typed, TypeOK
  <2>2. PICK f \in files : f.level = l /\ sstableIndex[l][i] = HeadOf(f)
    BY <1>1, <2>1, <1>0, QuietHeads
  <2>3. PICK g \in files : g.level = l /\ sstableIndex[l][j] = HeadOf(g)
    BY <1>1, <2>1, <1>0, QuietHeads
  <2>4. f # g
    BY <1>1, <2>1, <2>2, <2>3, <1>0, QuietHeads
  <2>5. Apart(Keys(f.data), Keys(g.data))
    BY <1>1, <2>1, <2>2, <2>3, <2>4, <1>0, QuietLive DEF Ordered, Arranged, DisjointOK
  <2>6. HeadOf(f).keys = Keys(f.data) /\ HeadOf(g).keys = Keys(g.data)
    BY DEF HeadOf
  <2>7. PICK a, b \in Keys(f.data) : a <= k /\ k <= b
    BY <1>1, <2>2, <2>6 DEF InRange
  <2>8. PICK c, d \in Keys(g.data) : c <= k /\ k <= d
    BY <1>1, <2>3, <2>6 DEF InRange
  <2>9. a \in Nat /\ b \in Nat /\ c \in Nat /\ d \in Nat /\ k \in Nat
    BY KeysAssumption DEF Keys
  <2>10. b < c \/ d < a
    BY <2>5 DEF Apart, Below
  <2> QED
    BY <2>7, <2>8, <2>9, <2>10
<1> QED
  BY <1>1 DEF LevelsDisjoint

(* Two tables of a level below the first never have ranges that meet: the  *)
(* early exit of get (kvstore.cc:184-188) skips nothing.                   *)
THEOREM RangesStayDisjoint ==
    ASSUME CrashPoints \cap {"write", "delete", "reset"} = {}
    PROVE  Spec => []LevelsDisjoint
<1>1. Ordered => LevelsDisjoint
  BY OrderedDisjoint
<1> QED
  BY <1>1, OrderedAlways, PTL

(* Of two tables with a key, the one in the shallower level never has the  *)
(* older version: get may stop at the first level that has the key.        *)
THEOREM ShallowerStaysNewer ==
    ASSUME CrashPoints \cap {"write", "delete", "reset"} = {}
    PROVE  Spec => []ShallowerIsNewer
<1>1. ASSUME Ordered, Quiet, NEW f \in files, NEW g \in files,
             NEW k \in Keys(f.data) \cap Keys(g.data), f.level < g.level
      PROVE  f.data[k].ver >= g.data[k].ver
  <2>1. g.data[k].ver <= f.data[k].ver
    BY <1>1, QuietLive DEF Ordered, Arranged, ShallowOK, Written
  <2>2. g.data[k].ver \in Nat /\ f.data[k].ver \in Nat
    BY <1>1, FileTypes DEF Ordered, Keys
  <2> QED
    BY <2>1, <2>2
<1>2. Ordered => ShallowerIsNewer
  BY <1>1 DEF ShallowerIsNewer
<1> QED
  BY <1>2, OrderedAlways, PTL

(* A merge into the deepest level drops every marker, and nothing else     *)
(* ever puts one there, wherever but within reset the process is killed:   *)
(* deleted data ends (kvstore.cc:551-558).                                 *)
THEOREM DeepestStaysClean ==
    ASSUME "reset" \notin CrashPoints
    PROVE  Spec => []DeepestHasNoMarkers
<1>1. Init => MarkersOK
  BY DEF Init, MarkersOK
<1>2. Written /\ MarkersOK /\ [Next]_vars => MarkersOK'
  BY MarkersNext DEF Written
<1>3. ASSUME Written, MarkersOK, Quiet, totalLevel > 0,
             NEW f \in files, f.level = totalLevel, NEW k \in Key
      PROVE  f.data[k].val # DEL
  <2>1. dirs = 0..totalLevel /\ totalLevel \in Int
    BY <1>3, QuietLive DEF Written, Cached, DirsExact, Fresh, Typed, TypeOK
  <2>2. Bottom(totalLevel)
    BY <1>3, <2>1 DEF Bottom
  <2> QED
    BY <1>3, <2>2 DEF MarkersOK
<1>4. Written /\ MarkersOK => DeepestHasNoMarkers
  BY <1>3 DEF DeepestHasNoMarkers
<1> QED
  BY <1>1, <1>2, <1>4, WrittenAlways, PTL DEF Spec
=============================================================================
