------------------------------ MODULE LsmTree ------------------------------
(***************************************************************************)
(* The log-structured merge tree of KVStore (src/kvstore.cc): the memtable *)
(* `s`, the cached table heads `sstableIndex`, the files and directories   *)
(* under ./data, the timestamp TIME, and the operations put, get, del,     *)
(* scan, reset, the constructor, the destructor and compaction.            *)
(*                                                                         *)
(* The store has one thread.  A call that touches the disk several times   *)
(* is a sequence of steps, so that the process may be killed between any   *)
(* two of them; `pc` names the place in the call.                          *)
(***************************************************************************)
EXTENDS Integers, Sequences, FiniteSets, SequencesExt

CONSTANTS
    Key,          \* the keys, natural numbers below the skip list's sentinel
    Value,        \* the values a client may put
    ValLen,       \* the length in bytes of each value, of DEL and of None
    MAXSIZE,      \* the size limit of a memtable and of a table
    HeadBytes,    \* Bloom filter and fixed header of a table: 10240 + 32
    IndexBytes,   \* one index record of a table: key and offset, 12
    MaxLevel,     \* the last level, 14 in the code
    L0Limit,      \* the tables level 0 may hold, 2 in the code
    MergeWidth,   \* the tables taken from a deeper level, 4 in the code
    Threshold,    \* Threshold[l]: the tables level l may hold, 2^(l+1) in the code
    MaxWrites,    \* bound: the writes of a behaviour
    MaxRestarts,  \* bound: the times the process ends
    Ops,          \* the operations clients use, of {"put","del","reset","close"}
    CrashPoints   \* the values of pc at which the process may be killed

DEL == "~DELETED~"      \* the deletion marker
None == ""              \* the empty string, which get returns for no value
Level == 0..MaxLevel

(* An entry is a value together with the number of the write that put it:  *)
(* the number stands for the payload, it tells two writes of one value     *)
(* apart and the store never looks at it.                                  *)
Entry   == [ver : Nat, val : Value \cup {DEL, None}]
NoEntry == [ver |-> 0, val |-> None]
Data    == [Key -> Entry]
NoData  == [k \in Key |-> NoEntry]

ASSUME KeysAssumption == Key \subseteq Nat /\ IsFiniteSet(Key)
ASSUME ValuesAssumption == DEL \notin Value
ASSUME LengthsAssumption ==
    /\ ValLen \in [Value \cup {DEL, None} -> Nat]
    /\ ValLen[None] = 0
ASSUME SizesAssumption ==
    /\ MAXSIZE \in Nat /\ HeadBytes \in Nat /\ IndexBytes \in Nat
    /\ \A v \in Value \cup {DEL} : IndexBytes + ValLen[v] + HeadBytes <= MAXSIZE
ASSUME LevelsAssumption ==
    /\ MaxLevel \in Nat /\ L0Limit \in Nat /\ MergeWidth \in Nat \ {0}
    /\ Threshold \in [Level -> Nat]
ASSUME BoundsAssumption == MaxWrites \in Nat /\ MaxRestarts \in Nat

Name  == [level : Level, time : Nat]                      \* level-<l>/<t>.sst
Table == [level : Level, time : Nat, keys : SUBSET Key]   \* sstablehead
File  == [level : Level, time : Nat, data : Data]         \* a file on the disk
Place == {"idle", "compact", "write", "delete", "finish", "reset", "open", "down"}

VARIABLES
    s,            \* the memtable
    sstableIndex, \* the cached heads of each level, oldest position first
    files,        \* the table files on the disk
    dirs,         \* the level directories on the disk
    totalLevel,   \* the deepest level in use, -1 when there is none
    TIME,         \* the last timestamp given to a table
    pc,           \* where the current call is
    job,          \* the local variables of that call
    pending,      \* what the put that flushed has still to insert
    clock,        \* ghost: the number of writes so far
    latest,       \* ghost: the last write of each key
    flushed,      \* ghost: the last write of each key that reached a file
    restarts      \* ghost: how often the process ended

store == <<s, sstableIndex, totalLevel, TIME>>
disk  == <<files, dirs>>
ghost == <<clock, latest, flushed, restarts>>
vars  == <<store, disk, pc, job, pending, ghost>>

NoJob == [level |-> 0, rest |-> NoData, doomed |-> {}]

---------------------------------------------------------------------------
(* Tables, heads and files.                                                *)

Keys(d) == {k \in Key : d[k] # NoEntry}
Only(d, ks) == [k \in Key |-> IF k \in ks THEN d[k] ELSE NoEntry]

Bytes(d) == MapThenSumSet(LAMBDA k : IndexBytes + ValLen[d[k].val], Keys(d))

NameOf(x) == [level |-> x.level, time |-> x.time]
HeadOf(f) == [level |-> f.level, time |-> f.time, keys |-> Keys(f.data)]

(* Opening a file for writing truncates what had its name.                 *)
WriteFile(f) == {g \in files : NameOf(g) # NameOf(f)} \cup {f}

(* What a file holds, found by its name; a missing file gives nothing.     *)
Content(n) ==
    IF \E f \in files : NameOf(f) = n
    THEN (CHOOSE f \in files : NameOf(f) = n).data
    ELSE NoData

(* minV <= k <= maxV                                                       *)
InRange(h, k) == \E a, b \in h.keys : a <= k /\ k <= b

---------------------------------------------------------------------------
(* get: the memtable, then level by level.  In a level below the first, a  *)
(* table whose range holds the key but that lacks the key ends the search  *)
(* of the level.                                                           *)

Hits(l, k) ==
    LET idx == sstableIndex[l]
    IN  {i \in DOMAIN idx :
            /\ k \in idx[i].keys
            /\ l > 0 => \A j \in 1..(i - 1) :
                            InRange(idx[j], k) => k \in idx[j].keys}

FirstLevelWith(k) ==
    CHOOSE l \in 0..totalLevel :
        Hits(l, k) # {} /\ \A m \in 0..(l - 1) : Hits(m, k) = {}

(* Mutant of Found: get keeps the first hit of the level.                  *)
FoundFirst(k) ==
    CHOOSE i \in Hits(FirstLevelWith(k), k) : \A j \in Hits(FirstLevelWith(k), k) : i <= j

Found(k) ==
    LET l   == FirstLevelWith(k)
        idx == sstableIndex[l]
    IN  CHOOSE i \in Hits(l, k) : \A j \in Hits(l, k) : idx[j].time <= idx[i].time

GetEntry(k) ==
    IF s[k].val # None THEN s[k]
    ELSE IF \A l \in 0..totalLevel : Hits(l, k) = {} THEN NoEntry
    ELSE Content(NameOf(sstableIndex[FirstLevelWith(k)][Found(k)]))[k]

(* A deleted key and a key without a value read as the empty string.       *)
Visible(e) == IF e.val \in {DEL, None} THEN NoEntry ELSE e

Get(k) == Visible(GetEntry(k))

---------------------------------------------------------------------------
(* scan: a heap merges the memtable, whose time is INF, with every table   *)
(* whose range meets [k1, k2].  The first key of such a table that is not  *)
(* below k1 is pushed whether or not it is above k2.                       *)

Heads == UNION {{sstableIndex[l][i] : i \in DOMAIN sstableIndex[l]} : l \in 0..totalLevel}

(* Mutant of Scanned: the end of the range is excluded.                    *)
ScannedToEnd(h, k1, k2) ==
    {k \in h.keys : k1 <= k /\ (k < k2 \/ \A j \in h.keys : k1 <= j => k <= j)}

Scanned(h, k1, k2) ==
    IF \E a, b \in h.keys : k1 <= b /\ a <= k2
    THEN {k \in h.keys : /\ k1 <= k
                         /\ k <= k2 \/ \A j \in h.keys : k1 <= j => k <= j}
    ELSE {}

ScanEntry(k, k1, k2) ==
    LET offers == {h \in Heads : k \in Scanned(h, k1, k2)}
    IN  IF s[k] # NoEntry /\ k1 <= k /\ k <= k2 THEN s[k]
        ELSE IF offers = {} THEN NoEntry
        ELSE Content(NameOf(CHOOSE h \in offers : \A g \in offers : g.time <= h.time))[k]

ScanResult(k1, k2) == [k \in Key |-> Visible(ScanEntry(k, k1, k2))]

---------------------------------------------------------------------------
(* put and del.                                                            *)

(* Mutant of NextSize: the size before the insertion is compared.          *)
SizeNow(k, v) == Bytes(s)

(* The size the memtable would have; an entry without bytes counts as new. *)
NextSize(k, v) ==
    IF ValLen[s[k].val] = 0
    THEN Bytes(s) + IndexBytes + ValLen[v]
    ELSE Bytes(s) - ValLen[s[k].val] + ValLen[v]

NewEntry(v) == [ver |-> clock + 1, val |-> v]

Insert(k, v) ==
    /\ s' = [s EXCEPT ![k] = NewEntry(v)]
    /\ latest' = [latest EXCEPT ![k] = NewEntry(v)]
    /\ clock' = clock + 1

PutInMemory(k, v) ==
    /\ NextSize(k, v) + HeadBytes <= MAXSIZE
    /\ Insert(k, v)
    /\ UNCHANGED <<sstableIndex, totalLevel, TIME, disk, pc, job, pending,
                   flushed, restarts>>

(* The memtable becomes a table of level 0 before the entry is inserted.   *)
PutAndFlush(k, v) ==
    LET f == [level |-> 0, time |-> TIME + 1, data |-> s]
    IN  /\ NextSize(k, v) + HeadBytes > MAXSIZE
        /\ TIME' = TIME + 1
        /\ s' = NoData
        /\ dirs' = dirs \cup {0}
        /\ totalLevel' = IF 0 \in dirs THEN totalLevel ELSE 0
        /\ sstableIndex' = [sstableIndex EXCEPT ![0] = Append(@, HeadOf(f))]
        /\ files' = WriteFile(f)
        /\ flushed' = latest
        /\ pending' = <<[key |-> k, val |-> v]>>
        /\ pc' = "compact" /\ job' = NoJob
        /\ UNCHANGED <<clock, latest, restarts>>

Store(k, v) ==
    /\ pc = "idle"
    /\ clock < MaxWrites
    /\ PutInMemory(k, v) \/ PutAndFlush(k, v)

Put(k, v) == "put" \in Ops /\ Store(k, v)
Del(k) == "del" \in Ops /\ Get(k) # NoEntry /\ Store(k, DEL)

---------------------------------------------------------------------------
(* compaction(job.level).                                                  *)

(* Level 0 is left alone until it holds more than L0Limit tables.          *)
CompactNothing ==
    /\ pc = "compact" /\ job.level = 0
    /\ Len(sstableIndex[0]) <= L0Limit
    /\ pc' = "finish"
    /\ UNCHANGED <<store, disk, job, pending, ghost>>

(* Mutant of Selected: level 0 gives up its newest tables only.            *)
SelectedNewest(l) ==
    LET idx == sstableIndex[l]
    IN  SubSeq(idx, IF Len(idx) > MergeWidth THEN Len(idx) - MergeWidth + 1 ELSE 1, Len(idx))

(* The tables taken from the level: all of level 0, the first MergeWidth   *)
(* of a deeper level.                                                      *)
Selected(l) ==
    IF l = 0 \/ Len(sstableIndex[l]) <= MergeWidth
    THEN sstableIndex[l]
    ELSE SubSeq(sstableIndex[l], 1, MergeWidth)

(* Mutant of Overlaps: ranges that share an end only do not overlap.       *)
OverlapsStrictly(h, sel) ==
    \E a, b \in UNION {g.keys : g \in sel} : \E c, d \in h.keys : a < d /\ c < b

(* [minKey, maxKey] of the selected tables meets the range of h.           *)
Overlaps(h, sel) ==
    \E a, b \in UNION {g.keys : g \in sel} : \E c, d \in h.keys :
        a <= d /\ c <= b

(* Mutants of Merged: the oldest version wins; markers are never dropped.  *)
MergedOldest(inputs, deepest) ==
    LET holders(k) == {n \in inputs : Content(n)[k] # NoEntry}
        oldest(k)  == CHOOSE n \in holders(k) : \A m \in holders(k) : n.time <= m.time
    IN  [k \in Key |-> IF holders(k) = {} THEN NoEntry ELSE Content(oldest(k))[k]]

MergedWithMarkers(inputs, deepest) ==
    LET holders(k) == {n \in inputs : Content(n)[k] # NoEntry}
        newest(k)  == CHOOSE n \in holders(k) : \A m \in holders(k) : m.time <= n.time
    IN  [k \in Key |-> IF holders(k) = {} THEN NoEntry ELSE Content(newest(k))[k]]

(* The newest of the tables that hold k wins; a marker is dropped when the *)
(* target is the deepest level.                                            *)
Merged(inputs, deepest) ==
    LET holders(k) == {n \in inputs : Content(n)[k] # NoEntry}
        newest(k)  == CHOOSE n \in holders(k) : \A m \in holders(k) : m.time <= n.time
    IN  [k \in Key |->
            IF holders(k) = {} THEN NoEntry
            ELSE IF deepest /\ Content(newest(k))[k].val = DEL THEN NoEntry
            ELSE Content(newest(k))[k]]

CompactStart ==
    LET l      == job.level
        sel    == ToSet(Selected(l))
        deeper == IF l + 1 \notin dirs /\ totalLevel < l + 1 THEN l + 1 ELSE totalLevel
        met    == {h \in ToSet(sstableIndex[l + 1]) : l + 1 <= deeper /\ Overlaps(h, sel)}
        inputs == {NameOf(h) : h \in sel \cup met}
        rest   == Merged(inputs, l + 1 = deeper)
    IN  /\ pc = "compact" /\ l < MaxLevel
        /\ l = 0 => Len(sstableIndex[0]) > L0Limit
        /\ dirs' = dirs \cup {l + 1}
        /\ totalLevel' = deeper
        /\ TIME' = TIME + 1
        /\ job' = [level |-> l, rest |-> rest, doomed |-> inputs]
        /\ pc' = IF rest = NoData THEN "delete" ELSE "write"
        /\ UNCHANGED <<s, sstableIndex, files, pending, ghost>>

(* The keys that go to the next output table: those before the first one   *)
(* with which it would be too large.                                       *)
Fitting(d) ==
    LET fits(k) == Bytes(Only(d, {j \in Key : j <= k})) + HeadBytes <= MAXSIZE
    IN  {k \in Keys(d) : \A j \in Keys(d) : j <= k => fits(j)}

(* Mutant of WriteOutput: the next output table keeps the timestamp.       *)
WriteOutputSameTime ==
    LET f    == [level |-> job.level + 1, time |-> TIME,
                 data |-> Only(job.rest, Fitting(job.rest))]
        rest == Only(job.rest, Keys(job.rest) \ Fitting(job.rest))
    IN  /\ pc = "write"
        /\ files' = WriteFile(f)
        /\ sstableIndex' = [sstableIndex EXCEPT ![f.level] = Append(@, HeadOf(f))]
        /\ pc' = IF rest = NoData THEN "delete" ELSE "write"
        /\ job' = [job EXCEPT !.rest = rest]
        /\ UNCHANGED <<s, TIME, dirs, totalLevel, pending, ghost>>

WriteOutput ==
    LET target == job.level + 1
        f      == [level |-> target, time |-> TIME,
                   data |-> Only(job.rest, Fitting(job.rest))]
        rest   == Only(job.rest, Keys(job.rest) \ Fitting(job.rest))
    IN  /\ pc = "write"
        /\ files' = WriteFile(f)
        /\ sstableIndex' = [sstableIndex EXCEPT ![target] = Append(@, HeadOf(f))]
        /\ TIME' = IF rest = NoData THEN TIME ELSE TIME + 1
        /\ pc' = IF rest = NoData THEN "delete" ELSE "write"
        /\ job' = [job EXCEPT !.rest = rest]
        /\ UNCHANGED <<s, dirs, totalLevel, pending, ghost>>

(* Mutant of delsstable: the file stays on the disk.                       *)
delsstableFromCache(l, i) ==
    /\ sstableIndex' = [sstableIndex EXCEPT ![l] = RemoveAt(@, i)]
    /\ job' = [job EXCEPT !.doomed = @ \ {NameOf(sstableIndex[l][i])}]
    /\ UNCHANGED files

(* The i-th head of level l leaves the cache, then its file the disk.      *)
delsstable(l, i) ==
    LET n == NameOf(sstableIndex[l][i])
    IN  /\ sstableIndex' = IF l <= totalLevel
                           THEN [sstableIndex EXCEPT ![l] = RemoveAt(@, i)]
                           ELSE sstableIndex
        /\ files' = {f \in files : NameOf(f) # n}
        /\ job' = [job EXCEPT !.doomed = @ \ {n}]

(* The inputs go one by one: those of the source level first, each level   *)
(* in the order of the cache.                                              *)
IsDoomed(l, i) == NameOf(sstableIndex[l][i]) \in job.doomed

FirstDoomed(l, i) ==
    /\ IsDoomed(l, i)
    /\ \A j \in 1..(i - 1) : ~IsDoomed(l, j)
    /\ l > job.level => \A j \in DOMAIN sstableIndex[job.level] : ~IsDoomed(job.level, j)

DeleteInput ==
    /\ pc = "delete"
    /\ \E l \in {job.level, job.level + 1} : \E i \in DOMAIN sstableIndex[l] :
           FirstDoomed(l, i) /\ delsstable(l, i)
    /\ UNCHANGED <<s, totalLevel, TIME, dirs, pc, pending, ghost>>

(* Mutant of CompactEnd: a level at its threshold is compacted already.    *)
CompactEndAtThreshold ==
    LET target == job.level + 1
    IN  /\ pc = "delete" /\ job.doomed = {}
        /\ IF Len(sstableIndex[target]) >= Threshold[target]
           THEN pc' = "compact" /\ job' = [NoJob EXCEPT !.level = target]
           ELSE pc' = "finish" /\ job' = NoJob
        /\ UNCHANGED <<store, disk, pending, ghost>>

(* compaction calls itself on the next level when that one is over its     *)
(* threshold, and returns to put or to the destructor otherwise.           *)
CompactEnd ==
    LET target == job.level + 1
    IN  /\ pc = "delete" /\ job.doomed = {}
        /\ IF Len(sstableIndex[target]) > Threshold[target]
           THEN pc' = "compact" /\ job' = [NoJob EXCEPT !.level = target]
           ELSE pc' = "finish" /\ job' = NoJob
        /\ UNCHANGED <<store, disk, pending, ghost>>

(* The put that flushed inserts its entry.                                 *)
FinishPut ==
    /\ pc = "finish" /\ pending # <<>>
    /\ Insert(pending[1].key, pending[1].val)
    /\ pc' = "idle" /\ pending' = <<>>
    /\ UNCHANGED <<sstableIndex, totalLevel, TIME, disk, job, flushed, restarts>>

---------------------------------------------------------------------------
(* reset: the memtable, then for each level its files, its directory and   *)
(* its heads.                                                              *)

Reset ==
    /\ pc = "idle" /\ "reset" \in Ops
    /\ s' = NoData
    /\ pc' = "reset"
    /\ latest' = NoData /\ flushed' = NoData
    /\ UNCHANGED <<sstableIndex, totalLevel, TIME, disk, job, pending, clock, restarts>>

ResetFile ==
    /\ pc = "reset" /\ job.level <= totalLevel
    /\ \E f \in files : f.level = job.level /\ files' = files \ {f}
    /\ UNCHANGED <<store, dirs, pc, job, pending, ghost>>

ResetDir ==
    /\ pc = "reset" /\ job.level <= totalLevel
    /\ \A f \in files : f.level # job.level
    /\ dirs' = dirs \ {job.level}
    /\ sstableIndex' = [sstableIndex EXCEPT ![job.level] = <<>>]
    /\ job' = [job EXCEPT !.level = @ + 1]
    /\ UNCHANGED <<s, totalLevel, TIME, files, pc, pending, ghost>>

(* Mutant of ResetDone: totalLevel is counted down once more.              *)
ResetDoneCountsDown ==
    /\ pc = "reset" /\ job.level > totalLevel
    /\ totalLevel' = -2
    /\ pc' = "idle" /\ job' = NoJob
    /\ UNCHANGED <<s, sstableIndex, TIME, disk, pending, ghost>>

ResetDone ==
    /\ pc = "reset" /\ job.level > totalLevel
    /\ totalLevel' = -1
    /\ pc' = "idle" /\ job' = NoJob
    /\ UNCHANGED <<s, sstableIndex, TIME, disk, pending, ghost>>

---------------------------------------------------------------------------
(* The end of the process and the start of the next one.                   *)

(* What the process kept in memory is gone.                                *)
Forget ==
    /\ s' = NoData
    /\ sstableIndex' = [l \in Level |-> <<>>]
    /\ totalLevel' = -1
    /\ TIME' = 0
    /\ job' = NoJob /\ pending' = <<>>
    /\ restarts' = restarts + 1
    /\ pc' = "down"

(* The destructor: an empty memtable leaves nothing to do, any other one   *)
(* becomes a file of level 0 that is not entered in the cache.             *)
CloseEmpty ==
    /\ pc = "idle" /\ "close" \in Ops /\ restarts < MaxRestarts
    /\ s = NoData
    /\ Forget
    /\ flushed' = latest
    /\ UNCHANGED <<disk, clock, latest>>

Close ==
    /\ pc = "idle" /\ "close" \in Ops /\ restarts < MaxRestarts
    /\ s # NoData
    /\ TIME' = TIME + 1
    /\ files' = WriteFile([level |-> 0, time |-> TIME + 1, data |-> s])
    /\ dirs' = dirs \cup {0}
    /\ totalLevel' = IF 0 \in dirs THEN totalLevel ELSE 0
    /\ flushed' = latest
    /\ pc' = "compact" /\ job' = NoJob
    /\ UNCHANGED <<s, sstableIndex, pending, clock, latest, restarts>>

FinishClose ==
    /\ pc = "finish" /\ pending = <<>>
    /\ Forget
    /\ UNCHANGED <<disk, clock, latest, flushed>>

(* The process is killed: what reached no file is lost.                    *)
Crash ==
    /\ pc \in CrashPoints /\ restarts < MaxRestarts
    /\ Forget
    /\ latest' = flushed
    /\ UNCHANGED <<disk, clock, flushed>>

(* The constructor reads the level directories in turn, the files of each  *)
(* in the order the file system lists them, until a directory is missing.  *)
OpenStart ==
    /\ pc = "down"
    /\ pc' = "open"
    /\ UNCHANGED <<store, disk, job, pending, ghost>>

(* Mutant of OpenLevel: the timestamps of the heads are not looked at.     *)
OpenLevelTimeless ==
    LET here == {HeadOf(f) : f \in {g \in files : g.level = job.level}}
    IN  /\ pc = "open" /\ job.level \in dirs
        /\ \E order \in SetToSeqs(here) :
               sstableIndex' = [sstableIndex EXCEPT ![job.level] = order]
        /\ job' = [job EXCEPT !.level = @ + 1]
        /\ UNCHANGED <<s, totalLevel, TIME, disk, pc, pending, ghost>>

OpenLevel ==
    LET here == {HeadOf(f) : f \in {g \in files : g.level = job.level}}
    IN  /\ pc = "open" /\ job.level \in dirs
        /\ \E order \in SetToSeqs(here) :
               sstableIndex' = [sstableIndex EXCEPT ![job.level] = order]
        /\ \E t \in {TIME} \cup {h.time : h \in here} :
               TIME' = t /\ \A u \in {TIME} \cup {h.time : h \in here} : u <= t
        /\ job' = [job EXCEPT !.level = @ + 1]
        /\ UNCHANGED <<s, totalLevel, disk, pc, pending, ghost>>

(* Mutant of OpenDone: the missing level is subtracted twice.              *)
OpenDoneTwice ==
    /\ pc = "open" /\ job.level \notin dirs
    /\ totalLevel' = job.level - 2
    /\ pc' = "idle" /\ job' = NoJob
    /\ UNCHANGED <<s, sstableIndex, TIME, disk, pending, ghost>>

OpenDone ==
    /\ pc = "open" /\ job.level \notin dirs
    /\ totalLevel' = job.level - 1
    /\ pc' = "idle" /\ job' = NoJob
    /\ UNCHANGED <<s, sstableIndex, TIME, disk, pending, ghost>>

---------------------------------------------------------------------------
Init ==
    /\ s = NoData
    /\ sstableIndex = [l \in Level |-> <<>>]
    /\ files = {} /\ dirs = {}
    /\ totalLevel = -1 /\ TIME = 0
    /\ pc = "idle" /\ job = NoJob /\ pending = <<>>
    /\ clock = 0 /\ latest = NoData /\ flushed = NoData
    /\ restarts = 0

(* The steps of a call that is under way.                                  *)
Continue ==
    \/ CompactNothing \/ CompactStart \/ WriteOutput \/ DeleteInput \/ CompactEnd
    \/ FinishPut \/ FinishClose
    \/ ResetFile \/ ResetDir \/ ResetDone
    \/ OpenLevel \/ OpenDone

(* The calls of clients, and what happens to the process.                  *)
Call ==
    \/ \E k \in Key : Del(k) \/ \E v \in Value : Put(k, v)
    \/ Reset \/ CloseEmpty \/ Close

Next == Continue \/ Call \/ OpenStart \/ Crash

Spec == Init /\ [][Next]_vars

(* A call that is under way goes on: the thread that made it runs.         *)
FairSpec == Spec /\ WF_vars(Continue)

---------------------------------------------------------------------------
(* Properties.                                                             *)

(* The variables keep their types.                                         *)
TypeOK ==
    /\ s \in Data /\ latest \in Data /\ flushed \in Data
    /\ sstableIndex \in [Level -> Seq(Table)]
    /\ files \subseteq File
    /\ dirs \subseteq Level
    /\ totalLevel \in -1..MaxLevel
    /\ TIME \in Nat /\ clock \in Nat /\ restarts \in Nat
    /\ pc \in Place
    /\ job \in [level : 0..(MaxLevel + 1), rest : Data, doomed : SUBSET Name]
    /\ pending \in Seq([key : Key, val : Value \cup {DEL}])

Quiet == pc = "idle"

(* Between calls, get(k) returns what the last put of k stored, and the    *)
(* empty string after del(k) or reset(): the memtable, the order of the    *)
(* levels and the early exit from a level (kvstore.cc:163-206) never hide  *)
(* the newest version, whatever was flushed and merged before.             *)
GetReturnsLatest == Quiet => \A k \in Key : Get(k) = Visible(latest[k])

(* Between calls, scan(k1, k2) gives each key of the range its last value  *)
(* and omits deleted keys: picking by timestamp across all levels          *)
(* (kvstore.cc:345-421) finds the same version as get's level by level.    *)
ScanFindsLatest ==
    Quiet => \A k1, k2 \in Key : \A k \in Key \cap (k1..k2) :
                 ScanResult(k1, k2)[k] = Visible(latest[k])

(* Between calls, no two tables of a level below the first have ranges     *)
(* that meet, which is what lets get leave a level at the first table      *)
(* whose range holds the key (kvstore.cc:184-188).                         *)
LevelsDisjoint ==
    Quiet => \A l \in 1..totalLevel : \A i, j \in DOMAIN sstableIndex[l] :
                 i # j => ~\E k \in Key : /\ InRange(sstableIndex[l][i], k)
                                          /\ InRange(sstableIndex[l][j], k)

(* Between calls, of two tables that hold a key the one in the shallower   *)
(* level has the newer version: get stops at the first level that has it.  *)
ShallowerIsNewer ==
    Quiet => \A f, g \in files : \A k \in Keys(f.data) \cap Keys(g.data) :
                 f.level < g.level => f.data[k].ver >= g.data[k].ver

(* Of two tables that hold a key, the one with the larger timestamp never  *)
(* has the older version: compaction (kvstore.cc:530-592) and scan take    *)
(* the version of the largest timestamp for the newest.                    *)
TimeIsAge ==
    \A f, g \in files : \A k \in Keys(f.data) \cap Keys(g.data) :
        f.time < g.time => f.data[k].ver <= g.data[k].ver

(* Between calls the cache has exactly the heads of the files on the disk, *)
(* each once, under the level of its directory, and every directory is     *)
(* within totalLevel: nothing is left over and nothing is out of reach.    *)
CacheMatchesDisk ==
    Quiet =>
        /\ dirs = 0..totalLevel
        /\ \A l \in Level :
              /\ ToSet(sstableIndex[l]) = {HeadOf(f) : f \in {g \in files : g.level = l}}
              /\ Len(sstableIndex[l]) = Cardinality({g \in files : g.level = l})

(* No durable value is lost: at every step, within a compaction as well,   *)
(* each key whose last flushed write is a value has that value in some     *)
(* file.  A kill between any two steps finds it there.                     *)
FlushedIsOnDisk ==
    \A k \in Key : Visible(flushed[k]) # NoEntry =>
        \E f \in files : f.data[k] = flushed[k]

(* A file on the disk never changes: no table is written under the name of *)
(* another one, although TIME restarts from the files a new process reads. *)
FilesAreImmutable ==
    [][\A f \in files : \A g \in files' : NameOf(f) = NameOf(g) => f = g]_vars

(* Every table fits the 2 MB that loadFile's buffer and the format allow.  *)
TablesFit == \A f \in files : Keys(f.data) # {} /\ Bytes(f.data) + HeadBytes <= MAXSIZE

(* Between calls the deepest level holds no deletion marker: a merge into  *)
(* it drops them (kvstore.cc:551-558), so that deleted data ends somewhere.*)
DeepestHasNoMarkers ==
    Quiet /\ totalLevel > 0 =>
        \A f \in files : f.level = totalLevel => \A k \in Key : f.data[k].val # DEL

Up == pc \notin {"down", "open"}

(* While the process runs, no file lies below totalLevel: get, scan, reset *)
(* and delsstable walk the levels up to totalLevel only, and would never   *)
(* see such a file.                                                        *)
EveryFileInReach == Up => \A f \in files : f.level <= totalLevel

(* While the process runs, no file is younger than TIME, and while a merge *)
(* is writing none has the timestamp of its next table: the next ++TIME    *)
(* (kvstore.cc:521, sstable.h:47) names a file that does not exist, after  *)
(* a restart as well.                                                      *)
NamesAreFresh ==
    /\ Up => \A f \in files : f.time <= TIME
    /\ pc = "write" => \A f \in files : f.time < TIME

(* Every call returns: however deep a flush cascades, the compaction ends  *)
(* and the store is between calls again or the process is down.            *)
CallsReturn == []<>(pc \in {"idle", "down"})
(* The store is a dictionary.  Between calls the dictionary is what get    *)
(* reads through the memtable and the levels; while a call is under way    *)
(* nobody reads, and the call takes effect when its last step is done.     *)
API == INSTANCE KVStoreAPI WITH
    dict    <- [k \in Key |-> IF Quiet THEN Get(k).ver ELSE Visible(latest[k]).ver],
    durable <- [k \in Key |-> Visible(flushed[k]).ver]

(* Every behaviour of the store is one of the dictionary of kvstore_api.h: *)
(* a flush, a compaction, a reopening of the files change nothing that a   *)
(* client can read, del removes only its key and fails when it is absent.  *)
ImplementsAPI == API!Spec
---------------------------------------------------------------------------
(* The parts of the inductive invariant of LsmTreeProofs.                  *)

(* A compaction under way has a level to write to, and the level counter   *)
(* of a call is back at the first level when the call is over.             *)
JobOK ==
    /\ pc \in {"idle", "finish", "down"} => job.level = 0
    /\ pc = "compact" => job.level \in Level
    /\ pc \in {"write", "delete"} => job.level + 1 \in Level

(* The directories are those of the first levels, except while reset takes *)
(* them away from the first one on.  They hold the files, and the          *)
(* directory a compaction writes to is one of them.                        *)
DirsOK ==
    /\ \A f \in files : f.level \in dirs
    /\ pc # "reset" => \A l \in dirs : \A m \in Level : m < l => m \in dirs
    /\ pc = "reset" => \A l \in dirs : job.level <= l
    /\ Up => \A l \in dirs : l <= totalLevel
    /\ pc = "compact" => job.level \in dirs
    /\ pc \in {"write", "delete"} => job.level + 1 \in dirs

(* The constructor has seen the timestamps of the levels it has read.      *)
TimesRead == pc = "open" => \A f \in files : f.level < job.level => f.time <= TIME

(* The destructor is at work: its table is on the disk and not in the      *)
(* cache.                                                                  *)
Closing == pending = <<>> /\ pc \in {"compact", "write", "delete", "finish"}

(* The levels of which the process has read nothing, or has nothing.       *)
Unread(l) == pc = "down" \/ (pc = "open" /\ l >= job.level) \/ (Up /\ l > totalLevel)

(* Of a level that is read, the cache has the heads of all files and of no *)
(* others, each once; reset empties the levels one by one, and the         *)
(* constructor fills them one by one.                                      *)
HeadsIn(F, l) == {HeadOf(f) : f \in {g \in F : g.level = l}}

Each(idx) == \A i, j \in DOMAIN idx : NameOf(idx[i]) = NameOf(idx[j]) => i = j

LevelCached(l) ==
    /\ Each(sstableIndex[l])
    /\ Unread(l) => sstableIndex[l] = <<>>
    /\ (pc = "reset" /\ l = job.level) \/ ToSet(sstableIndex[l]) \subseteq HeadsIn(files, l)
    /\ Unread(l) \/ (Closing /\ l = 0) \/ HeadsIn(files, l) \subseteq ToSet(sstableIndex[l])

CacheOK == \A l \in Level : LevelCached(l)

(* The directories are those of the levels in use, no two files have the   *)
(* same time, and only a put that flushed has something left to insert.    *)
DirsExact ==
    /\ Up => dirs = (IF pc = "reset" THEN job.level ELSE 0)..totalLevel
    /\ pc = "open" => 0..(job.level - 1) \subseteq dirs
TimesDiffer == \A f, g \in files : f.time = g.time => f = g
PendingOK == pc \in {"idle", "reset", "down", "open"} => pending = <<>>

(* A fact of the run as well: all the parts at once.                       *)
InductiveInv ==
    /\ JobOK /\ PendingOK /\ DirsOK /\ DirsExact
    /\ TimesRead /\ NamesAreFresh /\ TimesDiffer /\ CacheOK
=============================================================================
