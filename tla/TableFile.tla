----------------------------- MODULE TableFile -----------------------------
(***************************************************************************)
(* From the memtable to a table file and back: the constructor of sstable  *)
(* from a skip list, insert, putFile, loadFileHead, loadFile, searchOffset *)
(* (src/sstable.h, src/sstable.cpp, src/sstablehead.cpp, src/bloom.cpp)    *)
(* and fetchString, on one table at a time.                                *)
(*                                                                         *)
(* A value is a sequence of bytes, and the values of a file follow one     *)
(* another without separators; the header is a record.  The filter is the  *)
(* set of its bits.  A rewrite is a merge of one table: loaded, inserted   *)
(* into a new table and written again.                                     *)
(***************************************************************************)
EXTENDS SkipList, SequencesExt

CONSTANTS
    Hash,           \* for each key the bits of the filter it sets
    MaxRewrites     \* bound: the rewrites

ASSUME HashAssumption == DOMAIN Hash = Key
ASSUME RewritesAssumption == MaxRewrites \in Nat

(* A value is a sequence of bytes.                                         *)
ASSUME BytesAssumption == Value \subseteq Seq(Nat)

VARIABLES
    table,          \* the table in memory
    file,           \* its file, empty if there is none
    at,             \* the node a flush is at, HEAD outside of it
    row,            \* the entry a rewrite is at, 0 outside of it
    flushed,        \* history: the map the file was made from
    rewrites

tables == <<table, file, at, row, flushed, rewrites>>
tablevars == <<skipvars, tables>>

HeadSize == 10240 + 32      \* the filter and four numbers
NUL == 0

NewTable ==
    [cnt |-> 0, minV |-> INF, maxV |-> 0, filter |-> {}, index |-> <<>>, data |-> <<>>,
     curpos |-> 0, bytes |-> HeadSize]

TableInit == Init /\ table = NewTable /\ file = <<>> /\ at = HEAD /\ row = 0 /\ flushed = val /\ rewrites = 0

---------------------------------------------------------------------------
(* The format.                                                             *)

(* An entry at the end of a table; its offset is where its value ends.     *)
Entered(t, k, v) ==
    [t EXCEPT !.cnt = @ + 1, !.curpos = @ + Len(v),
              !.minV = IF k < @ THEN k ELSE @, !.maxV = IF k > @ THEN k ELSE @,
              !.filter = @ \cup Hash[k],
              !.index = Append(@, [key |-> k, offset |-> t.curpos + Len(v)]),
              !.data = Append(@, v)]

insertEntry(t, k, v) == [Entered(t, k, v) EXCEPT !.bytes = @ + 12 + Len(v)]

putFile(t) ==
    [cnt |-> t.cnt, minV |-> t.minV, maxV |-> t.maxV, filter |-> t.filter,
     index |-> t.index, content |-> FlattenSeq(t.data)]

OffsetOf(f, p) == IF p = 0 THEN 0 ELSE f.index[p].offset

loadFileHead(f) ==
    [cnt |-> f.cnt, minV |-> f.minV, maxV |-> f.maxV, filter |-> f.filter,
     index |-> f.index, bytes |-> HeadSize + 12 * f.cnt + OffsetOf(f, f.cnt)]

(* A value passes through a C string: what follows a NUL byte is lost.     *)
CString(v) ==
    LET nuls == {p \in 1..Len(v) : v[p] = NUL}
    IN  IF nuls = {} THEN v ELSE SubSeq(v, 1, (CHOOSE p \in nuls : \A q \in nuls : p <= q) - 1)

fetchString(f, offset, len) == SubSeq(f.content, offset + 1, offset + len)

loadData(f) ==
    [p \in 1..f.cnt |-> CString(fetchString(f, OffsetOf(f, p - 1), OffsetOf(f, p) - OffsetOf(f, p - 1)))]

(* The filter, then the binary search; the place in the index, or the      *)
(* offset and the length; or -1.                                           *)
MayHold(h, k) == Hash[k] \subseteq h.filter

lowerBound(h, k) ==
    LET ps == {p \in 1..Len(h.index) : h.index[p].key >= k}
    IN  IF ps = {} THEN Len(h.index) + 1 ELSE CHOOSE p \in ps : \A q \in ps : p <= q

(* Mutant of searchIndex: the key found is not compared.                   *)
searchIndexBlindly(h, k) ==
    LET p == lowerBound(h, k) IN IF ~MayHold(h, k) \/ p > Len(h.index) THEN -1 ELSE p

searchIndex(h, k) ==
    LET p == lowerBound(h, k)
    IN  IF ~MayHold(h, k) \/ p > Len(h.index) \/ h.index[p].key # k THEN -1 ELSE p

searchOffset(h, k) ==
    LET p == searchIndex(h, k)
    IN  IF p = -1 THEN <<-1, 0>>
        ELSE <<OffsetOf(h, p - 1), OffsetOf(h, p) - OffsetOf(h, p - 1)>>

(* What get returns for a key when this table is the only one.             *)
Lookup(h, k) ==
    LET found == searchOffset(h, k)
    IN  IF k < h.minV \/ k > h.maxV \/ found[1] = -1 THEN None
        ELSE fetchString(file, found[1], found[2])

---------------------------------------------------------------------------
(* A flush takes the nodes of the lowest level one by one, a rewrite the   *)
(* entries of the file.                                                    *)
Settled == at = HEAD /\ row = 0

Flush ==
    /\ pc = "idle" /\ Settled /\ nxt[0][HEAD] # INF
    /\ table' = [NewTable EXCEPT !.bytes = HeadSize + bytes]
    /\ at' = nxt[0][HEAD]
    /\ UNCHANGED <<skipvars, file, row, flushed, rewrites>>

FlushEntry ==
    /\ at \in Key
    /\ table' = Entered(table, at, val[at])
    /\ at' = nxt[0][at]
    /\ UNCHANGED <<skipvars, file, row, flushed, rewrites>>

FlushEnd ==
    /\ at = INF /\ at' = HEAD
    /\ file' = putFile(table) /\ flushed' = val /\ rewrites' = 0
    /\ Clear
    /\ UNCHANGED <<locals, pc, arg, result, calls, table, row>>

Rewrite ==
    /\ pc = "idle" /\ Settled /\ file # <<>> /\ rewrites < MaxRewrites
    /\ table' = NewTable /\ row' = 1
    /\ UNCHANGED <<skipvars, file, at, flushed, rewrites>>

RewriteEntry ==
    /\ row > 0 /\ row <= file.cnt
    /\ table' = insertEntry(table, file.index[row].key, loadData(file)[row])
    /\ row' = row + 1
    /\ UNCHANGED <<skipvars, file, at, flushed, rewrites>>

RewriteEnd ==
    /\ row > 0 /\ row = file.cnt + 1 /\ row' = 0
    /\ file' = putFile(table) /\ rewrites' = rewrites + 1
    /\ UNCHANGED <<skipvars, table, at, flushed>>

Working ==
    \/ Step /\ UNCHANGED tables
    \/ FlushEntry \/ FlushEnd \/ RewriteEntry \/ RewriteEnd

TableNext ==
    \/ Settled /\ SkipNext /\ UNCHANGED tables
    \/ Flush \/ FlushEntry \/ FlushEnd \/ Rewrite \/ RewriteEntry \/ RewriteEnd

TableSpec == TableInit /\ [][TableNext]_tablevars /\ WF_tablevars(Working)

---------------------------------------------------------------------------
(* Properties.                                                             *)

(* What a key reads as in the file is the value it had in the memtable,    *)
(* and after a merge what is left of it up to a NUL byte; a key without a  *)
(* value is not found, whatever the filter says                            *)
(* (sstable.h:43-63, sstable.cpp:12-97, sstablehead.cpp:68-85).            *)
LookupFindsFlushed ==
    file # <<>> /\ Settled =>
        \A k \in Key :
            Lookup(table, k) = IF rewrites = 0 THEN flushed[k] ELSE CString(flushed[k])

(* The head that is kept in memory is the one a later process reads from   *)
(* the file, and its size is that of the file, although insert, the        *)
(* memtable and loadFileHead each count it in their own way                *)
(* (skiplist.cpp:37-49, sstable.cpp:130, sstablehead.cpp:40-46).           *)
HeadDescribesFile ==
    file # <<>> /\ Settled =>
        /\ \A field \in DOMAIN loadFileHead(file) : loadFileHead(file)[field] = table[field]
        /\ table.bytes = HeadSize + 12 * Len(file.index) + Len(file.content)

(* Every call, flush and rewrite comes to its end: the lists have no cycle *)
(* and end at the tail (skiplist.cpp:31, 56, 79, 84, sstable.h:53).        *)
CallsReturn == pc # "idle" \/ ~Settled ~> pc = "idle" /\ Settled

---------------------------------------------------------------------------
(* The inductive invariant of SkipListProofs.                              *)

TableType ==
    [cnt : Nat, minV : Nat, maxV : Nat, filter : SUBSET UNION {Hash[k] : k \in Key},
     index : Seq([key : Key, offset : Nat]), data : Seq(Seq(Nat)), curpos : Nat, bytes : Int]

(* The entries of a table are in ascending order, within its bounds and in *)
(* its filter; an offset is where the value ends in the file.              *)
TableOK(t) ==
    /\ t \in TableType /\ Len(t.index) = t.cnt /\ Len(t.data) = t.cnt
    /\ \A p, q \in 1..t.cnt : p < q => t.index[p].key < t.index[q].key
    /\ \A p \in 1..t.cnt :
           /\ Hash[t.index[p].key] \subseteq t.filter
           /\ t.minV <= t.index[p].key /\ t.index[p].key <= t.maxV
           /\ t.index[p].offset = OffsetOf(t, p - 1) + Len(t.data[p]) /\ t.index[p].offset <= t.curpos
           /\ SubSeq(FlattenSeq(t.data), OffsetOf(t, p - 1) + 1, OffsetOf(t, p)) = t.data[p]
    /\ t.curpos = OffsetOf(t, t.cnt) /\ Len(FlattenSeq(t.data)) = t.curpos

(* The table has the values of a map for a set of keys.                    *)
Lists(t, keys, m) ==
    /\ {t.index[p].key : p \in 1..t.cnt} = keys
    /\ \A p \in 1..t.cnt : t.data[p] = m[t.index[p].key]

(* What a table with these entries takes in a file, counted as the bytes.  *)
Cells(keys, m) == UNION {{k} \X (1..12 + Len(m[k])) : k \in keys}
Weight(keys, m) == Cardinality(Cells(keys, m))

(* The table that a file was made from.                                    *)
Loaded(f) ==
    [cnt |-> f.cnt, minV |-> f.minV, maxV |-> f.maxV, filter |-> f.filter, index |-> f.index,
     data |-> [p \in 1..f.cnt |-> fetchString(f, OffsetOf(f, p - 1), OffsetOf(f, p) - OffsetOf(f, p - 1))],
     curpos |-> OffsetOf(f, f.cnt), bytes |-> HeadSize + 12 * f.cnt + OffsetOf(f, f.cnt)]

HistoryOK ==
    /\ flushed \in [Key -> Value \cup {None}] /\ rewrites \in 0..MaxRewrites
    /\ at \in Node /\ row \in Nat /\ (~Settled => pc = "idle")

BytesOK == IsFiniteSet(Cells(on[0], val)) /\ bytes = Weight(on[0], val)

FlushOK ==
    at # HEAD =>
        LET before == {k \in on[0] : k < at}
        IN  /\ row = 0 /\ at \in on[0] \cup {INF}
            /\ TableOK(table) /\ Lists(table, before, val)
            /\ table.bytes = HeadSize + bytes
            /\ 12 * table.cnt + table.curpos = Weight(before, val)

RewriteOK ==
    row # 0 =>
        /\ at = HEAD /\ file # <<>> /\ rewrites < MaxRewrites
        /\ TableOK(table) /\ table.cnt = row - 1 /\ row - 1 <= file.cnt
        /\ \A p \in 1..table.cnt :
               table.index[p].key = file.index[p].key /\ table.data[p] = loadData(file)[p]
        /\ table.bytes = HeadSize + 12 * table.cnt + table.curpos

FileOK ==
    file # <<>> =>
        /\ TableOK(Loaded(file)) /\ putFile(Loaded(file)) = file
        /\ Lists(Loaded(file), {k \in Key : flushed[k] # None},
                 [k \in Key |-> IF rewrites = 0 THEN flushed[k] ELSE CString(flushed[k])])
        /\ Settled => table = Loaded(file)

TableInv == SkipInv /\ HistoryOK /\ BytesOK /\ FlushOK /\ RewriteOK /\ FileOK
=============================================================================
