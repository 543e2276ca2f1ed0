------------------------------ MODULE SkipList ------------------------------
(***************************************************************************)
(* The memtable (src/skiplist.h, src/skiplist.cpp): nodes linked on        *)
(* several levels between head and tail, walked one link a step.           *)
(*                                                                         *)
(* There is one node for a key, so a node is its key.  The random level of *)
(* a new node is any level.  A client's key is below that of the tail.     *)
(***************************************************************************)
EXTENDS Integers, Sequences

CONSTANTS
    Key, INF,       \* the clients' keys, and the key of the tail
    Value, None,    \* the values, and the empty string
    MAX_LEVEL,      \* how many levels a node has at most
    MaxCalls        \* bound: the calls of insert, search, scan and reset

HEAD == -1          \* the head, below every key
Nil == -2           \* no node: the null pointer
Node == Key \cup {HEAD, INF}
Level == 0..MAX_LEVEL - 1

ASSUME SkipKeysAssumption ==
    Key \subseteq Nat /\ INF \in Nat /\ \A k \in Key : k < INF
ASSUME SkipValuesAssumption ==
    None = <<>> /\ None \notin Value /\ \A v \in Value : Len(v) \in Nat
ASSUME SkipLevelsAssumption == MAX_LEVEL \in Nat /\ MAX_LEVEL >= 2
ASSUME SkipBoundsAssumption == MaxCalls \in Nat

VARIABLES
    nxt,            \* for each level and node the next node
    val,            \* the value of each node
    bytes, curMaxL, \* the size of the table it will become; the highest level in use
    on,             \* history: the nodes in the list of each level
    pc,             \* "idle", or where in a call the program is
    arg,            \* the arguments of the call: keys, string, level of a new node
    cur, i,         \* its local variables: a node, a level,
    update,         \* the last node before the key on each level,
    list,           \* and what a scan has collected
    result, calls

Found(k, v) == [of |-> "search", key |-> k, is |-> v]
Listed(k1, k2, pairs) == [of |-> "scan", key |-> k1, key2 |-> k2, is |-> pairs]
NoResult == [of |-> "nothing"]

nodes == <<nxt, val, bytes, curMaxL, on>>
locals == <<cur, i, update, list>>
skipvars == <<nodes, locals, pc, arg, result, calls>>

Arg(k, k2, v, level) == [key |-> k, key2 |-> k2, str |-> v, level |-> level]
NoArg == Arg(HEAD, HEAD, None, 0)
Empty == [l \in Level |-> [x \in Node |-> IF x = HEAD THEN INF ELSE Nil]]

Init ==
    /\ nxt = Empty /\ val = [x \in Key |-> None]
    /\ bytes = 0 /\ curMaxL = 1 /\ on = [l \in Level |-> {}]
    /\ pc = "idle" /\ arg = NoArg
    /\ cur = HEAD /\ i = 0 /\ update = [l \in Level |-> Nil] /\ list = <<>>
    /\ result = NoResult /\ calls = 0

---------------------------------------------------------------------------
(* The walk all calls begin with: on each level, from the highest in use,  *)
(* to the last node before the key.                                        *)
Call(name, a) ==
    /\ pc = "idle" /\ calls < MaxCalls
    /\ pc' = name /\ arg' = a /\ calls' = calls + 1
    /\ cur' = HEAD /\ list' = <<>> /\ update' = [l \in Level |-> Nil]
    /\ UNCHANGED <<val, bytes, result>>

Ahead == nxt[i][cur]

Walk ==
    /\ pc \in {"insert", "search", "scan"} /\ Ahead < arg.key
    /\ cur' = Ahead
    /\ UNCHANGED <<nodes, i, update, list, pc, arg, result, calls>>

(* The walk is over on a level that does not end the call.                 *)
Down == i' = i - 1 /\ UNCHANGED <<nodes, cur, list, arg, result, calls>>

(* The end of a call; its local variables are gone.                        *)
Return ==
    /\ pc' = "idle" /\ arg' = NoArg
    /\ cur' = HEAD /\ i' = 0 /\ update' = [l \in Level |-> Nil] /\ list' = <<>>
    /\ UNCHANGED calls

---------------------------------------------------------------------------
(* insert.  A level above those in use takes the highest one in use along: *)
(* its list is emptied, and its nodes stay on the levels below.            *)
insert(k, v, level) ==
    /\ Call("insert", Arg(k, HEAD, v, level))
    /\ LET cleared == IF level > curMaxL THEN curMaxL..level ELSE {}
       IN  /\ nxt' = [l \in Level |->
                          IF l \in cleared THEN [nxt[l] EXCEPT ![HEAD] = INF] ELSE nxt[l]]
           /\ on' = [l \in Level |-> IF l \in cleared THEN {} ELSE on[l]]
    /\ curMaxL' = IF level > curMaxL THEN level ELSE curMaxL
    /\ i' = curMaxL'

Remember ==
    /\ pc = "insert" /\ Ahead > arg.key
    /\ update' = [update EXCEPT ![i] = cur]
    /\ \/ i > 0 /\ Down /\ UNCHANGED pc
       \/ i = 0 /\ pc' = "link" /\ UNCHANGED <<nodes, cur, i, list, arg, result, calls>>

(* Mutant of Overwrite: the size of the old value is not taken off.        *)
OverwriteAddsSize ==
    /\ pc = "insert" /\ Ahead = arg.key
    /\ bytes' = bytes + Len(arg.str)
    /\ val' = [val EXCEPT ![arg.key] = arg.str]
    /\ Return
    /\ UNCHANGED <<nxt, curMaxL, on, result>>

Overwrite ==
    /\ pc = "insert" /\ Ahead = arg.key
    /\ bytes' = bytes - Len(val[arg.key]) + Len(arg.str)
    /\ val' = [val EXCEPT ![arg.key] = arg.str]
    /\ Return
    /\ UNCHANGED <<nxt, curMaxL, on, result>>

(* Mutant of Linked: the two assignments are swapped.                      *)
LinkedToItself(l) == [nxt[l] EXCEPT ![arg.key] = arg.key, ![update[l]] = arg.key]

(* The new node between the node of `update` and the next, on its levels.  *)
Linked(l) == [nxt[l] EXCEPT ![arg.key] = nxt[l][update[l]], ![update[l]] = arg.key]

Link ==
    /\ pc = "link"
    /\ nxt' = [l \in Level |-> IF l <= arg.level THEN Linked(l) ELSE nxt[l]]
    /\ on' = [l \in Level |-> IF l <= arg.level THEN on[l] \cup {arg.key} ELSE on[l]]
    /\ val' = [val EXCEPT ![arg.key] = arg.str]
    /\ bytes' = bytes + 12 + Len(arg.str)
    /\ Return
    /\ UNCHANGED <<curMaxL, result>>

---------------------------------------------------------------------------
(* search, scan and reset.                                                 *)
search(k) ==
    /\ Call("search", Arg(k, HEAD, None, 0))
    /\ i' = curMaxL /\ UNCHANGED <<nxt, curMaxL, on>>

Hit ==
    /\ pc = "search" /\ Ahead = arg.key
    /\ result' = Found(arg.key, val[arg.key]) /\ Return
    /\ UNCHANGED nodes

(* Mutant of Miss: the search gives up on the first level without the key. *)
MissAbove ==
    /\ pc = "search" /\ Ahead > arg.key
    /\ result' = Found(arg.key, None) /\ Return /\ UNCHANGED nodes

Miss ==
    /\ pc = "search" /\ Ahead > arg.key
    /\ \/ i > 0 /\ Down /\ UNCHANGED <<update, pc>>
       \/ i = 0 /\ result' = Found(arg.key, None) /\ Return /\ UNCHANGED nodes

scan(k1, k2) ==
    /\ Call("scan", Arg(k1, k2, None, 0))
    /\ i' = curMaxL /\ UNCHANGED <<nxt, curMaxL, on>>

Reach ==
    /\ pc = "scan" /\ Ahead >= arg.key
    /\ \/ i > 0 /\ Down /\ UNCHANGED <<update, pc>>
       \/ /\ i = 0 /\ pc' = "collect" /\ cur' = Ahead
          /\ UNCHANGED <<nodes, i, update, list, arg, result, calls>>

(* The list from the first key that is not below key1 to the last one that *)
(* is not above key2.                                                      *)
Collect ==
    /\ pc = "collect" /\ cur <= arg.key2
    /\ list' = IF cur >= arg.key THEN Append(list, <<cur, val[cur]>>) ELSE list
    /\ cur' = nxt[0][cur]
    /\ UNCHANGED <<nodes, i, update, pc, arg, result, calls>>

EndScan ==
    /\ pc = "collect" /\ cur > arg.key2
    /\ result' = Listed(arg.key, arg.key2, list) /\ Return
    /\ UNCHANGED nodes

(* Mutant of Clear: only the levels below the highest one in use.          *)
ClearBelowTop ==
    /\ nxt' = [l \in Level |-> IF l < curMaxL THEN Empty[l] ELSE nxt[l]]
    /\ on' = [l \in Level |-> {}]
    /\ val' = [x \in Key |-> None]
    /\ bytes' = 0 /\ curMaxL' = 1

Clear ==
    /\ nxt' = Empty /\ on' = [l \in Level |-> {}]
    /\ val' = [x \in Key |-> None]
    /\ bytes' = 0 /\ curMaxL' = 1

reset ==
    /\ pc = "idle" /\ calls < MaxCalls
    /\ Clear /\ calls' = calls + 1
    /\ UNCHANGED <<locals, pc, arg, result>>

Step ==
    \/ Walk \/ Remember \/ Overwrite \/ Link
    \/ Hit \/ Miss \/ Reach \/ Collect \/ EndScan

SkipNext ==
    \/ \E k \in Key, v \in Value, level \in Level : insert(k, v, level)
    \/ \E k \in Key : search(k)
    \/ \E k1, k2 \in Key : scan(k1, k2)
    \/ reset
    \/ Step

SkipSpec == Init /\ [][SkipNext]_skipvars

---------------------------------------------------------------------------
(* Properties.                                                             *)

(* The variables keep their types: no pointer the walk follows is null.    *)
SkipTypeOK ==
    /\ nxt \in [Level -> [Node -> Node \cup {Nil}]] /\ val \in [Key -> Value \cup {None}]
    /\ bytes \in Int /\ curMaxL \in Level \ {0}
    /\ on \in [Level -> SUBSET Key]
    /\ pc \in {"idle", "insert", "link", "search", "scan", "collect"}
    /\ arg.key \in Key \cup {HEAD} /\ arg.key2 \in Key \cup {HEAD}
    /\ arg.str \in Value \cup {None} /\ arg.level \in Level
    /\ cur \in Node /\ i \in Level
    /\ update \in [Level -> Node \cup {Nil}] /\ list \in Seq(Key \X Value)
    /\ calls \in 0..MaxCalls

(* Each level is a list of its nodes in ascending order from head to tail: *)
(* the next node is the next larger one of the level.                      *)
IsNext(l, x, y) ==
    /\ y \in on[l] \cup {INF} /\ x < y
    /\ \A z \in on[l] : z <= x \/ y <= z

ListsSorted == \A l \in Level : \A x \in on[l] \cup {HEAD} : IsNext(l, x, nxt[l][x])

(* A node of a level is on the levels below it, and none is above the      *)
(* highest level in use.                                                   *)
LevelsNested ==
    /\ \A l, m \in Level : m <= l => on[l] \subseteq on[m]
    /\ \A l \in Level : l > curMaxL => on[l] = {}

(* Where a call is: before its key, on the list of its level; the nodes it *)
(* remembers are the last ones before the key.                             *)
WalkOK ==
    /\ pc \in {"insert", "search", "scan"} =>
           arg.key \in Key /\ cur \in on[i] \cup {HEAD} /\ cur < arg.key
    /\ pc = "scan" => arg.key2 \in Key /\ list = <<>>
    /\ pc = "collect" =>
           arg.key \in Key /\ arg.key2 \in Key /\ cur \in on[0] \cup {INF} /\ cur >= arg.key
    /\ pc \in {"insert", "link"} =>
           /\ arg.key \in Key /\ arg.str \in Value /\ arg.level <= curMaxL
           /\ \A l \in Level : l <= curMaxL /\ (l > i \/ pc = "link") =>
                  /\ update[l] \in on[l] \cup {HEAD} /\ update[l] < arg.key
                  /\ nxt[l][update[l]] > arg.key

(* A key has a value when it is on the lowest level.                       *)
ValuesOnList == \A k \in Key : val[k] # None <=> k \in on[0]

(* What a scan has collected: the pairs from key1 up to its position.      *)
CollectedOK ==
    pc = "collect" =>
        /\ \A j \in 1..Len(list) - 1 : list[j][1] < list[j + 1][1]
        /\ {list[j] : j \in 1..Len(list)} =
               {<<k, val[k]>> : k \in {k \in on[0] : arg.key <= k /\ k < cur /\ k <= arg.key2}}

SkipInv ==
    SkipTypeOK /\ ListsSorted /\ LevelsNested /\ WalkOK /\ ValuesOnList /\ CollectedOK

(* The skip list is the sorted map that the store takes it for: insert,    *)
(* search, scan and reset, whatever levels its nodes have                  *)
(* (skiplist.cpp:19-116).                                                  *)
Map == INSTANCE SortedMap WITH map <- val
ImplementsMap == Map!Spec
=============================================================================
