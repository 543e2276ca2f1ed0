--------------------------- MODULE SkipListProofs ---------------------------
(***************************************************************************)
(* Theorems about SkipList and TableFile for any keys, values, number of   *)
(* levels and number of calls: the lists keep their shape, every walk      *)
(* stays on them, and the skip list implements the sorted map, with        *)
(* flushes or without; a table file gives every value back, and its head   *)
(* and its size are those in memory.                                       *)
(***************************************************************************)
EXTENDS TableFile, FiniteSetTheorems, WellFoundedInduction, TLAPS

(* Numbers: keys lie between the head and the tail.                        *)
LEMMA NodesAreNumbers ==
    /\ Node \subseteq Int /\ Key \subseteq Node /\ HEAD \in Node /\ INF \in Node
    /\ Nil \notin Node /\ \A k \in Key : HEAD < k /\ k < INF
    /\ HEAD < INF /\ HEAD \notin Key /\ INF \notin Key
BY SkipKeysAssumption DEF Node, HEAD, Nil

LEMMA LevelsAreNumbers == Level \subseteq Nat /\ 0 \in Level /\ 1 \in Level
BY SkipLevelsAssumption DEF Level

LEMMA LevelBelow ==
    ASSUME NEW l \in Level, l > 0
    PROVE  l - 1 \in Level
BY SkipLevelsAssumption DEF Level

(* What a walk passes is not the tail.                                     *)
LEMMA NotTail ==
    ASSUME NEW k \in Key, NEW x, x < k
    PROVE  x # INF
BY NodesAreNumbers

(* The skip list starts in the invariant.                                  *)
LEMMA InitSkipInv == Init => SkipInv
<1> SUFFICES ASSUME Init PROVE SkipInv
  OBVIOUS
<1> USE NodesAreNumbers, LevelsAreNumbers DEF Init
<1>1. SkipTypeOK
  <2>1. nxt \in [Level -> [Node -> Node \cup {Nil}]] /\ val \in [Key -> Value \cup {None}]
    BY DEF Empty
  <2>2. on \in [Level -> SUBSET Key] /\ update \in [Level -> Node \cup {Nil}] /\ list \in Seq(Key \X Value)
    OBVIOUS
  <2>3. arg.key = HEAD /\ arg.key2 = HEAD /\ arg.str = None /\ arg.level = 0
    BY DEF NoArg, Arg
  <2> QED
    BY <2>1, <2>2, <2>3, SkipBoundsAssumption DEF SkipTypeOK
<1>2. ListsSorted
  BY DEF ListsSorted, IsNext, Empty
<1>3. LevelsNested /\ ValuesOnList
  BY DEF LevelsNested, ValuesOnList
<1>4. WalkOK /\ CollectedOK
  BY DEF WalkOK, CollectedOK
<1> QED
  BY <1>1, <1>2, <1>3, <1>4 DEF SkipInv

(* The node ahead of a walk is the next one of its level.                  *)
LEMMA AheadIsNext ==
    ASSUME SkipInv, pc \in {"insert", "search", "scan"}
    PROVE  /\ Ahead \in on[i] \cup {INF} /\ Ahead \in Node /\ cur < Ahead
           /\ \A z \in on[i] : z <= cur \/ Ahead <= z
           /\ i \in Level /\ on[i] \subseteq Key /\ on[i] \subseteq on[0]
<1>1. i \in Level /\ cur \in on[i] \cup {HEAD} /\ on[i] \subseteq Key
  BY DEF SkipInv, SkipTypeOK, WalkOK
<1>2. IsNext(i, cur, Ahead)
  BY <1>1 DEF SkipInv, ListsSorted, Ahead
<1>3. on[i] \subseteq on[0]
  BY <1>1, LevelsAreNumbers DEF SkipInv, LevelsNested
<1> QED
  BY <1>1, <1>2, <1>3, NodesAreNumbers DEF IsNext

(* A step that leaves the nodes alone leaves the lists as they are.        *)
LEMMA ListsStay ==
    ASSUME SkipInv, UNCHANGED nodes
    PROVE  ListsSorted' /\ LevelsNested' /\ ValuesOnList'
BY DEF SkipInv, nodes, ListsSorted, IsNext, LevelsNested, ValuesOnList

(* A call that ends leaves nothing to say about its walk.                  *)
LEMMA ReturnEnds ==
    ASSUME SkipInv, Return
    PROVE  /\ pc' = "idle" /\ WalkOK' /\ CollectedOK'
           /\ arg'.key = HEAD /\ arg'.key2 = HEAD /\ arg'.str = None /\ arg'.level = 0
           /\ cur' \in Node /\ i' \in Level /\ update' \in [Level -> Node \cup {Nil}]
           /\ list' \in Seq(Key \X Value) /\ calls' \in 0..MaxCalls
<1>1. pc' = "idle" /\ WalkOK' /\ CollectedOK'
  BY DEF Return, WalkOK, CollectedOK
<1>2. arg'.key = HEAD /\ arg'.key2 = HEAD /\ arg'.str = None /\ arg'.level = 0
  BY DEF Return, NoArg, Arg
<1>3. update' \in [Level -> Node \cup {Nil}] /\ list' \in Seq(Key \X Value)
  BY DEF Return
<1> QED
  BY <1>1, <1>2, <1>3, NodesAreNumbers, LevelsAreNumbers DEF Return, SkipInv, SkipTypeOK

(* A search that ends, and a scan.                                         *)
LEMMA ReturnStep ==
    ASSUME SkipInv, Return, UNCHANGED nodes
    PROVE  SkipInv'
<1>1. SkipTypeOK'
  <2>1. /\ nxt' \in [Level -> [Node -> Node \cup {Nil}]] /\ val' \in [Key -> Value \cup {None}]
        /\ bytes' \in Int /\ curMaxL' \in Level \ {0} /\ on' \in [Level -> SUBSET Key]
    BY DEF SkipInv, SkipTypeOK, nodes
  <2> QED
    BY <2>1, ReturnEnds, LevelsAreNumbers DEF SkipTypeOK
<1> QED
  BY <1>1, ReturnEnds, ListsStay DEF SkipInv

---------------------------------------------------------------------------
(* The calls.                                                              *)
LEMMA CallTypes ==
    ASSUME SkipInv, NEW name, NEW k \in Key, NEW k2 \in Key \cup {HEAD},
           NEW v \in Value \cup {None}, NEW level \in Level, Call(name, Arg(k, k2, v, level))
    PROVE  /\ arg'.key = k /\ arg'.key2 = k2 /\ arg'.str = v /\ arg'.level = level
           /\ cur' = HEAD /\ list' = <<>> /\ list' \in Seq(Key \X Value)
           /\ update' \in [Level -> Node \cup {Nil}] /\ calls' \in 0..MaxCalls
           /\ val' = val /\ bytes' = bytes /\ pc' = name
BY SkipBoundsAssumption DEF Call, Arg, SkipInv, SkipTypeOK

LEMMA InsertStep ==
    ASSUME SkipInv, NEW k \in Key, NEW v \in Value, NEW level \in Level, insert(k, v, level)
    PROVE  SkipInv'
<1> USE NodesAreNumbers, LevelsAreNumbers
<1> DEFINE cleared == IF level > curMaxL THEN curMaxL..level ELSE {}
<1>1. /\ arg'.key = k /\ arg'.key2 = HEAD /\ arg'.str = v /\ arg'.level = level
      /\ cur' = HEAD /\ list' = <<>> /\ list' \in Seq(Key \X Value)
      /\ update' \in [Level -> Node \cup {Nil}] /\ calls' \in 0..MaxCalls
      /\ val' = val /\ bytes' = bytes /\ pc' = "insert"
  BY CallTypes DEF insert
<1>2. /\ nxt' = [l \in Level |->
                     IF l \in cleared THEN [nxt[l] EXCEPT ![HEAD] = INF] ELSE nxt[l]]
      /\ on' = [l \in Level |-> IF l \in cleared THEN {} ELSE on[l]]
  BY DEF insert
<1>3. curMaxL \in Level \ {0} /\ curMaxL' \in Level \ {0} /\ i' = curMaxL' /\ curMaxL <= curMaxL' /\ level <= curMaxL'
  BY DEF insert, SkipInv, SkipTypeOK
<1>4. SkipTypeOK'
  <2>1. nxt' \in [Level -> [Node -> Node \cup {Nil}]]
    BY <1>2 DEF SkipInv, SkipTypeOK
  <2>2. on' \in [Level -> SUBSET Key]
    BY <1>2 DEF SkipInv, SkipTypeOK
  <2> QED
    BY <1>1, <1>3, <2>1, <2>2 DEF SkipInv, SkipTypeOK
<1>5. ListsSorted'
  <2> SUFFICES ASSUME NEW l \in Level, NEW x \in on'[l] \cup {HEAD} PROVE IsNext(l, x, nxt[l][x])'
    BY DEF ListsSorted
  <2>1. CASE l \in cleared
    BY <2>1, <1>2 DEF IsNext, SkipInv, SkipTypeOK
  <2>2. CASE l \notin cleared
    BY <2>2, <1>2 DEF IsNext, SkipInv, SkipTypeOK, ListsSorted
  <2> QED
    BY <2>1, <2>2
<1>6. LevelsNested'
  <2>1. ASSUME NEW l \in Level, NEW m \in Level, m <= l PROVE on'[l] \subseteq on'[m]
    <3>1. CASE m \notin cleared
      BY <3>1, <2>1, <1>2 DEF SkipInv, LevelsNested
    <3>2. CASE m \in cleared
      <4>1. l \in cleared \/ l > curMaxL
        BY <3>2, <2>1, <1>3
      <4> QED
        BY <4>1, <1>2 DEF SkipInv, LevelsNested
    <3> QED
      BY <3>1, <3>2
  <2>2. ASSUME NEW l \in Level, l > curMaxL' PROVE on'[l] = {}
    BY <2>2, <1>2, <1>3 DEF SkipInv, LevelsNested
  <2> QED
    BY <2>1, <2>2 DEF LevelsNested
<1>7. ValuesOnList'
  <2>1. on'[0] = on[0]
    BY <1>2, <1>3
  <2>2. val' = val
    BY <1>1
  <2>3. ValuesOnList
    BY DEF SkipInv
  <2> QED
    BY <2>1, <2>2, <2>3, Zenon DEF ValuesOnList
<1>8. WalkOK' /\ CollectedOK'
  BY <1>1, <1>3 DEF WalkOK, CollectedOK
<1> QED
  BY <1>4, <1>5, <1>6, <1>7, <1>8 DEF SkipInv

LEMMA SearchStep ==
    ASSUME SkipInv, NEW k \in Key, search(k)
    PROVE  SkipInv'
<1> USE NodesAreNumbers, LevelsAreNumbers
<1>1. /\ arg'.key = k /\ arg'.key2 = HEAD /\ arg'.str = None /\ arg'.level = 0
      /\ cur' = HEAD /\ list' \in Seq(Key \X Value)
      /\ update' \in [Level -> Node \cup {Nil}] /\ calls' \in 0..MaxCalls
      /\ val' = val /\ bytes' = bytes /\ pc' = "search"
  BY CallTypes DEF search
<1>2. UNCHANGED nodes /\ i' = curMaxL
  BY <1>1 DEF search, nodes
<1>3. SkipTypeOK'
  BY <1>1, <1>2 DEF SkipInv, SkipTypeOK, nodes
<1>4. WalkOK' /\ CollectedOK'
  BY <1>1, <1>2 DEF WalkOK, CollectedOK
<1> QED
  BY <1>2, <1>3, <1>4, ListsStay DEF SkipInv

LEMMA ScanStep ==
    ASSUME SkipInv, NEW k1 \in Key, NEW k2 \in Key, scan(k1, k2)
    PROVE  SkipInv'
<1> USE NodesAreNumbers, LevelsAreNumbers
<1>1. /\ arg'.key = k1 /\ arg'.key2 = k2 /\ arg'.str = None /\ arg'.level = 0
      /\ cur' = HEAD /\ list' = <<>> /\ list' \in Seq(Key \X Value)
      /\ update' \in [Level -> Node \cup {Nil}] /\ calls' \in 0..MaxCalls
      /\ val' = val /\ bytes' = bytes /\ pc' = "scan"
  BY CallTypes DEF scan
<1>2. UNCHANGED nodes /\ i' = curMaxL
  BY <1>1 DEF scan, nodes
<1>3. SkipTypeOK'
  BY <1>1, <1>2 DEF SkipInv, SkipTypeOK, nodes
<1>4. WalkOK' /\ CollectedOK'
  BY <1>1, <1>2 DEF WalkOK, CollectedOK
<1> QED
  BY <1>2, <1>3, <1>4, ListsStay DEF SkipInv

LEMMA ClearStep ==
    ASSUME SkipInv, Clear, pc = "idle", UNCHANGED <<locals, pc, arg>>, calls' \in 0..MaxCalls
    PROVE  SkipInv'
<1> USE NodesAreNumbers, LevelsAreNumbers
<1>1. /\ nxt' = Empty /\ on' = [l \in Level |-> {}] /\ val' = [x \in Key |-> None]
      /\ bytes' = 0 /\ curMaxL' = 1 /\ pc' = "idle"
  BY DEF Clear
<1>2. SkipTypeOK'
  <2>1. nxt' \in [Level -> [Node -> Node \cup {Nil}]] /\ val' \in [Key -> Value \cup {None}]
    BY <1>1 DEF Empty
  <2>2. calls' \in 0..MaxCalls
    OBVIOUS
  <2>3. UNCHANGED <<cur, i, update, list, arg>>
    BY DEF locals
  <2>4. /\ arg'.key \in Key \cup {HEAD} /\ arg'.key2 \in Key \cup {HEAD}
        /\ arg'.str \in Value \cup {None} /\ arg'.level \in Level
        /\ cur' \in Node /\ i' \in Level
        /\ update' \in [Level -> Node \cup {Nil}] /\ list' \in Seq(Key \X Value)
    BY <2>3 DEF SkipInv, SkipTypeOK
  <2>5. bytes' \in Int /\ curMaxL' \in Level \ {0} /\ on' \in [Level -> SUBSET Key]
    BY <1>1
  <2> QED
    BY <1>1, <2>1, <2>2, <2>4, <2>5 DEF SkipTypeOK
<1>3. ListsSorted'
  BY <1>1 DEF ListsSorted, IsNext, Empty
<1>4. LevelsNested' /\ ValuesOnList'
  BY <1>1 DEF LevelsNested, ValuesOnList
<1>5. WalkOK' /\ CollectedOK'
  BY <1>1 DEF WalkOK, CollectedOK
<1> QED
  BY <1>2, <1>3, <1>4, <1>5 DEF SkipInv

LEMMA ResetStep ==
    ASSUME SkipInv, reset
    PROVE  SkipInv'
<1>1. /\ Clear /\ pc = "idle" /\ calls < MaxCalls /\ calls' = calls + 1
      /\ UNCHANGED <<locals, pc, arg>>
  BY DEF reset
<1>2. calls' \in 0..MaxCalls
  BY <1>1, SkipBoundsAssumption DEF SkipInv, SkipTypeOK
<1> QED
  BY <1>1, <1>2, ClearStep

---------------------------------------------------------------------------
(* The walks.                                                              *)
LEMMA WalkStep ==
    ASSUME SkipInv, Walk
    PROVE  SkipInv'
<1> USE NodesAreNumbers, LevelsAreNumbers
<1>1. /\ pc \in {"insert", "search", "scan"} /\ Ahead < arg.key /\ cur' = Ahead
      /\ UNCHANGED <<nodes, i, update, list, pc, arg, result, calls>>
  BY DEF Walk
<1>2. Ahead \in on[i] /\ Ahead \in Node
  <2>1. arg.key \in Key
    BY <1>1 DEF SkipInv, WalkOK
  <2>2. Ahead \in on[i] \cup {INF} /\ Ahead \in Node
    BY <1>1, AheadIsNext
  <2>3. Ahead # INF
    BY <2>1, <1>1, NotTail, Zenon
  <2> QED
    BY <2>2, <2>3
<1>3. SkipTypeOK'
  BY <1>1, <1>2 DEF SkipInv, SkipTypeOK, nodes
<1>4. WalkOK'
  BY <1>1, <1>2 DEF SkipInv, WalkOK, nodes
<1>5. CollectedOK'
  BY <1>1 DEF CollectedOK
<1> QED
  BY <1>1, <1>3, <1>4, <1>5, ListsStay DEF SkipInv

LEMMA RememberStep ==
    ASSUME SkipInv, Remember
    PROVE  SkipInv'
<1> USE NodesAreNumbers, LevelsAreNumbers
<1>1. /\ pc = "insert" /\ Ahead > arg.key /\ update' = [update EXCEPT ![i] = cur]
      /\ UNCHANGED <<nodes, cur, list, arg, result, calls>>
      /\ (i > 0 /\ i' = i - 1 /\ pc' = pc) \/ (i = 0 /\ i' = i /\ pc' = "link")
  BY DEF Remember, Down
<1>2. i \in Level /\ i' \in Level /\ cur \in Node
  BY <1>1, LevelBelow DEF SkipInv, SkipTypeOK
<1>3. SkipTypeOK'
  <2>1. update' \in [Level -> Node \cup {Nil}]
    BY <1>1, <1>2 DEF SkipInv, SkipTypeOK
  <2> QED
    BY <1>1, <1>2, <2>1 DEF SkipInv, SkipTypeOK, nodes
<1>4. WalkOK'
  <2>1. cur \in on[i] \cup {HEAD} /\ cur < arg.key /\ nxt[i][cur] > arg.key /\ arg.key \in Key
    BY <1>1 DEF SkipInv, WalkOK, Ahead
  <2>2. pc' = "insert" => cur \in on[i'] \cup {HEAD}
    BY <1>1, <1>2, <2>1 DEF SkipInv, LevelsNested
  <2>3. ASSUME NEW l \in Level, l <= curMaxL, l > i' \/ pc' = "link"
        PROVE  /\ update'[l] \in on[l] \cup {HEAD} /\ update'[l] < arg.key
               /\ nxt[l][update'[l]] > arg.key
    <3>1. CASE l = i
      BY <3>1, <1>1, <1>2, <2>1 DEF SkipInv, SkipTypeOK
    <3>2. CASE l # i
      <4>1. l > i
        BY <3>2, <2>3, <1>1, <1>2
      <4>2. update'[l] = update[l]
        BY <3>2, <1>1, <1>2 DEF SkipInv, SkipTypeOK
      <4> QED
        BY <4>1, <4>2, <1>1, <2>3 DEF SkipInv, WalkOK
    <3> QED
      BY <3>1, <3>2
  <2>4. arg.str \in Value /\ arg.level <= curMaxL
    BY <1>1 DEF SkipInv, WalkOK
  <2> QED
    BY <1>1, <2>1, <2>2, <2>3, <2>4 DEF WalkOK, nodes
<1>5. CollectedOK'
  BY <1>1 DEF CollectedOK
<1> QED
  BY <1>1, <1>3, <1>4, <1>5, ListsStay DEF SkipInv

(* An insert that ends at a node with its key.                             *)
LEMMA OverwriteStep ==
    ASSUME SkipInv, Overwrite
    PROVE  SkipInv'
<1> USE NodesAreNumbers, LevelsAreNumbers
<1>1. /\ pc = "insert" /\ Ahead = arg.key
      /\ bytes' = bytes - Len(val[arg.key]) + Len(arg.str)
      /\ val' = [val EXCEPT ![arg.key] = arg.str]
      /\ Return /\ UNCHANGED <<nxt, curMaxL, on>>
  BY DEF Overwrite
<1>2. arg.key \in Key /\ arg.str \in Value /\ arg.key \in on[0]
  BY <1>1, AheadIsNext DEF SkipInv, WalkOK
<1>3. Len(arg.str) \in Nat /\ Len(val[arg.key]) \in Nat
  <2>1. val[arg.key] \in Value \cup {None}
    BY <1>2 DEF SkipInv, SkipTypeOK
  <2> QED
    BY <1>2, <2>1, SkipValuesAssumption
<1>4. SkipTypeOK'
  <2>1. /\ nxt' \in [Level -> [Node -> Node \cup {Nil}]] /\ val' \in [Key -> Value \cup {None}]
        /\ curMaxL' \in Level \ {0} /\ on' \in [Level -> SUBSET Key]
    BY <1>1, <1>2 DEF SkipInv, SkipTypeOK
  <2>2. bytes' \in Int
    BY <1>1, <1>3 DEF SkipInv, SkipTypeOK
  <2> QED
    BY <1>1, <2>1, <2>2, ReturnEnds DEF SkipTypeOK
<1>5. ListsSorted' /\ LevelsNested'
  BY <1>1 DEF SkipInv, ListsSorted, IsNext, LevelsNested
<1>6. ValuesOnList'
  <2>1. ASSUME NEW x \in Key PROVE val'[x] # None <=> x \in on[0]
    <3>1. CASE x = arg.key
      BY <3>1, <1>1, <1>2, SkipValuesAssumption DEF SkipInv, SkipTypeOK
    <3>2. CASE x # arg.key
      BY <3>2, <1>1 DEF SkipInv, SkipTypeOK, ValuesOnList
    <3> QED
      BY <3>1, <3>2
  <2>2. on' = on
    BY <1>1
  <2> QED
    BY <2>1, <2>2, Zenon DEF ValuesOnList
<1> QED
  BY <1>1, <1>4, <1>5, <1>6, ReturnEnds DEF SkipInv

(* A key between two neighbours p and q of a list splits their gap, and no *)
(* other one.                                                              *)
LEMMA KeySplitsGap ==
    ASSUME NEW l \in Level, on[l] \subseteq Key, NEW k \in Key,
           NEW p \in on[l] \cup {HEAD}, NEW q, IsNext(l, p, q), p < k, k < q
    PROVE  /\ \A z \in on[l] \cup {k} : z <= p \/ k <= z
           /\ \A z \in on[l] \cup {k} : z <= k \/ q <= z
<1>1. p \in Int /\ q \in Int /\ k \in Int /\ on[l] \subseteq Int
  BY NodesAreNumbers DEF IsNext
<1> QED
  BY <1>1 DEF IsNext

LEMMA KeyLeavesGap ==
    ASSUME NEW l \in Level, on[l] \subseteq Key, NEW k \in Key,
           NEW p \in on[l] \cup {HEAD}, NEW q, IsNext(l, p, q), p < k, k < q,
           NEW x \in on[l] \cup {HEAD}, NEW y, IsNext(l, x, y), x # p
    PROVE  k <= x \/ y <= k
<1>1. /\ p \in Int /\ q \in Int /\ k \in Int /\ x \in Int /\ y \in Int
      /\ HEAD \in Int /\ \A z \in on[l] : HEAD < z
  BY NodesAreNumbers DEF IsNext
<1>2. x <= p \/ q <= x
  BY <1>1 DEF IsNext
<1>3. p <= x \/ y <= p
  BY <1>1 DEF IsNext
<1> QED
  BY <1>1, <1>2, <1>3

(* An insert that ends at a node with a larger key, and links a new one.   *)
LEMMA NodeLinked ==
    ASSUME SkipInv, NEW k \in Key, NEW top \in Level, NEW str \in Value,
           top <= curMaxL, curMaxL' = curMaxL,
           \A l \in Level : l <= top =>
               update[l] \in on[l] \cup {HEAD} /\ update[l] < k /\ nxt[l][update[l]] > k,
           nxt' = [l \in Level |->
                       IF l <= top
                         THEN [nxt[l] EXCEPT ![k] = nxt[l][update[l]], ![update[l]] = k]
                         ELSE nxt[l]],
           on' = [l \in Level |-> IF l <= top THEN on[l] \cup {k} ELSE on[l]],
           val' = [val EXCEPT ![k] = str],
           bytes' = bytes + 12 + Len(str)
    PROVE  /\ nxt' \in [Level -> [Node -> Node \cup {Nil}]] /\ val' \in [Key -> Value \cup {None}]
           /\ bytes' \in Int /\ on' \in [Level -> SUBSET Key]
           /\ ListsSorted' /\ LevelsNested' /\ ValuesOnList'
<1> USE NodesAreNumbers, LevelsAreNumbers
<1> DEFINE Split(l) == [nxt[l] EXCEPT ![k] = nxt[l][update[l]], ![update[l]] = k]
<1>1. on \in [Level -> SUBSET Key] /\ nxt \in [Level -> [Node -> Node \cup {Nil}]]
      /\ curMaxL \in Level \ {0}
  BY DEF SkipInv, SkipTypeOK
<1>2. ASSUME NEW l \in Level, l <= top
      PROVE  /\ update[l] \in on[l] \cup {HEAD} /\ update[l] < k
             /\ IsNext(l, update[l], nxt[l][update[l]]) /\ k < nxt[l][update[l]]
             /\ nxt[l][update[l]] \in Node
  <2>1. update[l] \in on[l] \cup {HEAD} /\ update[l] < k /\ nxt[l][update[l]] > k
    BY <1>2
  <2>2. IsNext(l, update[l], nxt[l][update[l]])
    BY <2>1 DEF SkipInv, ListsSorted
  <2>3. nxt[l][update[l]] \in Node
    BY <1>1, <2>2 DEF IsNext
  <2> QED
    BY <2>1, <2>2, <2>3
<1>3. /\ nxt' \in [Level -> [Node -> Node \cup {Nil}]] /\ val' \in [Key -> Value \cup {None}]
      /\ bytes' \in Int /\ on' \in [Level -> SUBSET Key]
  <2>1. nxt' \in [Level -> [Node -> Node \cup {Nil}]]
    BY <1>1, <1>2
  <2>2. on' \in [Level -> SUBSET Key] /\ val' \in [Key -> Value \cup {None}]
    BY <1>1 DEF SkipInv, SkipTypeOK
  <2>3. bytes' \in Int
    BY SkipValuesAssumption DEF SkipInv, SkipTypeOK
  <2> QED
    BY <2>1, <2>2, <2>3
<1>4. ListsSorted'
  <2> SUFFICES ASSUME NEW l \in Level, NEW x \in on'[l] \cup {HEAD} PROVE IsNext(l, x, nxt[l][x])'
    BY DEF ListsSorted
  <2>1. CASE l > top
    <3>1. on'[l] = on[l] /\ nxt'[l] = nxt[l]
      BY <2>1
    <3> QED
      BY <3>1 DEF SkipInv, ListsSorted, IsNext
  <2>2. CASE l <= top
    <3>1. on'[l] = on[l] \cup {k} /\ nxt'[l] = Split(l) /\ on[l] \subseteq Key
      BY <2>2, <1>1
    <3>2. /\ update[l] \in on[l] \cup {HEAD} /\ update[l] < k
          /\ nxt[l][update[l]] \in on[l] \cup {INF} /\ k < nxt[l][update[l]]
          /\ IsNext(l, update[l], nxt[l][update[l]])
      BY <2>2, <1>2 DEF IsNext
    <3>3. nxt[l] \in [Node -> Node \cup {Nil}] /\ update[l] \in Node /\ k \in Node
      BY <1>1, <3>1, <3>2
    <3>4. CASE x = k
      <4>1. nxt'[l][x] = nxt[l][update[l]]
        BY <3>1, <3>2, <3>3, <3>4
      <4>2. \A z \in on[l] \cup {k} : z <= k \/ nxt[l][update[l]] <= z
        BY <3>1, <3>2, KeySplitsGap
      <4> QED
        BY <4>1, <4>2, <3>1, <3>2, <3>4 DEF IsNext
    <3>5. CASE x = update[l]
      <4>1. nxt'[l][x] = k
        BY <3>1, <3>3, <3>5
      <4>2. \A z \in on[l] \cup {k} : z <= update[l] \/ k <= z
        BY <3>1, <3>2, KeySplitsGap
      <4> QED
        BY <4>1, <4>2, <3>1, <3>2, <3>5 DEF IsNext
    <3>6. CASE x # k /\ x # update[l]
      <4>1. x \in on[l] \cup {HEAD} /\ x \in Node
        BY <3>1, <3>6
      <4>2. nxt'[l][x] = nxt[l][x]
        BY <3>1, <3>3, <3>6, <4>1
      <4>3. IsNext(l, x, nxt[l][x])
        BY <4>1 DEF SkipInv, ListsSorted
      <4>4. k <= x \/ nxt[l][x] <= k
        BY <4>1, <4>3, <3>1, <3>2, <3>6, KeyLeavesGap, Zenon
      <4> QED
        BY <4>1, <4>2, <4>3, <4>4, <3>1 DEF IsNext
    <3> QED
      BY <3>4, <3>5, <3>6
  <2> QED
    BY <2>1, <2>2
<1>5. LevelsNested'
  <2>1. ASSUME NEW l \in Level, NEW m \in Level, m <= l PROVE on'[l] \subseteq on'[m]
    BY <2>1, <1>1 DEF SkipInv, LevelsNested
  <2>2. ASSUME NEW l \in Level, l > curMaxL' PROVE on'[l] = {}
    BY <2>2, <1>1 DEF SkipInv, LevelsNested
  <2> QED
    BY <2>1, <2>2 DEF LevelsNested
<1>6. ValuesOnList'
  <2>1. on'[0] = on[0] \cup {k}
    OBVIOUS
  <2>2. ASSUME NEW x \in Key PROVE val'[x] # None <=> x \in on'[0]
    <3>1. CASE x = k
      BY <3>1, <2>1, SkipValuesAssumption DEF SkipInv, SkipTypeOK
    <3>2. CASE x # k
      BY <3>2, <2>1 DEF SkipInv, SkipTypeOK, ValuesOnList
    <3> QED
      BY <3>1, <3>2
  <2> QED
    BY <2>2, Zenon DEF ValuesOnList
<1> QED
  BY <1>3, <1>4, <1>5, <1>6

LEMMA LinkStep ==
    ASSUME SkipInv, Link
    PROVE  SkipInv'
<1>1. /\ pc = "link" /\ Return /\ curMaxL' = curMaxL
      /\ nxt' = [l \in Level |->
                     IF l <= arg.level
                       THEN [nxt[l] EXCEPT ![arg.key] = nxt[l][update[l]], ![update[l]] = arg.key]
                       ELSE nxt[l]]
      /\ on' = [l \in Level |-> IF l <= arg.level THEN on[l] \cup {arg.key} ELSE on[l]]
      /\ val' = [val EXCEPT ![arg.key] = arg.str]
      /\ bytes' = bytes + 12 + Len(arg.str)
  BY DEF Link, Linked
<1>2. /\ arg.key \in Key /\ arg.str \in Value /\ arg.level \in Level /\ arg.level <= curMaxL
      /\ \A l \in Level : l <= curMaxL =>
             update[l] \in on[l] \cup {HEAD} /\ update[l] < arg.key /\ nxt[l][update[l]] > arg.key
  BY <1>1 DEF SkipInv, SkipTypeOK, WalkOK
<1>3. SUFFICES
          ASSUME NEW k \in Key, NEW top \in Level, NEW str \in Value,
                 k = arg.key, top = arg.level, str = arg.str
          PROVE  SkipInv'
  BY <1>2
<1>4. top <= curMaxL
  BY <1>2, <1>3
<1>5. \A l \in Level : l <= top => l <= curMaxL
  <2>1. curMaxL \in Nat /\ top \in Nat /\ \A l \in Level : l \in Nat
    BY LevelsAreNumbers DEF SkipInv, SkipTypeOK
  <2> QED
    BY <1>4, <2>1
<1>6. \A l \in Level : l <= top =>
          update[l] \in on[l] \cup {HEAD} /\ update[l] < k /\ nxt[l][update[l]] > k
  BY <1>2, <1>3, <1>5
<1>7. /\ nxt' = [l \in Level |->
                     IF l <= top
                       THEN [nxt[l] EXCEPT ![k] = nxt[l][update[l]], ![update[l]] = k]
                       ELSE nxt[l]]
      /\ on' = [l \in Level |-> IF l <= top THEN on[l] \cup {k} ELSE on[l]]
      /\ val' = [val EXCEPT ![k] = str]
      /\ bytes' = bytes + 12 + Len(str)
  BY <1>1, <1>3
<1>8. /\ nxt' \in [Level -> [Node -> Node \cup {Nil}]] /\ val' \in [Key -> Value \cup {None}]
      /\ bytes' \in Int /\ on' \in [Level -> SUBSET Key]
      /\ ListsSorted' /\ LevelsNested' /\ ValuesOnList'
  BY <1>1, <1>4, <1>6, <1>7, NodeLinked
<1>9. SkipTypeOK'
  <2>1. curMaxL' \in Level \ {0}
    BY <1>1 DEF SkipInv, SkipTypeOK
  <2> QED
    BY <1>1, <1>8, <2>1, ReturnEnds, LevelsAreNumbers, Zenon DEF SkipTypeOK
<1> QED
  BY <1>1, <1>8, <1>9, ReturnEnds DEF SkipInv

---------------------------------------------------------------------------
(* The steps of a search and of a scan.                                    *)
LEMMA DownStep ==
    ASSUME SkipInv, Down, pc \in {"search", "scan"}, i > 0, UNCHANGED <<update, pc>>
    PROVE  SkipInv'
<1>1. i \in Level /\ i' = i - 1 /\ i' \in Level /\ UNCHANGED nodes
  BY LevelBelow DEF Down, SkipInv, SkipTypeOK
<1>2. SkipTypeOK'
  BY <1>1 DEF Down, SkipInv, SkipTypeOK, nodes
<1>3. on[i] \subseteq on[i']
  BY <1>1, LevelsAreNumbers DEF SkipInv, LevelsNested
<1>4. WalkOK'
  BY <1>1, <1>3 DEF Down, SkipInv, WalkOK, nodes
<1>5. CollectedOK'
  BY DEF CollectedOK
<1> QED
  BY <1>1, <1>2, <1>4, <1>5, ListsStay DEF SkipInv

LEMMA SearchEnds ==
    ASSUME SkipInv, Hit \/ Miss
    PROVE  SkipInv'
<1>1. CASE Hit
  BY <1>1, ReturnStep DEF Hit
<1>2. CASE Miss
  BY <1>2, ReturnStep, DownStep DEF Miss
<1> QED
  BY <1>1, <1>2

(* The scan finds its first node.                                          *)
LEMMA ReachStep ==
    ASSUME SkipInv, Reach
    PROVE  SkipInv'
<1>1. CASE i > 0
  BY <1>1, DownStep DEF Reach
<1>2. CASE ~ (i > 0)
  <2>1. /\ pc = "scan" /\ Ahead >= arg.key /\ i = 0 /\ pc' = "collect" /\ cur' = Ahead
        /\ UNCHANGED <<nodes, i, update, list, arg, result, calls>>
    BY <1>2 DEF Reach
  <2>2. /\ Ahead \in on[0] \cup {INF} /\ Ahead \in Node /\ cur < Ahead
        /\ \A z \in on[0] : z <= cur \/ Ahead <= z
    BY <2>1, AheadIsNext
  <2>3. arg.key \in Key /\ arg.key2 \in Key /\ cur < arg.key /\ cur \in Node /\ list = <<>>
    BY <2>1 DEF SkipInv, WalkOK, SkipTypeOK
  <2>4. SkipTypeOK'
    BY <2>1, <2>2 DEF SkipInv, SkipTypeOK, nodes
  <2>5. WalkOK'
    BY <2>1, <2>2, <2>3 DEF WalkOK, nodes
  <2>6. CollectedOK'
    <3>1. {z \in on[0] : arg.key <= z /\ z < Ahead /\ z <= arg.key2} = {}
      <4> SUFFICES ASSUME NEW k \in Key, NEW z \in on[0], k = arg.key, k <= z, z < Ahead
                   PROVE  FALSE
        BY <2>3
      <4>1. on[0] \subseteq Key
        BY LevelsAreNumbers DEF SkipInv, SkipTypeOK
      <4>2. z \in Int /\ k \in Int /\ cur \in Int /\ Ahead \in Int
        BY <4>1, <2>2, <2>3, NodesAreNumbers
      <4>3. cur < k
        BY <2>3
      <4>4. z <= cur \/ Ahead <= z
        BY <2>2
      <4> QED
        BY <4>2, <4>3, <4>4
    <3>2. list' = <<>> /\ Len(list') = 0
      BY <2>1, <2>3
    <3> QED
      BY <3>1, <3>2, <2>1 DEF CollectedOK, nodes
  <2> QED
    BY <2>1, <2>4, <2>5, <2>6, ListsStay DEF SkipInv
<1> QED
  BY <1>1, <1>2
(* A pair with a larger key at the end of a listing.                       *)
Ascending(pairs) == \A j \in 1..Len(pairs) - 1 : pairs[j][1] < pairs[j + 1][1]
Members(pairs) == {pairs[j] : j \in 1..Len(pairs)}

LEMMA ListingGrows ==
    ASSUME NEW pairs \in Seq(Key \X Value), NEW k \in Key, NEW v \in Value,
           Ascending(pairs), \A j \in 1..Len(pairs) : pairs[j][1] < k
    PROVE  /\ Append(pairs, <<k, v>>) \in Seq(Key \X Value)
           /\ Ascending(Append(pairs, <<k, v>>))
           /\ Members(Append(pairs, <<k, v>>)) = Members(pairs) \cup {<<k, v>>}
<1> DEFINE longer == Append(pairs, <<k, v>>)
<1>1. longer \in Seq(Key \X Value) /\ Len(pairs) \in Nat /\ Len(longer) = Len(pairs) + 1
  OBVIOUS
<1>2. /\ \A j \in 1..Len(pairs) : longer[j] = pairs[j]
      /\ longer[Len(pairs) + 1] = <<k, v>>
  OBVIOUS
<1> HIDE DEF longer
<1>3. Ascending(longer)
  <2> SUFFICES ASSUME NEW j \in 1..Len(pairs) PROVE longer[j][1] < longer[j + 1][1]
    BY <1>1 DEF Ascending
  <2>1. CASE j = Len(pairs)
    BY <2>1, <1>1, <1>2
  <2>2. CASE j # Len(pairs)
    <3>1. j \in 1..Len(pairs) - 1 /\ j + 1 \in 1..Len(pairs)
      BY <2>2, <1>1
    <3> QED
      BY <3>1, <1>2 DEF Ascending
  <2> QED
    BY <2>1, <2>2
<1>4. Members(longer) = Members(pairs) \cup {<<k, v>>}
  <2>1. 1..Len(longer) = 1..Len(pairs) \cup {Len(pairs) + 1}
    BY <1>1
  <2> QED
    BY <2>1, <1>2 DEF Members
<1> QED
  BY <1>1, <1>3, <1>4 DEF longer

(* The scan takes a node along.                                            *)
LEMMA CollectStep ==
    ASSUME SkipInv, Collect
    PROVE  SkipInv'
<1>1. /\ pc = "collect" /\ cur <= arg.key2 /\ cur' = nxt[0][cur]
      /\ list' = IF cur >= arg.key THEN Append(list, <<cur, val[cur]>>) ELSE list
      /\ UNCHANGED <<nodes, i, update, pc, arg, result, calls>>
  BY DEF Collect
<1>2. arg.key \in Key /\ arg.key2 \in Key /\ cur \in on[0] \cup {INF} /\ cur >= arg.key
  BY <1>1 DEF SkipInv, WalkOK
<1>3. on[0] \subseteq Key /\ list \in Seq(Key \X Value) /\ val \in [Key -> Value \cup {None}]
  BY LevelsAreNumbers DEF SkipInv, SkipTypeOK
<1>0. SUFFICES ASSUME NEW k1 \in Key, NEW k2 \in Key, k1 = arg.key, k2 = arg.key2
               PROVE  SkipInv'
  BY <1>2
<1>4. cur <= k2 /\ k1 <= cur /\ cur \in on[0] \cup {INF}
  BY <1>0, <1>1, <1>2
<1>5. cur \in on[0] /\ cur \in Key
  BY <1>3, <1>4, NodesAreNumbers
<1>6. IsNext(0, cur, cur')
  BY <1>1, <1>5, LevelsAreNumbers DEF SkipInv, ListsSorted
<1>7. cur' \in on[0] \cup {INF} /\ cur < cur' /\ \A z \in on[0] : z <= cur \/ cur' <= z
  BY <1>6 DEF IsNext
<1>8. val[cur] \in Value
  BY <1>3, <1>5 DEF SkipInv, ValuesOnList
<1> DEFINE Passed(x) == {z \in on[0] : k1 <= z /\ z < x /\ z <= k2}
<1>9. Passed(cur') = Passed(cur) \cup {cur}
  <2>1. on[0] \subseteq Int /\ cur \in Int /\ cur' \in Int /\ k1 \in Int /\ k2 \in Int
    BY <1>3, <1>5, <1>7, NodesAreNumbers
  <2> QED
    BY <2>1, <1>4, <1>5, <1>7
<1>10. Ascending(list) /\ Members(list) = {<<z, val[z]>> : z \in Passed(cur)}
  BY <1>0, <1>1 DEF SkipInv, CollectedOK, Ascending, Members
<1>11. \A j \in 1..Len(list) : list[j][1] < cur
  <2> SUFFICES ASSUME NEW j \in 1..Len(list) PROVE list[j][1] < cur
    OBVIOUS
  <2>1. list[j] \in Members(list)
    BY DEF Members
  <2>2. PICK z \in Passed(cur) : list[j] = <<z, val[z]>>
    BY <2>1, <1>10
  <2> QED
    BY <2>2
<1>12. list' = Append(list, <<cur, val[cur]>>)
  BY <1>1, <1>2
<1>13. /\ list' \in Seq(Key \X Value) /\ Ascending(list')
       /\ Members(list') = Members(list) \cup {<<cur, val[cur]>>}
  <2> DEFINE longer == Append(list, <<cur, val[cur]>>)
  <2>1. /\ longer \in Seq(Key \X Value) /\ Ascending(longer)
        /\ Members(longer) = Members(list) \cup {<<cur, val[cur]>>}
    BY <1>3, <1>5, <1>8, <1>10, <1>11, ListingGrows
  <2>2. list' = longer
    BY <1>12
  <2> HIDE DEF longer
  <2> QED
    BY <2>1, <2>2
<1>14. Members(list') = {<<z, val[z]>> : z \in Passed(cur')}
  BY <1>9, <1>10, <1>13
<1>15. CollectedOK'
  BY <1>0, <1>1, <1>13, <1>14 DEF CollectedOK, Ascending, Members, nodes
<1>16. k1 <= cur'
  <2>1. k1 \in Int /\ cur \in Int /\ cur' \in Int
    BY <1>3, <1>5, <1>7, NodesAreNumbers
  <2> QED
    BY <2>1, <1>4, <1>7
<1>17. WalkOK'
  BY <1>0, <1>1, <1>2, <1>7, <1>16 DEF WalkOK, nodes
<1>18. SkipTypeOK'
  <2>1. cur' \in Node
    BY <1>3, <1>7, NodesAreNumbers
  <2> QED
    BY <1>1, <1>13, <2>1 DEF SkipInv, SkipTypeOK, nodes
<1> QED
  BY <1>1, <1>15, <1>17, <1>18, ListsStay DEF SkipInv

LEMMA StutterStep ==
    ASSUME SkipInv, UNCHANGED skipvars
    PROVE  SkipInv'
<1>1. UNCHANGED <<nodes, cur, i, update, list, pc, arg, result, calls>>
  BY DEF skipvars, locals
<1>2. SkipTypeOK' /\ WalkOK' /\ CollectedOK'
  BY <1>1 DEF SkipInv, SkipTypeOK, WalkOK, CollectedOK, nodes
<1> QED
  BY <1>1, <1>2, ListsStay DEF SkipInv

LEMMA SkipInvStep == SkipInv /\ [SkipNext]_skipvars => SkipInv'
<1> SUFFICES ASSUME SkipInv, [SkipNext]_skipvars PROVE SkipInv'
  OBVIOUS
<1>1. CASE UNCHANGED skipvars
  BY <1>1, StutterStep
<1>2. CASE \E k \in Key, v \in Value, level \in Level : insert(k, v, level)
  BY <1>2, InsertStep
<1>3. CASE \E k \in Key : search(k)
  BY <1>3, SearchStep
<1>4. CASE \E k1, k2 \in Key : scan(k1, k2)
  BY <1>4, ScanStep
<1>5. CASE reset
  BY <1>5, ResetStep
<1>6. CASE Walk
  BY <1>6, WalkStep
<1>7. CASE Remember
  BY <1>7, RememberStep
<1>8. CASE Overwrite
  BY <1>8, OverwriteStep
<1>9. CASE Link
  BY <1>9, LinkStep
<1>10. CASE Hit \/ Miss
  BY <1>10, SearchEnds
<1>11. CASE Reach
  BY <1>11, ReachStep
<1>12. CASE Collect
  BY <1>12, CollectStep
<1>13. CASE EndScan
  BY <1>13, ReturnStep DEF EndScan
<1> QED
  BY <1>1, <1>2, <1>3, <1>4, <1>5, <1>6, <1>7, <1>8, <1>9, <1>10, <1>11, <1>12, <1>13
     DEF SkipNext, Step

(* The lists of the memtable are sorted, nested and complete at every link *)
(* a call follows or sets, and a walk never leaves them or meets a null    *)
(* pointer (skiplist.cpp:19-116).                                          *)
THEOREM SkipListKeepsItsShape == SkipSpec => []SkipInv
  BY InitSkipInv, SkipInvStep, PTL DEF SkipSpec

---------------------------------------------------------------------------
(* The skip list implements the sorted map.                                *)

(* The end of an insert is an insert into the map.                         *)
LEMMA InsertsRefine ==
    ASSUME SkipInv, Overwrite \/ Link
    PROVE  \E k \in Key, v \in Value : Map!Insert(k, v)
<1>1. /\ arg.key \in Key /\ arg.str \in Value /\ UNCHANGED result
      /\ val' = [val EXCEPT ![arg.key] = arg.str]
  BY DEF Overwrite, Link, SkipInv, WalkOK
<1> QED
  BY <1>1 DEF Map!Insert

(* The end of a search is a search of the map: where the lowest level goes *)
(* past the key, the key has no value.                                     *)
LEMMA HitRefines ==
    ASSUME SkipInv, Hit
    PROVE  \E k \in Key : Map!Search(k)
<1>1. arg.key \in Key /\ result' = Found(arg.key, val[arg.key]) /\ UNCHANGED val
  BY DEF Hit, SkipInv, WalkOK, nodes
<1> QED
  BY <1>1 DEF Map!Search, Map!Found, Found

LEMMA MissRefines ==
    ASSUME SkipInv, Miss
    PROVE  (\E k \in Key : Map!Search(k)) \/ UNCHANGED <<val, result>>
<1>1. CASE i > 0
  BY <1>1 DEF Miss, Down, nodes
<1>2. CASE ~ (i > 0)
  <2>1. /\ pc = "search" /\ Ahead > arg.key /\ i = 0 /\ UNCHANGED nodes
        /\ result' = Found(arg.key, None)
    BY <1>2 DEF Miss
  <2>2. Ahead \in Node /\ \A z \in on[0] : z <= cur \/ Ahead <= z
    BY <2>1, AheadIsNext
  <2>3. arg.key \in Key /\ cur < arg.key /\ cur \in Node
    BY <2>1 DEF SkipInv, WalkOK, SkipTypeOK
  <2>4. arg.key \notin on[0]
    <3> SUFFICES ASSUME NEW k \in Key, k \in on[0], cur < k, Ahead > k PROVE FALSE
      BY <2>1, <2>3
    <3>1. k <= cur \/ Ahead <= k
      BY <2>2
    <3>2. k \in Int /\ cur \in Int /\ Ahead \in Int
      BY <2>2, <2>3, NodesAreNumbers
    <3> QED
      BY <3>1, <3>2
  <2>5. val[arg.key] = None
    BY <2>3, <2>4 DEF SkipInv, ValuesOnList
  <2>6. result' = Found(arg.key, val[arg.key]) /\ UNCHANGED val
    BY <2>1, <2>5 DEF nodes
  <2> QED
    BY <2>3, <2>6 DEF Map!Search, Map!Found, Found
<1> QED
  BY <1>1, <1>2

(* The end of a scan is a scan of the map: its list has passed every key   *)
(* up to key2.                                                             *)
LEMMA ScanRefines ==
    ASSUME SkipInv, EndScan
    PROVE  \E k1, k2 \in Key : Map!Scan(k1, k2)
<1>1. /\ pc = "collect" /\ cur > arg.key2 /\ UNCHANGED val
      /\ result' = Listed(arg.key, arg.key2, list)
  BY DEF EndScan, nodes
<1>2. arg.key \in Key /\ arg.key2 \in Key /\ cur \in on[0] \cup {INF}
  BY <1>1 DEF SkipInv, WalkOK
<1>3. on[0] \subseteq Key
  BY LevelsAreNumbers DEF SkipInv, SkipTypeOK
<1>0. SUFFICES ASSUME NEW k1 \in Key, NEW k2 \in Key, k1 = arg.key, k2 = arg.key2
               PROVE  Map!Scan(k1, k2)
  BY <1>2
<1>4. cur > k2 /\ cur \in Int /\ k2 \in Int /\ on[0] \subseteq Int
  BY <1>0, <1>1, <1>2, <1>3, NodesAreNumbers
<1>5. {z \in on[0] : k1 <= z /\ z < cur /\ z <= k2}
          = {z \in Key : val[z] # None /\ k1 <= z /\ z <= k2}
  <2>1. \A z \in Key : val[z] # None <=> z \in on[0]
    BY DEF SkipInv, ValuesOnList
  <2>2. \A z \in on[0] : z <= k2 => z < cur
    BY <1>4
  <2> QED
    BY <2>1, <2>2, <1>3
<1>6. /\ \A j \in 1..Len(list) - 1 : list[j][1] < list[j + 1][1]
      /\ {list[j] : j \in 1..Len(list)} =
             {<<z, val[z]>> : z \in {z \in on[0] : k1 <= z /\ z < cur /\ z <= k2}}
  BY <1>0, <1>1 DEF SkipInv, CollectedOK
<1>7. Map!IsListing(list, k1, k2)
  BY <1>5, <1>6 DEF Map!IsListing
<1>8. result' = Map!Listed(k1, k2, list)
  BY <1>0, <1>1 DEF Map!Listed, Listed
<1>9. result'.is = list /\ result'.of = "scan"
  BY <1>8 DEF Map!Listed
<1> QED
  BY <1>1, <1>7, <1>8, <1>9 DEF Map!Scan

LEMMA InitRefines == Init => Map!Init
  BY DEF Init, Map!Init, NoResult, Map!NoResult

LEMMA StepRefines == SkipInv /\ [SkipNext]_skipvars => [Map!Next]_<<val, result>>
<1> SUFFICES ASSUME SkipInv, [SkipNext]_skipvars PROVE [Map!Next]_<<val, result>>
  OBVIOUS
<1>1. CASE UNCHANGED skipvars
  BY <1>1 DEF skipvars, nodes
<1>2. CASE \/ \E k \in Key, v \in Value, level \in Level : insert(k, v, level)
           \/ \E k \in Key : search(k)
           \/ \E k1, k2 \in Key : scan(k1, k2)
  BY <1>2 DEF insert, search, scan, Call
<1>3. CASE reset
  BY <1>3 DEF reset, Clear, Map!Next, Map!Reset
<1>4. CASE Walk \/ Remember \/ Reach \/ Collect
  BY <1>4 DEF Walk, Remember, Reach, Collect, Down, nodes
<1>5. CASE Overwrite \/ Link
  BY <1>5, InsertsRefine DEF Map!Next
<1>6. CASE Hit
  BY <1>6, HitRefines DEF Map!Next
<1>7. CASE Miss
  BY <1>7, MissRefines DEF Map!Next
<1>8. CASE EndScan
  BY <1>8, ScanRefines DEF Map!Next
<1> QED
  BY <1>1, <1>2, <1>3, <1>4, <1>5, <1>6, <1>7, <1>8 DEF SkipNext, Step

(* Every call of insert, search, scan and reset does to the keys and their *)
(* values what the map does in one step, and returns what the map returns, *)
(* whatever the levels of the nodes (skiplist.cpp:19-116).                 *)
THEOREM SkipListImplementsMap == SkipSpec => ImplementsMap
<1>1. Init => Map!Init
  BY InitRefines
<1>2. SkipInv /\ [SkipNext]_skipvars => [Map!Next]_<<val, result>>
  BY StepRefines
<1> QED
  BY <1>1, <1>2, SkipListKeepsItsShape, PTL DEF SkipSpec, ImplementsMap, Map!Spec

---------------------------------------------------------------------------
(* The values in a file: one after the other.                              *)

LEMMA SmallestNumber ==
    ASSUME NEW I \in SUBSET Nat, I # {}
    PROVE  \E p \in I : \A q \in I : p <= q
<1>1. IsWellFoundedOn(OpToRel(<, Nat), Nat)
  BY NatLessThanWellFounded
<1>2. PICK p \in I : \A q \in I : ~(<<q, p>> \in OpToRel(<, Nat))
  BY <1>1, WFMin
<1>3. \A q \in I : ~(q < p)
  BY <1>2 DEF OpToRel
<1> QED
  BY <1>3

(* f[k] is the first k sequences of s, flattened.                          *)
FlatTo(f, s, k) == f[k] = IF k = 1 THEN s[k] ELSE f[k - 1] \o s[k]
IsFlat(f, s) == f = [k \in 1..Len(s) |-> IF k = 1 THEN s[k] ELSE f[k - 1] \o s[k]]

LEMMA FlatSteps ==
    ASSUME NEW s \in Seq(Seq(Nat)), NEW f, IsFlat(f, s), NEW k \in 1..Len(s)
    PROVE  FlatTo(f, s, k)
<1>1. f = [m \in 1..Len(s) |-> IF m = 1 THEN s[m] ELSE f[m - 1] \o s[m]]
  BY DEF IsFlat
<1> QED
  BY <1>1 DEF FlatTo

LEMMA FlatTyped ==
    ASSUME NEW s \in Seq(Seq(Nat)), NEW f, IsFlat(f, s)
    PROVE  \A k \in 1..Len(s) : f[k] \in Seq(Nat)
<1> DEFINE bad == {k \in 1..Len(s) : f[k] \notin Seq(Nat)}
<1> SUFFICES ASSUME bad # {} PROVE FALSE
  OBVIOUS
<1>1. Len(s) \in Nat /\ bad \in SUBSET Nat
  OBVIOUS
<1>2. PICK k \in bad : \A m \in bad : k <= m
  <2> HIDE DEF bad
  <2> QED
    BY <1>1, SmallestNumber
<1>3. k \in 1..Len(s) /\ FlatTo(f, s, k) /\ s[k] \in Seq(Nat)
  BY FlatSteps
<1>4. CASE k = 1
  BY <1>3, <1>4 DEF FlatTo
<1>5. CASE k # 1
  <2>1. k - 1 \in 1..Len(s) /\ ~(k <= k - 1)
    BY <1>1, <1>3, <1>5
  <2>2. f[k - 1] \in Seq(Nat)
    BY <1>2, <2>1
  <2>3. f[k - 1] \o s[k] \in Seq(Nat)
    BY <1>3, <2>2
  <2> QED
    BY <1>3, <1>5, <2>3 DEF FlatTo
<1> QED
  BY <1>4, <1>5

(* The recursion has a solution, one prefix after the other.               *)
LEMMA FlatExists ==
    ASSUME NEW s \in Seq(Seq(Nat))
    PROVE  \E f : IsFlat(f, s)
<1> DEFINE n   == Len(s)
           bad == {m \in 0..n : ~\E f \in [1..m -> Seq(Nat)] : \A k \in 1..m : FlatTo(f, s, k)}
<1>1. n \in Nat /\ bad \in SUBSET Nat
  OBVIOUS
<1>2. ASSUME bad # {} PROVE FALSE
  <2>1. PICK m \in bad : \A k \in bad : m <= k
    <3> HIDE DEF bad
    <3> QED
      BY <1>1, <1>2, SmallestNumber
  <2>2. m \in 0..n /\ m # 0
    <3>1. 0 \notin bad
      <4>1. 1..0 = {}
        OBVIOUS
      <4>2. <<>> \in [1..0 -> Seq(Nat)]
        BY <4>1
      <4> QED
        BY <4>1, <4>2
    <3> QED
      BY <3>1
  <2>3. m - 1 \in 0..n /\ ~(m <= m - 1) /\ m \in 1..n /\ 1..m = 1..(m - 1) \cup {m} /\ m \notin 1..(m - 1)
    BY <1>1, <2>2
  <2>4. PICK f \in [1..(m - 1) -> Seq(Nat)] : \A k \in 1..(m - 1) : FlatTo(f, s, k)
    BY <2>1, <2>3
  <2> DEFINE last == IF m = 1 THEN s[m] ELSE f[m - 1] \o s[m]
             h    == [k \in 1..m |-> IF k = m THEN last ELSE f[k]]
  <2>5. last \in Seq(Nat)
    <3>1. s[m] \in Seq(Nat)
      BY <2>3
    <3>2. CASE m = 1
      BY <3>1, <3>2
    <3>3. CASE m # 1
      <4>1. m - 1 \in 1..(m - 1)
        BY <1>1, <2>2, <3>3
      <4>2. f[m - 1] \in Seq(Nat)
        BY <4>1
      <4> QED
        BY <3>1, <3>3, <4>2
    <3> QED
      BY <3>2, <3>3
  <2>6. h \in [1..m -> Seq(Nat)] /\ \A k \in 1..(m - 1) : h[k] = f[k]
    <3> HIDE DEF last
    <3> QED
      BY <2>3, <2>5
  <2>7. ASSUME NEW k \in 1..m PROVE FlatTo(h, s, k)
    <3>1. CASE k = m
      <4>1. h[m] = last
        BY <2>3
      <4>2. m # 1 => m - 1 \in 1..(m - 1)
        BY <1>1, <2>2
      <4>3. m # 1 => h[m - 1] = f[m - 1]
        BY <2>6, <4>2
      <4> QED
        BY <3>1, <4>1, <4>3 DEF FlatTo
    <3>2. CASE k \in 1..(m - 1)
      <4>1. FlatTo(f, s, k) /\ h[k] = f[k]
        BY <2>4, <2>6, <3>2
      <4>2. k # 1 => k - 1 \in 1..(m - 1)
        BY <1>1, <2>2, <3>2
      <4>3. k # 1 => h[k - 1] = f[k - 1]
        BY <2>6, <4>2
      <4> QED
        BY <4>1, <4>3 DEF FlatTo
    <3> QED
      BY <2>3, <3>1, <3>2
  <2> QED
    BY <2>2, <2>6, <2>7
<1>3. PICK f \in [1..n -> Seq(Nat)] : \A k \in 1..n : FlatTo(f, s, k)
  <2>1. n \in 0..n
    BY <1>1
  <2> QED
    BY <1>2, <2>1
<1>4. IsFlat(f, s)
  <2>1. f = [k \in 1..n |-> f[k]]
    OBVIOUS
  <2> QED
    BY <1>3, <2>1 DEF IsFlat, FlatTo
<1> QED
  BY <1>4

LEMMA FlatAgree ==
    ASSUME NEW s \in Seq(Seq(Nat)), NEW e \in Seq(Nat), NEW f, IsFlat(f, s), NEW h, IsFlat(h, Append(s, e))
    PROVE  \A k \in 1..Len(s) : f[k] = h[k]
<1> DEFINE a   == Append(s, e)
           bad == {k \in 1..Len(s) : f[k] # h[k]}
<1>1. /\ a \in Seq(Seq(Nat)) /\ Len(s) \in Nat /\ Len(a) = Len(s) + 1
      /\ \A k \in 1..Len(s) : a[k] = s[k] /\ k \in 1..Len(a)
  OBVIOUS
<1>2. bad \in SUBSET Nat
  OBVIOUS
<1> SUFFICES ASSUME bad # {} PROVE FALSE
  OBVIOUS
<1>3. PICK k \in bad : \A m \in bad : k <= m
  <2> HIDE DEF bad
  <2> QED
    BY <1>2, SmallestNumber
<1>4. k \in 1..Len(s) /\ f[k] # h[k]
  OBVIOUS
<1>5. FlatTo(f, s, k) /\ FlatTo(h, a, k)
  <2> HIDE DEF a
  <2> QED
    BY <1>1, <1>4, FlatSteps DEF a
<1>6. CASE k = 1
  BY <1>1, <1>4, <1>5, <1>6 DEF FlatTo
<1>7. CASE k # 1
  <2>1. k - 1 \in 1..Len(s) /\ ~(k <= k - 1)
    BY <1>1, <1>4, <1>7
  <2>2. f[k - 1] = h[k - 1]
    BY <1>3, <2>1
  <2> HIDE DEF a, bad
  <2> QED
    BY <1>1, <1>4, <1>5, <1>7, <2>2 DEF FlatTo
<1> QED
  BY <1>6, <1>7

LEMMA FlattenIsFlat ==
    ASSUME NEW s \in Seq(Seq(Nat)), s # <<>>
    PROVE  \E f : IsFlat(f, s) /\ FlattenSeq(s) = f[Len(s)]
<1>1. Len(s) # 0
  OBVIOUS
<1>2. FlattenSeq(s) = (CHOOSE f : IsFlat(f, s))[Len(s)]
  BY <1>1 DEF FlattenSeq, IsFlat
<1> QED
  BY <1>2, FlatExists

(* A value more at the end.                                                *)
LEMMA FlattenAppend ==
    ASSUME NEW s \in Seq(Seq(Nat)), NEW e \in Seq(Nat)
    PROVE  /\ FlattenSeq(s) \in Seq(Nat)
           /\ FlattenSeq(Append(s, e)) = FlattenSeq(s) \o e
<1> DEFINE a == Append(s, e)
<1>0. a \in Seq(Seq(Nat)) /\ Len(a) = Len(s) + 1 /\ Len(s) \in Nat /\ a[Len(s) + 1] = e
  OBVIOUS
<1>1. a \in Seq(Seq(Nat)) /\ a # <<>> /\ Len(a) = Len(s) + 1 /\ Len(s) \in Nat /\ a[Len(a)] = e
  <2>1. Len(a) # 0
    BY <1>0
  <2> HIDE DEF a
  <2> QED
    BY <1>0, <2>1
<1>2. PICK h : IsFlat(h, a) /\ FlattenSeq(a) = h[Len(a)]
  <2> HIDE DEF a
  <2> QED
    BY <1>1, FlattenIsFlat
<1>3. FlatTo(h, a, Len(a))
  <2>1. Len(a) \in 1..Len(a)
    BY <1>1
  <2> HIDE DEF a
  <2> QED
    BY <1>1, <1>2, <2>1, FlatSteps
<1>4. CASE s = <<>>
  <2>1. Len(a) = 1
    BY <1>1, <1>4
  <2>2. FlattenSeq(a) = e
    <3> HIDE DEF a
    <3> QED
      BY <1>1, <1>2, <1>3, <2>1 DEF FlatTo
  <2>3. FlattenSeq(s) = <<>>
    BY <1>4 DEF FlattenSeq
  <2> QED
    BY <2>2, <2>3
<1>5. CASE s # <<>>
  <2>1. PICK f : IsFlat(f, s) /\ FlattenSeq(s) = f[Len(s)]
    BY <1>5, FlattenIsFlat
  <2>2. Len(s) \in 1..Len(s)
    BY <1>5
  <2>3. f[Len(s)] = h[Len(s)] /\ f[Len(s)] \in Seq(Nat)
    BY <1>2, <2>1, <2>2, FlatAgree, FlatTyped
  <2>4. Len(a) # 1 /\ Len(a) - 1 = Len(s)
    BY <1>1, <2>2
  <2> HIDE DEF a
  <2> QED
    BY <1>1, <1>2, <1>3, <2>1, <2>3, <2>4 DEF FlatTo, a
<1> QED
  BY <1>4, <1>5

---------------------------------------------------------------------------
(* A table in memory, entry by entry.                                      *)

(* A part of what is in front is the same part of the whole.               *)
LEMMA PartOfFront ==
    ASSUME NEW s \in Seq(Nat), NEW e \in Seq(Nat), NEW m \in Nat, NEW n \in Nat, n <= Len(s)
    PROVE  SubSeq(s \o e, m + 1, n) = SubSeq(s, m + 1, n)
OBVIOUS

LEMMA PartAtEnd ==
    ASSUME NEW s \in Seq(Nat), NEW e \in Seq(Nat)
    PROVE  SubSeq(s \o e, Len(s) + 1, Len(s) + Len(e)) = e
OBVIOUS

LEMMA NewTableOK == TableOK(NewTable) /\ NewTable.cnt = 0 /\ NewTable.curpos = 0
<1>1. NewTable \in TableType
  BY SkipKeysAssumption DEF NewTable, TableType, HeadSize
<1>2. /\ NewTable.cnt = 0 /\ NewTable.curpos = 0 /\ NewTable.index = <<>> /\ NewTable.data = <<>>
      /\ OffsetOf(NewTable, NewTable.cnt) = 0
  BY DEF NewTable, OffsetOf
<1>3. FlattenSeq(NewTable.data) = <<>>
  BY <1>2 DEF FlattenSeq
<1>4. Len(<<>>) = 0 /\ 1..0 = {}
  OBVIOUS
<1> QED
  BY <1>1, <1>2, <1>3, <1>4 DEF TableOK

LEMMA ElementTyped == \A S : \A s \in Seq(S) : \A p \in 1..Len(s) : s[p] \in S
OBVIOUS

(* The fields of a table, and an offset as the previous one and a length.  *)
LEMMA TableFacts ==
    ASSUME NEW t, TableOK(t)
    PROVE  /\ t.cnt \in Nat /\ t.curpos \in Nat /\ t.minV \in Nat /\ t.maxV \in Nat /\ t.bytes \in Int
           /\ t.index \in Seq([key : Key, offset : Nat]) /\ Len(t.index) = t.cnt /\ DOMAIN t.index = 1..t.cnt
           /\ t.data \in Seq(Seq(Nat)) /\ Len(t.data) = t.cnt /\ DOMAIN t.data = 1..t.cnt
           /\ \A p \in 1..t.cnt : t.index[p].key \in Key /\ t.index[p].offset \in Nat /\ t.data[p] \in Seq(Nat)
           /\ FlattenSeq(t.data) \in Seq(Nat)
<1>1. t \in TableType /\ Len(t.index) = t.cnt /\ Len(t.data) = t.cnt
  BY DEF TableOK
<1>2. /\ t.cnt \in Nat /\ t.curpos \in Nat /\ t.minV \in Nat /\ t.maxV \in Nat /\ t.bytes \in Int
      /\ t.index \in Seq([key : Key, offset : Nat]) /\ t.data \in Seq(Seq(Nat))
  BY <1>1 DEF TableType
<1> DEFINE index == t.index
           data  == t.data
<1>3. DOMAIN index = 1..Len(index) /\ DOMAIN data = 1..Len(data)
  BY <1>2
<1>4. ASSUME NEW p \in 1..t.cnt PROVE t.index[p].key \in Key /\ t.index[p].offset \in Nat /\ t.data[p] \in Seq(Nat)
  <2>1. /\ index \in Seq([key : Key, offset : Nat]) /\ data \in Seq(Seq(Nat))
        /\ p \in 1..Len(index) /\ p \in 1..Len(data)
    BY <1>1, <1>2
  <2>2. index[p] \in [key : Key, offset : Nat] /\ data[p] \in Seq(Nat)
    <3> HIDE DEF index, data
    <3> QED
      BY <2>1, ElementTyped
  <2> QED
    BY <2>2
<1>5. FlattenSeq(data) \in Seq(Nat)
  <2>1. data \in Seq(Seq(Nat)) /\ <<>> \in Seq(Nat)
    BY <1>2
  <2> HIDE DEF data
  <2> QED
    BY <2>1, FlattenAppend
<1> QED
  BY <1>1, <1>2, <1>3, <1>4, <1>5

LEMMA OffsetsRise ==
    ASSUME NEW t, TableOK(t), NEW p \in 1..t.cnt
    PROVE  /\ p - 1 \in Nat /\ p # 0
           /\ OffsetOf(t, p - 1) \in Nat /\ OffsetOf(t, p) \in Nat
           /\ OffsetOf(t, p) = OffsetOf(t, p - 1) + Len(t.data[p]) /\ Len(t.data[p]) \in Nat
           /\ OffsetOf(t, p) <= t.curpos
<1>1. t.cnt \in Nat /\ t.data[p] \in Seq(Nat) /\ \A q \in 1..t.cnt : t.index[q].offset \in Nat
  BY TableFacts
<1>2. p - 1 \in Nat /\ p # 0 /\ (p - 1 = 0 \/ p - 1 \in 1..t.cnt)
  BY <1>1
<1>3. OffsetOf(t, p - 1) \in Nat
  BY <1>1, <1>2 DEF OffsetOf
<1>4. OffsetOf(t, p) = t.index[p].offset
  BY <1>2 DEF OffsetOf
<1>5. t.index[p].offset = OffsetOf(t, p - 1) + Len(t.data[p]) /\ t.index[p].offset <= t.curpos
  BY DEF TableOK
<1>6. Len(t.data[p]) \in Nat
  BY <1>1
<1> QED
  BY <1>1, <1>2, <1>3, <1>4, <1>5, <1>6

(* An entry with a larger key at the end.                                  *)
LEMMA EnteredFields ==
    ASSUME NEW t, TableOK(t), NEW k \in Key, NEW v \in Seq(Nat), NEW e, e = Entered(t, k, v)
    PROVE  /\ e \in TableType /\ e.cnt = t.cnt + 1 /\ e.curpos = t.curpos + Len(v) /\ e.bytes = t.bytes
           /\ e.minV = (IF k < t.minV THEN k ELSE t.minV) /\ e.maxV = (IF k > t.maxV THEN k ELSE t.maxV)
           /\ e.filter = t.filter \cup Hash[k]
           /\ e.index = Append(t.index, [key |-> k, offset |-> e.curpos]) /\ e.data = Append(t.data, v)
           /\ Len(e.index) = e.cnt /\ Len(e.data) = e.cnt
           /\ \A p \in 1..t.cnt : e.index[p] = t.index[p] /\ e.data[p] = t.data[p]
           /\ e.index[t.cnt + 1] = [key |-> k, offset |-> e.curpos] /\ e.data[t.cnt + 1] = v
<1>1. t \in TableType
  BY DEF TableOK
<1>2. /\ e.cnt = t.cnt + 1 /\ e.curpos = t.curpos + Len(v) /\ e.bytes = t.bytes
      /\ e.minV = (IF k < t.minV THEN k ELSE t.minV) /\ e.maxV = (IF k > t.maxV THEN k ELSE t.maxV)
      /\ e.filter = t.filter \cup Hash[k]
      /\ e.index = Append(t.index, [key |-> k, offset |-> t.curpos + Len(v)]) /\ e.data = Append(t.data, v)
      /\ e = [cnt |-> e.cnt, minV |-> e.minV, maxV |-> e.maxV, filter |-> e.filter, index |-> e.index,
              data |-> e.data, curpos |-> e.curpos, bytes |-> e.bytes]
  BY <1>1 DEF Entered, TableType
<1>3. Len(v) \in Nat /\ k \in Nat /\ t.curpos \in Nat /\ t.minV \in Nat /\ t.maxV \in Nat /\ t.cnt \in Nat
  BY TableFacts, SkipKeysAssumption
<1> DEFINE index == t.index
           data  == t.data
           entry == [key |-> k, offset |-> t.curpos + Len(v)]
<1>4. /\ index \in Seq([key : Key, offset : Nat]) /\ Len(index) = t.cnt
      /\ data \in Seq(Seq(Nat)) /\ Len(data) = t.cnt
  BY TableFacts
<1>5. entry \in [key : Key, offset : Nat]
  BY <1>3
<1> HIDE DEF index, data, entry
<1>6. /\ Append(index, entry) \in Seq([key : Key, offset : Nat]) /\ Len(Append(index, entry)) = t.cnt + 1
      /\ \A p \in 1..t.cnt : Append(index, entry)[p] = index[p]
      /\ Append(index, entry)[t.cnt + 1] = entry
  BY <1>3, <1>4, <1>5
<1>7. /\ Append(data, v) \in Seq(Seq(Nat)) /\ Len(Append(data, v)) = t.cnt + 1
      /\ \A p \in 1..t.cnt : Append(data, v)[p] = data[p]
      /\ Append(data, v)[t.cnt + 1] = v
  BY <1>3, <1>4
<1>8. e.index = Append(index, entry) /\ e.data = Append(data, v) /\ entry = [key |-> k, offset |-> e.curpos]
  BY <1>2 DEF index, data, entry
<1>9. e \in TableType
  <2>1. e.minV \in Nat /\ e.maxV \in Nat /\ e.cnt \in Nat /\ e.curpos \in Nat /\ e.bytes \in Int
    BY <1>1, <1>2, <1>3 DEF TableType
  <2>2. e.filter \in SUBSET UNION {Hash[x] : x \in Key}
    BY <1>1, <1>2 DEF TableType
  <2>3. e.index \in Seq([key : Key, offset : Nat]) /\ e.data \in Seq(Seq(Nat))
    BY <1>6, <1>7, <1>8
  <2> QED
    BY <1>2, <2>1, <2>2, <2>3 DEF TableType
<1>10. Len(e.index) = e.cnt /\ Len(e.data) = e.cnt
  BY <1>2, <1>6, <1>7, <1>8
<1> QED
  BY <1>2, <1>6, <1>7, <1>8, <1>9, <1>10 DEF index, data

LEMMA EnteredOK ==
    ASSUME NEW t, TableOK(t), NEW k \in Key, NEW v \in Seq(Nat), \A p \in 1..t.cnt : t.index[p].key < k,
           NEW e, e = Entered(t, k, v)
    PROVE  TableOK(e)
<1> DEFINE n == t.cnt
           o(p) == OffsetOf(e, p)
           c == FlattenSeq(t.data)
<1>1. /\ e \in TableType /\ e.cnt = n + 1 /\ e.curpos = t.curpos + Len(v)
      /\ e.minV = (IF k < t.minV THEN k ELSE t.minV) /\ e.maxV = (IF k > t.maxV THEN k ELSE t.maxV)
      /\ e.filter = t.filter \cup Hash[k]
      /\ e.data = Append(t.data, v)
      /\ Len(e.index) = e.cnt /\ Len(e.data) = e.cnt
      /\ \A p \in 1..n : e.index[p] = t.index[p] /\ e.data[p] = t.data[p]
      /\ e.index[n + 1] = [key |-> k, offset |-> e.curpos] /\ e.data[n + 1] = v
  BY EnteredFields
<1>2. /\ n \in Nat /\ t.curpos \in Nat /\ t.minV \in Nat /\ t.maxV \in Nat /\ Len(v) \in Nat
      /\ \A p \in 1..n : t.index[p].key \in Nat /\ t.data[p] \in Seq(Nat)
      /\ t.data \in Seq(Seq(Nat)) /\ c \in Seq(Nat) /\ k \in Nat
  BY TableFacts, SkipKeysAssumption
<1>k. /\ \A p \in 1..n : t.index[p].key < k
      /\ e.index[n + 1].key = k
  BY <1>1
<1> HIDE DEF n
<1>3. /\ \A p \in 1..n : p \in 1..(n + 1) /\ p # n + 1 /\ p - 1 \in 0..n
      /\ 1..(n + 1) = 1..n \cup {n + 1} /\ n + 1 # 0 /\ (n + 1) - 1 = n
  BY <1>2
<1>4. \A p \in 0..n : o(p) = OffsetOf(t, p)
  <2> SUFFICES ASSUME NEW p \in 0..n PROVE o(p) = OffsetOf(t, p)
    OBVIOUS
  <2>1. p = 0 \/ p \in 1..n
    BY <1>2
  <2> QED
    BY <1>1, <2>1 DEF OffsetOf
<1>5. o(n + 1) = e.curpos
  BY <1>1, <1>3 DEF OffsetOf
<1>6. t.curpos = OffsetOf(t, n) /\ Len(c) = t.curpos
  BY DEF TableOK, n
<1>c. c \in Seq(Nat) /\ v \in Seq(Nat) /\ Len(c) = t.curpos
  BY <1>2, <1>6
<1>v. e.curpos = t.curpos + Len(v)
  BY <1>1
<1>7. FlattenSeq(e.data) = c \o v
  BY <1>1, <1>2, FlattenAppend
<1> HIDE DEF n, o, c
<1>8. \A p, q \in 1..(n + 1) : p < q => e.index[p].key < e.index[q].key
  <2> SUFFICES ASSUME NEW p \in 1..(n + 1), NEW q \in 1..(n + 1), p < q PROVE e.index[p].key < e.index[q].key
    OBVIOUS
  <2>1. p \in 1..n /\ (q \in 1..n \/ q = n + 1)
    BY <1>2
  <2>2. CASE q \in 1..n
    <3>1. t.index[p].key < t.index[q].key
      BY <2>1, <2>2 DEF TableOK, n
    <3> QED
      BY <1>1, <2>1, <2>2, <3>1
  <2>3. CASE q = n + 1
    BY <1>1, <1>k, <2>1, <2>3
  <2> QED
    BY <2>1, <2>2, <2>3
<1>9. ASSUME NEW p \in 1..n
      PROVE  /\ Hash[e.index[p].key] \subseteq e.filter
             /\ e.minV <= e.index[p].key /\ e.index[p].key <= e.maxV
             /\ e.index[p].offset = o(p - 1) + Len(e.data[p]) /\ e.index[p].offset <= e.curpos
             /\ SubSeq(c \o v, o(p - 1) + 1, o(p)) = e.data[p]
  <2>1. e.index[p] = t.index[p] /\ e.data[p] = t.data[p]
    BY <1>1
  <2>2. /\ Hash[t.index[p].key] \subseteq t.filter
        /\ t.minV <= t.index[p].key /\ t.index[p].key <= t.maxV
        /\ t.index[p].offset = OffsetOf(t, p - 1) + Len(t.data[p]) /\ t.index[p].offset <= t.curpos
        /\ SubSeq(c, OffsetOf(t, p - 1) + 1, OffsetOf(t, p)) = t.data[p]
    BY DEF TableOK, n, c
  <2>3. o(p - 1) = OffsetOf(t, p - 1) /\ o(p) = OffsetOf(t, p)
    BY <1>2, <1>3, <1>4
  <2>4. OffsetOf(t, p - 1) \in Nat /\ OffsetOf(t, p) \in Nat /\ OffsetOf(t, p) <= t.curpos
    BY OffsetsRise DEF n
  <2>5. SubSeq(c \o v, OffsetOf(t, p - 1) + 1, OffsetOf(t, p)) = SubSeq(c, OffsetOf(t, p - 1) + 1, OffsetOf(t, p))
    BY <1>c, <2>4, PartOfFront
  <2>6. t.index[p].offset \in Nat /\ t.index[p].key \in Nat
    BY <1>2, TableFacts DEF n
  <2>7. e.minV <= t.index[p].key /\ t.index[p].key <= e.maxV
    <3> DEFINE key == t.index[p].key
               low == t.minV
               top == t.maxV
    <3>1. /\ key \in Nat /\ low \in Nat /\ top \in Nat /\ k \in Nat /\ low <= key /\ key <= top
          /\ e.minV = (IF k < low THEN k ELSE low) /\ e.maxV = (IF k > top THEN k ELSE top)
      BY <1>1, <1>2, <2>2, <2>6
    <3> HIDE DEF key, low, top
    <3>2. e.minV <= key /\ key <= e.maxV
      BY <3>1
    <3> QED
      BY <3>2 DEF key
  <2>8. t.index[p].offset <= e.curpos
    <3>1. Len(v) \in Nat /\ t.curpos \in Nat /\ t.index[p].offset \in Nat /\ t.index[p].offset <= t.curpos
      BY <1>2, <2>2, <2>6
    <3> QED
      BY <1>v, <3>1
  <2> QED
    BY <1>1, <2>1, <2>2, <2>3, <2>5, <2>7, <2>8
<1>10. /\ Hash[e.index[n + 1].key] \subseteq e.filter
       /\ e.minV <= e.index[n + 1].key /\ e.index[n + 1].key <= e.maxV
       /\ e.index[n + 1].offset = o(n) + Len(e.data[n + 1]) /\ e.index[n + 1].offset <= e.curpos
       /\ SubSeq(c \o v, o(n) + 1, o(n + 1)) = e.data[n + 1]
  <2>1. e.index[n + 1].key = k /\ e.index[n + 1].offset = e.curpos /\ e.data[n + 1] = v
    BY <1>1
  <2>2. o(n) = t.curpos
    BY <1>2, <1>4, <1>6
  <2>3. e.minV <= k /\ k <= e.maxV /\ e.curpos <= e.curpos
    BY <1>1, <1>2
  <2>4. SubSeq(c \o v, o(n) + 1, o(n + 1)) = v
    <3>1. o(n) = Len(c) /\ o(n + 1) = Len(c) + Len(v)
      BY <1>5, <1>c, <1>v, <2>2
    <3> QED
      BY <1>c, <3>1, PartAtEnd
  <2> QED
    BY <1>1, <2>1, <2>2, <2>3, <2>4
<1>11. ASSUME NEW p \in 1..(n + 1)
       PROVE  /\ Hash[e.index[p].key] \subseteq e.filter
              /\ e.minV <= e.index[p].key /\ e.index[p].key <= e.maxV
              /\ e.index[p].offset = o(p - 1) + Len(e.data[p]) /\ e.index[p].offset <= e.curpos
              /\ SubSeq(c \o v, o(p - 1) + 1, o(p)) = e.data[p]
  <2>1. p \in 1..n \/ (p = n + 1 /\ p - 1 = n)
    BY <1>3
  <2> QED
    BY <1>9, <1>10, <2>1
<1>12. Len(c \o v) = e.curpos
  <2>1. \A x, y \in Seq(Nat) : Len(x \o y) = Len(x) + Len(y)
    OBVIOUS
  <2> QED
    BY <1>c, <1>v, <2>1
<1> QED
  BY <1>1, <1>5, <1>7, <1>8, <1>11, <1>12 DEF TableOK, o

(* The size that a table claims is not part of its shape.                  *)
LEMMA BytesSet ==
    ASSUME NEW t, TableOK(t), NEW b \in Int, NEW u, u = [t EXCEPT !.bytes = b]
    PROVE  /\ TableOK(u) /\ u.bytes = b /\ u.cnt = t.cnt /\ u.curpos = t.curpos
           /\ u.index = t.index /\ u.data = t.data
<1>1. t \in TableType
  BY DEF TableOK
<1>2. /\ u.bytes = b /\ u.cnt = t.cnt /\ u.curpos = t.curpos /\ u.minV = t.minV /\ u.maxV = t.maxV
      /\ u.filter = t.filter /\ u.index = t.index /\ u.data = t.data /\ u \in TableType
  BY <1>1 DEF TableType
<1>3. \A p : OffsetOf(u, p) = OffsetOf(t, p)
  BY <1>2 DEF OffsetOf
<1>4. FlattenSeq(u.data) = FlattenSeq(t.data) /\ OffsetOf(u, u.cnt) = OffsetOf(t, t.cnt)
  BY <1>2, <1>3
<1>5. ASSUME NEW p \in 1..t.cnt
      PROVE  /\ Hash[u.index[p].key] \subseteq u.filter
             /\ u.minV <= u.index[p].key /\ u.index[p].key <= u.maxV
             /\ u.index[p].offset = OffsetOf(u, p - 1) + Len(u.data[p]) /\ u.index[p].offset <= u.curpos
             /\ SubSeq(FlattenSeq(u.data), OffsetOf(u, p - 1) + 1, OffsetOf(u, p)) = u.data[p]
  <2>1. /\ Hash[t.index[p].key] \subseteq t.filter
        /\ t.minV <= t.index[p].key /\ t.index[p].key <= t.maxV
        /\ t.index[p].offset = OffsetOf(t, p - 1) + Len(t.data[p]) /\ t.index[p].offset <= t.curpos
        /\ SubSeq(FlattenSeq(t.data), OffsetOf(t, p - 1) + 1, OffsetOf(t, p)) = t.data[p]
    BY DEF TableOK
  <2>2. OffsetOf(u, p - 1) = OffsetOf(t, p - 1) /\ OffsetOf(u, p) = OffsetOf(t, p)
    BY <1>3
  <2>3. u.index[p] = t.index[p] /\ u.data[p] = t.data[p]
    BY <1>2
  <2> QED
    BY <1>2, <1>4, <2>1, <2>2, <2>3
<1>6. \A p, q \in 1..t.cnt : p < q => u.index[p].key < u.index[q].key
  BY <1>2 DEF TableOK
<1>7. Len(u.index) = u.cnt /\ Len(u.data) = u.cnt /\ u.curpos = OffsetOf(u, u.cnt) /\ Len(FlattenSeq(u.data)) = u.curpos
  BY <1>2, <1>4 DEF TableOK
<1>8. TableOK(u)
  BY <1>2, <1>5, <1>6, <1>7 DEF TableOK
<1> QED
  BY <1>2, <1>8

(* A file gives back the table it was made from.                           *)
LEMMA FileGivesTable ==
    ASSUME NEW t, TableOK(t), t.bytes = HeadSize + 12 * t.cnt + t.curpos, NEW f, f = putFile(t)
    PROVE  Loaded(f) = t
<1>1. /\ f.cnt = t.cnt /\ f.minV = t.minV /\ f.maxV = t.maxV /\ f.filter = t.filter /\ f.index = t.index
      /\ f.content = FlattenSeq(t.data)
  BY DEF putFile
<1>2. \A p : OffsetOf(f, p) = OffsetOf(t, p)
  BY <1>1 DEF OffsetOf
<1>3. t.curpos = OffsetOf(t, t.cnt) /\ t \in TableType
  BY DEF TableOK
<1>4. ASSUME NEW p \in 1..t.cnt
      PROVE  fetchString(f, OffsetOf(f, p - 1), OffsetOf(f, p) - OffsetOf(f, p - 1)) = t.data[p]
  <2> DEFINE a == OffsetOf(t, p - 1)
             b == OffsetOf(t, p)
  <2>1. a \in Nat /\ b \in Nat
    BY OffsetsRise
  <2>2. SubSeq(f.content, a + 1, b) = t.data[p]
    BY <1>1 DEF TableOK
  <2>3. fetchString(f, a, b - a) = SubSeq(f.content, a + 1, a + (b - a))
    BY DEF fetchString
  <2>4. OffsetOf(f, p - 1) = a /\ OffsetOf(f, p) = b
    BY <1>2
  <2> HIDE DEF a, b
  <2>5. a + (b - a) = b
    BY <2>1
  <2> QED
    BY <2>2, <2>3, <2>4, <2>5
<1>5. t.data = [p \in 1..t.cnt |-> t.data[p]]
  <2>1. t.data \in Seq(Seq(Nat)) /\ DOMAIN t.data = 1..t.cnt
    BY TableFacts
  <2>2. \A s \in Seq(Seq(Nat)) : s = [p \in DOMAIN s |-> s[p]]
    OBVIOUS
  <2> QED
    BY <2>1, <2>2
<1>6. [p \in 1..f.cnt |-> fetchString(f, OffsetOf(f, p - 1), OffsetOf(f, p) - OffsetOf(f, p - 1))] = t.data
  BY <1>1, <1>4, <1>5
<1>7. Loaded(f) = [cnt |-> t.cnt, minV |-> t.minV, maxV |-> t.maxV, filter |-> t.filter, index |-> t.index,
                   data |-> t.data, curpos |-> t.curpos, bytes |-> t.bytes]
  BY <1>1, <1>2, <1>3, <1>6 DEF Loaded
<1> QED
  BY <1>3, <1>7 DEF TableType

(* What is left of a value is a value, and loses nothing more.             *)
LEMMA CStringFacts ==
    ASSUME NEW v \in Seq(Nat)
    PROVE  CString(v) \in Seq(Nat) /\ CString(CString(v)) = CString(v)
<1> DEFINE nuls == {p \in 1..Len(v) : v[p] = NUL}
<1>1. CASE nuls = {}
  BY <1>1 DEF CString
<1>2. CASE nuls # {}
  <2> DEFINE first == CHOOSE p \in nuls : \A q \in nuls : p <= q
             c     == SubSeq(v, 1, first - 1)
  <2>1. nuls \in SUBSET Nat
    OBVIOUS
  <2>2. first \in nuls /\ \A q \in nuls : first <= q
    <3> HIDE DEF nuls
    <3>1. \E p \in nuls : \A q \in nuls : p <= q
      BY <1>2, <2>1, SmallestNumber
    <3> QED
      BY <3>1
  <2>3. CString(v) = c
    BY <1>2 DEF CString
  <2>4. first \in 1..Len(v) /\ Len(v) \in Nat
    BY <2>2
  <2>5. \A p \in 1..Len(v) : v[p] = NUL => first <= p
    BY <2>2
  <2> HIDE DEF nuls, first
  <2>6. c \in Seq(Nat) /\ Len(c) = first - 1 /\ \A p \in 1..(first - 1) : c[p] = v[p]
    BY <2>4
  <2>7. \A p \in 1..Len(c) : p \in 1..Len(v) /\ ~(first <= p)
    BY <2>4, <2>6
  <2>8. {p \in 1..Len(c) : c[p] = NUL} = {}
    BY <2>5, <2>6, <2>7
  <2> HIDE DEF c
  <2>9. CString(c) = c
    BY <2>8 DEF CString
  <2> QED
    BY <2>3, <2>6, <2>9
<1> QED
  BY <1>1, <1>2

LEMMA CStringOfNone == CString(None) = None
BY SkipValuesAssumption DEF CString

---------------------------------------------------------------------------
(* Bytes.                                                                  *)

LEMMA WeightOfMore ==
    ASSUME NEW S, NEW m, NEW k, k \notin S, IsFiniteSet(Cells(S, m)), Len(m[k]) \in Nat
    PROVE  /\ IsFiniteSet(Cells(S \cup {k}, m))
           /\ Weight(S \cup {k}, m) = Weight(S, m) + 12 + Len(m[k])
<1> DEFINE A == Cells(S, m)
           B == {k} \X (1..12 + Len(m[k]))
           l == 12 + Len(m[k])
<1>1. Cells(S \cup {k}, m) = A \cup B
  BY DEF Cells
<1>2. A \cap B = {}
  BY DEF Cells
<1>3. IsFiniteSet(1..l) /\ Cardinality(1..l) = l /\ l \in Nat
  <2> HIDE DEF l
  <2>1. l \in Nat
    BY DEF l
  <2> QED
    BY <2>1, FS_Interval
<1>4. IsFiniteSet(B) /\ Cardinality(B) = l
  <2> DEFINE f == [x \in 1..l |-> <<k, x>>]
  <2>1. f \in Bijection(1..l, B)
    <3>1. f \in [1..l -> B] /\ \A x, y \in 1..l : f[x] = f[y] => x = y
      OBVIOUS
    <3>2. \A b \in B : \E x \in 1..l : f[x] = b
      OBVIOUS
    <3> HIDE DEF f, B, l
    <3> QED
      BY <3>1, <3>2 DEF Bijection, Injection, Surjection, IsInjective
  <2> HIDE DEF f, B, l
  <2>2. ExistsBijection(1..l, B)
    BY <2>1 DEF ExistsBijection
  <2> QED
    BY <1>3, <2>2, FS_Bijection
<1> HIDE DEF A, B
<1>5. IsFiniteSet(A \cup B) /\ Cardinality(A \cup B) = Cardinality(A) + Cardinality(B) - Cardinality(A \cap B)
  BY <1>4, FS_Union DEF A
<1>6. Cardinality(A \cap B) = 0 /\ Cardinality(A) \in Nat
  BY <1>2, FS_EmptySet, FS_CardinalityType DEF A
<1> QED
  <2>1. Weight(S \cup {k}, m) = Cardinality(A \cup B) /\ Weight(S, m) = Cardinality(A)
    BY <1>1 DEF Weight, A
  <2> HIDE DEF l
  <2>2. Cardinality(A \cup B) = Cardinality(A) + l
    BY <1>3, <1>4, <1>5, <1>6
  <2>3. Cardinality(A) + l = Cardinality(A) + 12 + Len(m[k])
    BY <1>6 DEF l
  <2> QED
    BY <1>1, <1>5, <2>1, <2>2, <2>3

LEMMA WeightOfNothing == \A m : Cells({}, m) = {} /\ Weight({}, m) = 0 /\ IsFiniteSet(Cells({}, m))
  BY FS_EmptySet DEF Cells, Weight

LEMMA WeightDepends ==
    ASSUME NEW S, NEW m, NEW n, \A k \in S : m[k] = n[k]
    PROVE  Cells(S, m) = Cells(S, n) /\ Weight(S, m) = Weight(S, n)
BY DEF Cells, Weight
---------------------------------------------------------------------------
(* What a key reads as in a file.                                          *)

LEMMA KeysOrdered ==
    ASSUME NEW t, TableOK(t), NEW p \in 1..t.cnt, NEW q \in 1..t.cnt
    PROVE  /\ (t.index[p].key >= t.index[q].key <=> q <= p)
           /\ (t.index[p].key = t.index[q].key <=> p = q)
<1>1. t.cnt \in Nat /\ t.index[p].key \in Nat /\ t.index[q].key \in Nat
  BY TableFacts, SkipKeysAssumption
<1>2. (p < q => t.index[p].key < t.index[q].key) /\ (q < p => t.index[q].key < t.index[p].key)
  BY DEF TableOK
<1>3. p < q \/ q < p \/ p = q
  BY <1>1
<1> DEFINE x == t.index[p].key
           y == t.index[q].key
<1>4. x \in Nat /\ y \in Nat /\ (p < q => x < y) /\ (q < p => y < x) /\ (p = q => x = y)
  BY <1>1, <1>2
<1> HIDE DEF x, y
<1>5. p \in Nat /\ q \in Nat
  BY <1>1
<1>6. (x >= y <=> q <= p) /\ (x = y <=> p = q)
  BY <1>3, <1>4, <1>5
<1> QED
  BY <1>6 DEF x, y

(* The binary search finds the place of a key of the table, and no place   *)
(* for another.                                                            *)
LEMMA SearchFinds ==
    ASSUME NEW t, TableOK(t), NEW k \in Key
    PROVE  /\ \A p \in 1..t.cnt : t.index[p].key = k => searchIndex(t, k) = p
           /\ (\A p \in 1..t.cnt : t.index[p].key # k) => searchIndex(t, k) = -1
<1> DEFINE ps == {p \in 1..t.cnt : t.index[p].key >= k}
<1>1. t.cnt \in Nat /\ Len(t.index) = t.cnt /\ k \in Nat /\ \A p \in 1..t.cnt : t.index[p].key \in Nat
  BY TableFacts, SkipKeysAssumption
<1>2. lowerBound(t, k) = IF ps = {} THEN t.cnt + 1 ELSE CHOOSE p \in ps : \A q \in ps : p <= q
  BY <1>1 DEF lowerBound
<1>3. ASSUME NEW p \in 1..t.cnt, t.index[p].key = k PROVE searchIndex(t, k) = p
  <2>1. p \in ps
    BY <1>1, <1>3
  <2>2. \A q \in ps : p <= q
    <3> SUFFICES ASSUME NEW q \in ps PROVE p <= q
      OBVIOUS
    <3>1. q \in 1..t.cnt /\ t.index[q].key >= t.index[p].key
      BY <1>3
    <3> QED
      BY <3>1, KeysOrdered
  <2>3. \A q \in ps : (\A r \in ps : q <= r) => q = p
    BY <1>1, <2>1, <2>2
  <2>4. lowerBound(t, k) = p
    <3> HIDE DEF ps
    <3> QED
      BY <1>2, <2>1, <2>2, <2>3
  <2>5. MayHold(t, k)
    BY <1>3 DEF MayHold, TableOK
  <2>6. ~(p > t.cnt)
    BY <1>1
  <2> QED
    BY <1>1, <1>3, <2>4, <2>5, <2>6 DEF searchIndex
<1>4. ASSUME \A p \in 1..t.cnt : t.index[p].key # k PROVE searchIndex(t, k) = -1
  <2>1. CASE ps = {}
    <3>1. lowerBound(t, k) = t.cnt + 1 /\ t.cnt + 1 > t.cnt
      BY <1>1, <1>2, <2>1
    <3> QED
      BY <1>1, <3>1 DEF searchIndex
  <2>2. CASE ps # {}
    <3>1. \E p \in ps : \A q \in ps : p <= q
      <4>1. ps \in SUBSET Nat
        BY <1>1
      <4> HIDE DEF ps
      <4> QED
        BY <2>2, <4>1, SmallestNumber
    <3>2. lowerBound(t, k) \in ps
      <4> HIDE DEF ps
      <4> QED
        BY <1>2, <2>2, <3>1
    <3>3. t.index[lowerBound(t, k)].key # k
      BY <1>4, <3>2
    <3> QED
      BY <3>3 DEF searchIndex
  <2> QED
    BY <2>1, <2>2
<1> QED
  BY <1>3, <1>4

LEMMA LookupReads ==
    ASSUME TableOK(table), file = putFile(table), NEW keys, NEW m, Lists(table, keys, m), NEW k \in Key
    PROVE  Lookup(table, k) = IF k \in keys THEN m[k] ELSE None
<1> DEFINE t == table
<1>1. CASE k \in keys
  <2>1. PICK p \in 1..t.cnt : t.index[p].key = k
    BY <1>1 DEF Lists
  <2>2. searchIndex(t, k) = p
    BY <2>1, SearchFinds
  <2> DEFINE a == OffsetOf(t, p - 1)
             b == OffsetOf(t, p)
  <2>3. a \in Nat /\ b \in Nat /\ p # -1
    BY OffsetsRise
  <2>4. searchOffset(t, k) = <<a, b - a>>
    <3> HIDE DEF a, b
    <3> QED
      BY <2>2, <2>3 DEF searchOffset, a, b
  <2>5. fetchString(file, a, b - a) = SubSeq(FlattenSeq(t.data), a + 1, a + (b - a))
    BY DEF fetchString, putFile
  <2>6. SubSeq(FlattenSeq(t.data), a + 1, b) = t.data[p]
    BY DEF TableOK
  <2>7. t.minV <= k /\ k <= t.maxV /\ t.minV \in Nat /\ t.maxV \in Nat /\ k \in Nat
    BY <2>1, TableFacts, SkipKeysAssumption DEF TableOK
  <2>8. t.data[p] = m[k]
    BY <2>1 DEF Lists
  <2> HIDE DEF a, b, t
  <2>9. a + (b - a) = b /\ a # -1 /\ ~(k < t.minV) /\ ~(k > t.maxV)
    BY <2>3, <2>7
  <2>10. fetchString(file, a, b - a) = m[k]
    BY <2>5, <2>6, <2>8, <2>9
  <2>11. Lookup(t, k) = fetchString(file, a, b - a)
    BY <2>4, <2>9 DEF Lookup
  <2> QED
    BY <1>1, <2>10, <2>11 DEF t
<1>2. CASE k \notin keys
  <2>1. \A p \in 1..t.cnt : t.index[p].key # k
    BY <1>2 DEF Lists
  <2>2. searchIndex(t, k) = -1
    BY <2>1, SearchFinds
  <2>3. searchOffset(t, k) = <<-1, 0>>
    BY <2>2 DEF searchOffset
  <2> QED
    BY <1>2, <2>3 DEF Lookup
<1> QED
  BY <1>1, <1>2


---------------------------------------------------------------------------
(* The steps.                                                              *)

LEMMA WorkIsApart ==
    ASSUME TableInv, Flush \/ FlushEntry \/ FlushEnd \/ Rewrite \/ RewriteEntry \/ RewriteEnd
    PROVE  pc = "idle" /\ calls \in 0..MaxCalls
<1>1. CASE Flush \/ Rewrite
  BY <1>1 DEF Flush, Rewrite, TableInv, SkipInv, SkipTypeOK
<1>2. CASE FlushEntry \/ FlushEnd
  <2>1. at # HEAD
    BY <1>2, NodesAreNumbers DEF FlushEntry, FlushEnd
  <2> QED
    BY <2>1 DEF TableInv, HistoryOK, Settled, SkipInv, SkipTypeOK
<1>3. CASE RewriteEntry \/ RewriteEnd
  <2>1. row # 0
    BY <1>3 DEF RewriteEntry, RewriteEnd
  <2> QED
    BY <2>1 DEF TableInv, HistoryOK, Settled, SkipInv, SkipTypeOK
<1> QED
  BY <1>1, <1>2, <1>3

LEMMA SkipInvTableStep ==
    ASSUME TableInv, [TableNext]_tablevars
    PROVE  SkipInv'
<1>0. SkipInv
  BY DEF TableInv
<1>1. CASE SkipNext
  BY <1>0, <1>1, SkipInvStep
<1>2. CASE Flush \/ FlushEntry \/ Rewrite \/ RewriteEntry \/ RewriteEnd \/ UNCHANGED tablevars
  <2>1. UNCHANGED skipvars
    BY <1>2 DEF Flush, FlushEntry, Rewrite, RewriteEntry, RewriteEnd, tablevars
  <2> QED
    BY <1>0, <2>1, StutterStep
<1>3. CASE FlushEnd
  <2>1. Clear /\ pc = "idle" /\ calls' \in 0..MaxCalls /\ UNCHANGED <<locals, pc, arg>>
    BY <1>3, WorkIsApart DEF FlushEnd
  <2> QED
    BY <1>0, <2>1, ClearStep
<1> QED
  BY <1>1, <1>2, <1>3 DEF TableNext

(* Values have lengths.                                                    *)
LEMMA ValuesAreBytes ==
    ASSUME SkipInv
    PROVE  \A k \in Key : val[k] \in Seq(Nat) /\ Len(val[k]) \in Nat
<1>1. \A k \in Key : val[k] \in Value \cup {None}
  BY DEF SkipInv, SkipTypeOK
<1>2. None \in Seq(Nat)
  BY SkipValuesAssumption
<1>3. \A k \in Key : val[k] \in Seq(Nat)
  BY <1>1, <1>2, BytesAssumption
<1>4. \A v \in Seq(Nat) : Len(v) \in Nat
  OBVIOUS
<1> QED
  BY <1>3, <1>4

LEMMA OverwriteBytes ==
    ASSUME SkipInv, BytesOK, Overwrite
    PROVE  BytesOK'
<1> DEFINE S == on[0]
<1>1. /\ pc = "insert" /\ Ahead = arg.key /\ UNCHANGED on
      /\ bytes' = bytes - Len(val[arg.key]) + Len(arg.str)
      /\ val' = [val EXCEPT ![arg.key] = arg.str]
  BY DEF Overwrite
<1>2. arg.key \in Key /\ arg.str \in Value /\ val \in [Key -> Value \cup {None}]
  BY <1>1 DEF SkipInv, SkipTypeOK, WalkOK
<1>3. SUFFICES ASSUME NEW k \in Key, NEW str \in Value, k = arg.key, str = arg.str PROVE BytesOK'
  BY <1>2
<1>4. k \in S
  <2>1. Ahead \in on[i] \cup {INF} /\ on[i] \subseteq on[0]
    BY <1>1, AheadIsNext
  <2> QED
    BY <1>1, <1>3, <2>1, NodesAreNumbers
<1> DEFINE R == S \ {k}
<1>5. S = R \cup {k} /\ k \notin R /\ S \subseteq Key
  BY <1>4, LevelsAreNumbers DEF SkipInv, SkipTypeOK
<1>6. val'[k] = str /\ \A x \in R : val'[x] = val[x]
  BY <1>1, <1>2, <1>3, <1>5
<1>7. Len(val[k]) \in Nat /\ Len(val'[k]) \in Nat
  BY <1>3, <1>6, ValuesAreBytes, SkipValuesAssumption
<1>8. IsFiniteSet(Cells(R, val)) /\ IsFiniteSet(Cells(S, val))
  <2>1. Cells(R, val) \subseteq Cells(S, val) /\ IsFiniteSet(Cells(S, val))
    BY DEF Cells, BytesOK
  <2> QED
    BY <2>1, FS_Subset
<1>9. Cells(R, val') = Cells(R, val) /\ Weight(R, val') = Weight(R, val)
  <2> HIDE DEF R
  <2> QED
    BY <1>6, WeightDepends
<1> HIDE DEF R, S
<1>10. Weight(S, val) = Weight(R, val) + 12 + Len(val[k])
  BY <1>5, <1>7, <1>8, WeightOfMore
<1>11. IsFiniteSet(Cells(S, val')) /\ Weight(S, val') = Weight(R, val) + 12 + Len(val'[k])
  <2> DEFINE m == val'
  <2>1. IsFiniteSet(Cells(R, m)) /\ Len(m[k]) \in Nat /\ k \notin R
    BY <1>5, <1>7, <1>8, <1>9
  <2> HIDE DEF m
  <2>2. IsFiniteSet(Cells(R \cup {k}, m)) /\ Weight(R \cup {k}, m) = Weight(R, m) + 12 + Len(m[k])
    BY <2>1, WeightOfMore
  <2> QED
    BY <1>5, <1>9, <2>2 DEF m
<1>12. Weight(R, val) \in Nat
  BY <1>8, FS_CardinalityType DEF Weight
<1>13. bytes = Weight(S, val)
  BY DEF BytesOK, S
<1>14. bytes' = bytes - Len(val[k]) + Len(val'[k])
  BY <1>1, <1>3, <1>6
<1>15. bytes' = Weight(S, val')
  <2> DEFINE w == Weight(R, val)
             a == Len(val[k])
             b == Len(val'[k])
  <2>1. w \in Nat /\ a \in Nat /\ b \in Nat /\ bytes = w + 12 + a /\ bytes' = bytes - a + b
    BY <1>7, <1>10, <1>12, <1>13, <1>14
  <2>2. Weight(S, val') = w + 12 + b
    BY <1>11
  <2> HIDE DEF w, a, b
  <2> QED
    BY <2>1, <2>2
<1>16. on'[0] = S
  BY <1>1 DEF S
<1> QED
  BY <1>11, <1>15, <1>16 DEF BytesOK

LEMMA LinkBytes ==
    ASSUME SkipInv, BytesOK, Link
    PROVE  BytesOK'
<1> DEFINE S == on[0]
<1>1. /\ pc = "link" /\ val' = [val EXCEPT ![arg.key] = arg.str] /\ bytes' = bytes + 12 + Len(arg.str)
      /\ on' = [l \in Level |-> IF l <= arg.level THEN on[l] \cup {arg.key} ELSE on[l]]
  BY DEF Link
<1>2. arg.key \in Key /\ arg.str \in Value /\ val \in [Key -> Value \cup {None}] /\ arg.level \in Level
  BY <1>1 DEF SkipInv, SkipTypeOK, WalkOK
<1>3. arg.key \notin S
  <2>0. curMaxL \in Level
    BY DEF SkipInv, SkipTypeOK
  <2>1. 0 \in Level /\ curMaxL \in Nat /\ 0 <= curMaxL
    BY <2>0, LevelsAreNumbers
  <2>2. update[0] \in on[0] \cup {HEAD} /\ update[0] < arg.key /\ nxt[0][update[0]] > arg.key
    BY <1>1, <2>1 DEF SkipInv, WalkOK
  <2>3. IsNext(0, update[0], nxt[0][update[0]])
    BY <2>1, <2>2 DEF SkipInv, ListsSorted
  <2>4. on[0] \subseteq Key
    BY <2>1 DEF SkipInv, SkipTypeOK
  <2>5. /\ update[0] \in Int /\ nxt[0][update[0]] \in Int /\ arg.key \in Int
        /\ arg.key \in on[0] => arg.key <= update[0] \/ nxt[0][update[0]] <= arg.key
    BY <1>2, <2>2, <2>3, <2>4, NodesAreNumbers DEF IsNext
  <2> QED
    BY <2>2, <2>5
<1>4. on'[0] = S \cup {arg.key}
  <2>1. 0 \in Level /\ 0 <= arg.level
    <3>1. \A l \in Level : 0 <= l
      BY LevelsAreNumbers
    <3> QED
      BY <1>2, <3>1, LevelsAreNumbers
  <2> QED
    BY <1>1, <2>1
<1>5. SUFFICES ASSUME NEW k \in Key, NEW str \in Value, k = arg.key, str = arg.str PROVE BytesOK'
  BY <1>2
<1>6. S \subseteq Key /\ k \notin S
  BY <1>3, <1>5, LevelsAreNumbers DEF SkipInv, SkipTypeOK
<1>7. val'[k] = str /\ \A x \in S : val'[x] = val[x]
  BY <1>1, <1>2, <1>5, <1>6
<1>8. Len(str) \in Nat
  BY SkipValuesAssumption
<1> HIDE DEF S
<1>9. Cells(S, val') = Cells(S, val) /\ Weight(S, val') = Weight(S, val)
  BY <1>7, WeightDepends
<1>10. IsFiniteSet(Cells(S, val)) /\ bytes = Weight(S, val)
  BY DEF BytesOK, S
<1>11. IsFiniteSet(Cells(S \cup {k}, val')) /\ Weight(S \cup {k}, val') = Weight(S, val') + 12 + Len(val'[k])
  <2> DEFINE m == val'
  <2>1. IsFiniteSet(Cells(S, m)) /\ Len(m[k]) \in Nat
    BY <1>7, <1>8, <1>9, <1>10
  <2> HIDE DEF m
  <2>2. IsFiniteSet(Cells(S \cup {k}, m)) /\ Weight(S \cup {k}, m) = Weight(S, m) + 12 + Len(m[k])
    BY <1>6, <2>1, WeightOfMore
  <2> QED
    BY <2>2 DEF m
<1>12. bytes' = Weight(S \cup {k}, val')
  BY <1>1, <1>5, <1>7, <1>9, <1>10, <1>11
<1> QED
  BY <1>4, <1>5, <1>11, <1>12 DEF BytesOK

LEMMA BytesStep ==
    ASSUME TableInv, [TableNext]_tablevars
    PROVE  BytesOK'
<1>0. SkipInv /\ BytesOK
  BY DEF TableInv
<1>u. ASSUME UNCHANGED <<val, bytes>>, on'[0] = on[0] PROVE BytesOK'
  BY <1>0, <1>u DEF BytesOK
<1>c. ASSUME Clear PROVE BytesOK'
  <2>1. on'[0] = {} /\ bytes' = 0
    BY <1>c, LevelsAreNumbers DEF Clear
  <2> QED
    BY <2>1, WeightOfNothing DEF BytesOK
<1>1. CASE Overwrite
  BY <1>0, <1>1, OverwriteBytes
<1>2. CASE Link
  BY <1>0, <1>2, LinkBytes
<1>3. CASE reset \/ FlushEnd
  BY <1>3, <1>c DEF reset, FlushEnd
<1>4. CASE \E k \in Key, v \in Value, level \in Level : insert(k, v, level)
  <2>1. PICK k \in Key, v \in Value, level \in Level : insert(k, v, level)
    BY <1>4
  <2>2. UNCHANGED <<val, bytes>>
    BY <2>1 DEF insert, Call
  <2>3. curMaxL \in Nat /\ curMaxL # 0 /\ 0 \in Level
    BY <1>0, LevelsAreNumbers DEF SkipInv, SkipTypeOK
  <2>4. 0 \notin (IF level > curMaxL THEN curMaxL..level ELSE {})
    BY <2>3
  <2>5. on'[0] = on[0]
    BY <2>1, <2>3, <2>4 DEF insert
  <2> QED
    BY <2>2, <2>5, <1>u
<1>5. CASE \/ \E k \in Key : search(k)
           \/ \E k1, k2 \in Key : scan(k1, k2)
           \/ Walk \/ Remember \/ Hit \/ Miss \/ Reach \/ Collect \/ EndScan
  <2>1. UNCHANGED <<val, bytes, on>>
    BY <1>5 DEF search, scan, Call, Walk, Remember, Hit, Miss, Reach, Collect, EndScan, Down, nodes
  <2> QED
    BY <2>1, <1>u
<1>6. CASE Flush \/ FlushEntry \/ Rewrite \/ RewriteEntry \/ RewriteEnd \/ UNCHANGED tablevars
  <2>1. UNCHANGED <<val, bytes, on>>
    BY <1>6 DEF Flush, FlushEntry, Rewrite, RewriteEntry, RewriteEnd, tablevars, skipvars, nodes
  <2> QED
    BY <2>1, <1>u
<1> QED
  BY <1>1, <1>2, <1>3, <1>4, <1>5, <1>6 DEF TableNext, SkipNext, Step

LEMMA HistoryStep ==
    ASSUME TableInv, [TableNext]_tablevars
    PROVE  HistoryOK'
<1>0. HistoryOK /\ SkipInv
  BY DEF TableInv
<1>1. CASE \/ Settled /\ SkipNext /\ UNCHANGED tables
           \/ UNCHANGED tablevars
  <2>1. UNCHANGED tables /\ (pc' = pc \/ Settled)
    BY <1>1 DEF tablevars, skipvars
  <2> QED
    BY <1>0, <2>1 DEF HistoryOK, tables, Settled
<1>n. 0 \in Level /\ \A x \in on[0] \cup {HEAD} : nxt[0][x] \in on[0] \cup {INF} /\ nxt[0][x] \in Node
  <2>1. 0 \in Level /\ on[0] \subseteq Key
    BY <1>0, LevelsAreNumbers DEF SkipInv, SkipTypeOK
  <2>2. \A x \in on[0] \cup {HEAD} : nxt[0][x] \in on[0] \cup {INF}
    BY <1>0, <2>1 DEF SkipInv, ListsSorted, IsNext
  <2> QED
    BY <2>1, <2>2, NodesAreNumbers
<1>2. CASE Flush
  <2>1. at' = nxt[0][HEAD] /\ pc = "idle" /\ UNCHANGED <<pc, row, flushed, rewrites>>
    BY <1>2 DEF Flush, skipvars
  <2> QED
    BY <1>0, <1>n, <2>1 DEF HistoryOK
<1>3. CASE FlushEntry
  <2>1. at \in Key /\ at' = nxt[0][at] /\ UNCHANGED <<pc, row, flushed, rewrites>>
    BY <1>3 DEF FlushEntry, skipvars
  <2>2. at \in on[0] /\ pc = "idle"
    BY <1>3, <2>1, WorkIsApart, NodesAreNumbers DEF TableInv, FlushOK
  <2> QED
    BY <1>0, <1>n, <2>1, <2>2 DEF HistoryOK
<1>4. CASE FlushEnd
  <2>1. at' = HEAD /\ flushed' = val /\ rewrites' = 0 /\ UNCHANGED <<pc, row>> /\ pc = "idle"
    BY <1>4, WorkIsApart DEF FlushEnd
  <2>2. val \in [Key -> Value \cup {None}]
    BY <1>0 DEF SkipInv, SkipTypeOK
  <2> QED
    BY <1>0, <2>1, <2>2, NodesAreNumbers, RewritesAssumption DEF HistoryOK
<1>5. CASE Rewrite \/ RewriteEntry
  <2>1. row' \in {1, row + 1} /\ pc = "idle" /\ UNCHANGED <<pc, at, flushed, rewrites>>
    BY <1>5, WorkIsApart DEF Rewrite, RewriteEntry, skipvars
  <2> QED
    BY <1>0, <2>1 DEF HistoryOK
<1>6. CASE RewriteEnd
  <2>1. row # 0 /\ row' = 0 /\ rewrites' = rewrites + 1 /\ pc = "idle" /\ UNCHANGED <<pc, at, flushed>>
    BY <1>6, WorkIsApart DEF RewriteEnd, skipvars
  <2>2. rewrites < MaxRewrites
    BY <2>1 DEF TableInv, RewriteOK
  <2> QED
    BY <1>0, <2>1, <2>2, RewritesAssumption DEF HistoryOK
<1> QED
  BY <1>1, <1>2, <1>3, <1>4, <1>5, <1>6 DEF TableNext

(* The entry that a flush takes next.                                      *)
LEMMA NextEntered ==
    ASSUME TableInv, FlushEntry
    PROVE  FlushOK'
<1> DEFINE k      == at
           v      == val[at]
           before == {x \in on[0] : x < k}
           up     == {x \in on[0] : x < nxt[0][k]}
           e      == Entered(table, k, v)
<1>1. /\ k \in Key /\ k # HEAD /\ k # INF /\ table' = e /\ at' = nxt[0][k]
      /\ UNCHANGED <<row, on, val, bytes>>
  BY NodesAreNumbers DEF FlushEntry, skipvars, nodes
<1>2. /\ row = 0 /\ k \in on[0] /\ TableOK(table) /\ Lists(table, before, val) /\ table.bytes = HeadSize + bytes
      /\ 12 * table.cnt + table.curpos = Weight(before, val)
  BY <1>1 DEF TableInv, FlushOK
<1>3. on[0] \subseteq Key /\ 0 \in Level
  BY LevelsAreNumbers DEF TableInv, SkipInv, SkipTypeOK
<1>4. IsNext(0, k, nxt[0][k])
  BY <1>2, <1>3 DEF TableInv, SkipInv, ListsSorted
<1>5. up = before \cup {k} /\ k \notin before /\ nxt[0][k] \in on[0] \cup {INF}
  <2> DEFINE y == nxt[0][k]
  <2>1. /\ y \in on[0] \cup {INF} /\ k < y /\ \A z \in on[0] : z <= k \/ y <= z
        /\ k \in Int /\ y \in Int /\ \A z \in on[0] : z \in Int
    BY <1>1, <1>3, <1>4, NodesAreNumbers DEF IsNext
  <2> HIDE DEF y, k
  <2>2. \A z \in on[0] : z < y <=> z < k \/ z = k
    BY <2>1
  <2> QED
    BY <1>2, <2>1, <2>2 DEF y
<1>6. v \in Seq(Nat) /\ Len(v) \in Nat
  BY <1>1, ValuesAreBytes DEF TableInv
<1>7. \A p \in 1..table.cnt : table.index[p].key < k
  BY <1>2 DEF Lists
<1> HIDE DEF v, e, k, before, up
<1>8. /\ e.cnt = table.cnt + 1 /\ e.curpos = table.curpos + Len(v) /\ e.bytes = table.bytes
      /\ \A p \in 1..table.cnt : e.index[p] = table.index[p] /\ e.data[p] = table.data[p]
      /\ e.index[table.cnt + 1].key = k /\ e.data[table.cnt + 1] = v
  <2>1. TableOK(table) /\ k \in Key /\ v \in Seq(Nat) /\ e = Entered(table, k, v)
    BY <1>1, <1>2, <1>6 DEF e, v, k
  <2>2. /\ e.cnt = table.cnt + 1 /\ e.curpos = table.curpos + Len(v) /\ e.bytes = table.bytes
        /\ \A p \in 1..table.cnt : e.index[p] = table.index[p] /\ e.data[p] = table.data[p]
        /\ e.index[table.cnt + 1] = [key |-> k, offset |-> e.curpos] /\ e.data[table.cnt + 1] = v
    BY <2>1, EnteredFields
  <2>3. e.index[table.cnt + 1].key = k
    BY <2>2
  <2> QED
    BY <2>2, <2>3
<1>9. TableOK(e)
  BY <1>1, <1>2, <1>6, <1>7, EnteredOK DEF e
<1>10. Lists(e, up, val)
  <2> DEFINE n == table.cnt
  <2>1. n \in Nat /\ {table.index[p].key : p \in 1..n} = before /\ \A p \in 1..n : table.data[p] = val[table.index[p].key]
    BY <1>2, TableFacts DEF Lists
  <2>2. /\ e.cnt = n + 1 /\ \A p \in 1..n : e.index[p] = table.index[p] /\ e.data[p] = table.data[p]
        /\ e.index[n + 1].key = k /\ e.data[n + 1] = val[k]
    BY <1>8 DEF v, k
  <2> HIDE DEF n
  <2>3. 1..(n + 1) = 1..n \cup {n + 1}
    BY <2>1
  <2>4. {e.index[p].key : p \in 1..(n + 1)} = before \cup {k}
    BY <2>1, <2>2, <2>3
  <2>5. \A p \in 1..(n + 1) : e.data[p] = val[e.index[p].key]
    BY <2>1, <2>2, <2>3
  <2> QED
    BY <1>5, <2>2, <2>4, <2>5 DEF Lists
<1>11. 12 * e.cnt + e.curpos = Weight(up, val)
  <2>1. IsFiniteSet(Cells(before, val))
    <3>1. Cells(before, val) \subseteq Cells(on[0], val) /\ IsFiniteSet(Cells(on[0], val))
      BY DEF Cells, before, TableInv, BytesOK
    <3> QED
      BY <3>1, FS_Subset
  <2>2. Weight(up, val) = Weight(before, val) + 12 + Len(v)
    BY <1>5, <1>6, <2>1, WeightOfMore DEF v, k
  <2>3. table.cnt \in Nat /\ table.curpos \in Nat
    BY <1>2, TableFacts
  <2> DEFINE c == table.cnt
             q == table.curpos
             l == Len(v)
             w == Weight(before, val)
  <2>4. c \in Nat /\ q \in Nat /\ l \in Nat /\ 12 * c + q = w /\ e.cnt = c + 1 /\ e.curpos = q + l
    BY <1>2, <1>6, <1>8, <2>3
  <2>5. 12 * (c + 1) + (q + l) = w + 12 + l
    <3> HIDE DEF c, q, l, w
    <3> QED
      BY <2>4
  <2> QED
    BY <2>2, <2>4, <2>5
<1>12. up = {x \in on'[0] : x < at'}
  BY <1>1 DEF up
<1> QED
  BY <1>1, <1>2, <1>5, <1>8, <1>9, <1>10, <1>11, <1>12 DEF FlushOK

LEMMA FlushStep ==
    ASSUME TableInv, [TableNext]_tablevars
    PROVE  FlushOK'
<1>1. CASE FlushEntry
  BY <1>1, NextEntered
<1>2. CASE Flush
  <2> DEFINE e == [NewTable EXCEPT !.bytes = HeadSize + bytes]
             y == nxt[0][HEAD]
  <2>1. at' = y /\ table' = e /\ row = 0 /\ UNCHANGED <<row, on, val, bytes>>
    BY <1>2 DEF Flush, Settled, skipvars, nodes
  <2>2. 0 \in Level /\ on[0] \subseteq Key /\ HEAD \notin Key
    BY LevelsAreNumbers, NodesAreNumbers DEF TableInv, SkipInv, SkipTypeOK
  <2>3. IsNext(0, HEAD, y)
    BY <2>2 DEF TableInv, SkipInv, ListsSorted
  <2>4. y \in on[0] \cup {INF} /\ {x \in on[0] : x < y} = {}
    <3>1. \A x \in on[0] : HEAD < x /\ x \in Int /\ y \in Int /\ HEAD \in Int /\ (x <= HEAD \/ y <= x)
      BY <2>2, <2>3, NodesAreNumbers DEF IsNext
    <3>2. \A x \in on[0] : ~(x < y)
      <4> HIDE DEF y
      <4> QED
        BY <3>1
    <3> QED
      BY <2>3, <3>2 DEF IsNext
  <2>5. HeadSize + bytes \in Int
    BY DEF HeadSize, TableInv, SkipInv, SkipTypeOK
  <2>6. TableOK(e) /\ e.bytes = HeadSize + bytes /\ e.cnt = 0 /\ e.curpos = 0
    <3> HIDE DEF e
    <3> QED
      BY <2>5, NewTableOK, BytesSet DEF e
  <2> HIDE DEF e, y
  <2>7. Lists(e, {}, val)
    <3>1. 1..0 = {}
      OBVIOUS
    <3> QED
      BY <2>6, <3>1 DEF Lists
  <2>8. 12 * e.cnt + e.curpos = Weight({}, val)
    BY <2>6, WeightOfNothing
  <2> QED
    BY <2>1, <2>4, <2>6, <2>7, <2>8 DEF FlushOK
<1>3. CASE FlushEnd
  BY <1>3 DEF FlushEnd, FlushOK
<1>4. CASE Settled /\ SkipNext /\ UNCHANGED tables
  BY <1>4 DEF Settled, tables, FlushOK
<1>5. CASE Rewrite \/ RewriteEntry \/ RewriteEnd
  <2>1. at' = at /\ at = HEAD
    BY <1>5 DEF Rewrite, RewriteEntry, RewriteEnd, Settled, TableInv, RewriteOK
  <2> QED
    BY <2>1 DEF FlushOK
<1>6. CASE UNCHANGED tablevars
  BY <1>6 DEF tablevars, tables, skipvars, nodes, TableInv, FlushOK
<1> QED
  BY <1>1, <1>2, <1>3, <1>4, <1>5, <1>6 DEF TableNext

(* The values that a merge loads.                                          *)
LEMMA LoadedData ==
    ASSUME TableInv, file # <<>>, NEW p \in 1..file.cnt
    PROVE  /\ file.cnt \in Nat /\ file.index[p].key \in Key
           /\ loadData(file)[p] = CString(Loaded(file).data[p]) /\ loadData(file)[p] \in Seq(Nat)
<1> DEFINE t == Loaded(file)
<1>1. TableOK(t)
  BY DEF TableInv, FileOK
<1>2. t.cnt = file.cnt /\ t.index = file.index
  BY DEF Loaded
<1>3. t.data[p] = fetchString(file, OffsetOf(file, p - 1), OffsetOf(file, p) - OffsetOf(file, p - 1))
  BY DEF Loaded
<1>4. loadData(file)[p] = CString(t.data[p])
  BY <1>3 DEF loadData
<1> HIDE DEF t
<1>5. t.data[p] \in Seq(Nat) /\ t.cnt \in Nat /\ t.index[p].key \in Key
  BY <1>1, <1>2, TableFacts
<1>6. CString(t.data[p]) \in Seq(Nat)
  BY <1>5, CStringFacts
<1> QED
  BY <1>2, <1>4, <1>5, <1>6 DEF t

(* The entry that a rewrite takes next.                                    *)
LEMMA NextRewritten ==
    ASSUME TableInv, RewriteEntry
    PROVE  RewriteOK'
<1> DEFINE k == file.index[row].key
           v == loadData(file)[row]
           n == table.cnt
           x == Entered(table, k, v)
           e == insertEntry(table, k, v)
           F == Loaded(file)
<1>1. /\ row > 0 /\ row <= file.cnt /\ table' = e /\ row' = row + 1 /\ UNCHANGED <<file, at, flushed, rewrites>>
  BY DEF RewriteEntry
<1>0. row \in Nat /\ row # 0
  BY <1>1 DEF TableInv, HistoryOK
<1>2. /\ at = HEAD /\ file # <<>> /\ rewrites < MaxRewrites /\ TableOK(table) /\ n = row - 1
      /\ \A p \in 1..n : table.index[p].key = file.index[p].key /\ table.data[p] = loadData(file)[p]
      /\ table.bytes = HeadSize + 12 * n + table.curpos
  BY <1>0 DEF TableInv, RewriteOK
<1>3. TableOK(F) /\ F.cnt = file.cnt /\ F.index = file.index
  BY <1>2 DEF TableInv, FileOK, Loaded
<1>4. file.cnt \in Nat /\ row \in 1..file.cnt
  <2>1. F.cnt \in Nat
    BY <1>3, TableFacts
  <2> QED
    BY <1>0, <1>1, <1>3, <2>1
<1>5. k \in Key /\ v \in Seq(Nat) /\ Len(v) \in Nat
  <2>1. k \in Key /\ v \in Seq(Nat)
    BY <1>2, <1>4, LoadedData
  <2> QED
    BY <2>1
<1>6. ASSUME NEW p \in 1..n PROVE table.index[p].key < k
  <2>1. p \in 1..F.cnt /\ row \in 1..F.cnt /\ p < row
    BY <1>0, <1>1, <1>2, <1>3, <1>4
  <2>2. F.index[p].key < F.index[row].key
    BY <1>3, <2>1 DEF TableOK
  <2> QED
    BY <1>2, <1>3, <2>2
<1> HIDE DEF k, v, x, F
<1>7. /\ x.cnt = n + 1 /\ x.curpos = table.curpos + Len(v) /\ x.bytes = table.bytes
      /\ \A p \in 1..n : x.index[p] = table.index[p] /\ x.data[p] = table.data[p]
      /\ x.index[n + 1] = [key |-> k, offset |-> x.curpos] /\ x.data[n + 1] = v
  BY <1>2, <1>5, EnteredFields DEF x
<1>8. TableOK(x)
  BY <1>2, <1>5, <1>6, EnteredOK DEF x
<1>9. n \in Nat /\ table.curpos \in Nat /\ x.bytes \in Int
  BY <1>2, <1>8, TableFacts
<1>10. e = [x EXCEPT !.bytes = x.bytes + 12 + Len(v)] /\ x.bytes + 12 + Len(v) \in Int
  <2>1. e = [x EXCEPT !.bytes = x.bytes + 12 + Len(v)]
    BY DEF insertEntry, x
  <2> QED
    BY <1>5, <1>9, <2>1
<1> HIDE DEF e, n
<1>11. /\ TableOK(e) /\ e.bytes = x.bytes + 12 + Len(v) /\ e.cnt = n + 1 /\ e.curpos = x.curpos
       /\ e.index = x.index /\ e.data = x.data
  BY <1>7, <1>8, <1>10, BytesSet
<1>12. n + 1 = row
  BY <1>0, <1>2, <1>9
<1>13. \A p \in 1..e.cnt : e.index[p].key = file.index[p].key /\ e.data[p] = loadData(file)[p]
  <2>1. \A p \in 1..e.cnt : p \in 1..n \/ p = n + 1
    BY <1>9, <1>11
  <2>2. e.index[n + 1].key = file.index[row].key /\ e.data[n + 1] = loadData(file)[row]
    BY <1>7, <1>11 DEF k, v
  <2>3. \A p \in 1..n : e.index[p].key = file.index[p].key /\ e.data[p] = loadData(file)[p]
    BY <1>2, <1>7, <1>11
  <2> QED
    BY <1>12, <2>1, <2>2, <2>3
<1>14. e.bytes = HeadSize + 12 * e.cnt + e.curpos
  <2> DEFINE h == HeadSize
             q == table.curpos
             l == Len(v)
  <2>1. /\ h \in Nat /\ q \in Nat /\ l \in Nat /\ e.cnt = n + 1 /\ e.curpos = q + l
        /\ e.bytes = (h + 12 * n + q) + 12 + l
    BY <1>2, <1>5, <1>7, <1>9, <1>11 DEF HeadSize
  <2> HIDE DEF h, q, l
  <2> QED
    BY <1>9, <2>1 DEF h
<1>15. row' - 1 = row /\ e.cnt = row
  BY <1>0, <1>1, <1>11, <1>12
<1> QED
  BY <1>1, <1>2, <1>11, <1>13, <1>14, <1>15 DEF RewriteOK

LEMMA RewriteStep ==
    ASSUME TableInv, [TableNext]_tablevars
    PROVE  RewriteOK'
<1>1. CASE RewriteEntry
  BY <1>1, NextRewritten
<1>2. CASE Rewrite
  <2>1. /\ row' = 1 /\ table' = NewTable /\ at = HEAD /\ file # <<>> /\ rewrites < MaxRewrites
        /\ UNCHANGED <<file, at, rewrites>>
    BY <1>2 DEF Rewrite, Settled
  <2>2. Loaded(file).cnt = file.cnt /\ TableOK(Loaded(file))
    BY <2>1 DEF TableInv, FileOK, Loaded
  <2>3. file.cnt \in Nat
    BY <2>2, TableFacts
  <2>4. TableOK(NewTable) /\ NewTable.cnt = 0 /\ NewTable.curpos = 0
    BY NewTableOK
  <2>5. NewTable.bytes = HeadSize + 12 * 0 + 0
    BY DEF NewTable, HeadSize
  <2>6. 1..0 = {}
    OBVIOUS
  <2> HIDE DEF NewTable
  <2> QED
    BY <2>1, <2>3, <2>4, <2>5, <2>6 DEF RewriteOK
<1>3. CASE RewriteEnd
  BY <1>3 DEF RewriteEnd, RewriteOK
<1>4. CASE Settled /\ SkipNext /\ UNCHANGED tables
  BY <1>4 DEF Settled, tables, RewriteOK
<1>5. CASE Flush \/ FlushEntry \/ FlushEnd
  <2>1. row' = row /\ row = 0
    <3>1. CASE Flush
      BY <3>1 DEF Flush, Settled
    <3>2. CASE FlushEntry \/ FlushEnd
      <4>1. at # HEAD /\ row' = row
        BY <3>2, NodesAreNumbers DEF FlushEntry, FlushEnd
      <4> QED
        BY <4>1 DEF TableInv, FlushOK
    <3> QED
      BY <1>5, <3>1, <3>2
  <2> QED
    BY <2>1 DEF RewriteOK
<1>6. CASE UNCHANGED tablevars
  BY <1>6 DEF tablevars, tables, TableInv, RewriteOK
<1> QED
  BY <1>1, <1>2, <1>3, <1>4, <1>5, <1>6 DEF TableNext

(* A file that is written.                                                 *)
LEMMA FlushedFile ==
    ASSUME TableInv, FlushEnd
    PROVE  FileOK'
<1>1. at = INF /\ file' = putFile(table) /\ flushed' = val /\ rewrites' = 0 /\ UNCHANGED table
  BY DEF FlushEnd
<1> DEFINE before == {x \in on[0] : x < at}
<1>2. /\ TableOK(table) /\ Lists(table, before, val) /\ table.bytes = HeadSize + bytes
      /\ 12 * table.cnt + table.curpos = Weight(before, val)
  BY <1>1, NodesAreNumbers DEF TableInv, FlushOK
<1>3. before = on[0] /\ on[0] \subseteq Key
  BY <1>1, NodesAreNumbers, LevelsAreNumbers DEF TableInv, SkipInv, SkipTypeOK
<1>4. table.bytes = HeadSize + 12 * table.cnt + table.curpos
  <2>1. bytes = Weight(on[0], val)
    BY DEF TableInv, BytesOK
  <2>2. table.cnt \in Nat /\ table.curpos \in Nat /\ HeadSize \in Nat
    BY <1>2, TableFacts DEF HeadSize
  <2> HIDE DEF before
  <2> QED
    BY <1>2, <1>3, <2>1, <2>2
<1>5. Loaded(file') = table
  BY <1>1, <1>2, <1>4, FileGivesTable
<1>6. on[0] = {k \in Key : val[k] # None}
  BY <1>3 DEF TableInv, SkipInv, ValuesOnList
<1>7. Lists(table, {k \in Key : val[k] # None}, [k \in Key |-> val[k]])
  <2> HIDE DEF before
  <2>1. \A p \in 1..table.cnt : table.index[p].key \in Key
    BY <1>2, TableFacts
  <2> QED
    BY <1>2, <1>3, <1>6, <2>1 DEF Lists
<1> QED
  BY <1>1, <1>2, <1>5, <1>7 DEF FileOK

LEMMA RewrittenFile ==
    ASSUME TableInv, RewriteEnd
    PROVE  FileOK'
<1> DEFINE F    == Loaded(file)
           n    == table.cnt
           S    == {k \in Key : flushed[k] # None}
           m    == [k \in Key |-> IF rewrites = 0 THEN flushed[k] ELSE CString(flushed[k])]
           cut  == [k \in Key |-> CString(flushed[k])]
<1>1. /\ row # 0 /\ row = file.cnt + 1 /\ row' = 0 /\ file' = putFile(table) /\ rewrites' = rewrites + 1
      /\ UNCHANGED <<table, at, flushed>>
  BY DEF RewriteEnd
<1>2. /\ file # <<>> /\ TableOK(table) /\ n = row - 1
      /\ \A p \in 1..n : table.index[p].key = file.index[p].key /\ table.data[p] = loadData(file)[p]
      /\ table.bytes = HeadSize + 12 * n + table.curpos
  BY <1>1 DEF TableInv, RewriteOK
<1>3. TableOK(F) /\ Lists(F, S, m)
  BY <1>2 DEF TableInv, FileOK
<1>4. F.cnt = file.cnt /\ F.index = file.index
  BY DEF Loaded
<1>5. n = F.cnt
  <2>1. F.cnt \in Nat
    BY <1>3, TableFacts
  <2> QED
    BY <1>1, <1>2, <1>4, <2>1
<1>6. Loaded(file') = table
  BY <1>1, <1>2, FileGivesTable
<1>7. \A k \in Key : flushed[k] \in Seq(Nat) /\ CString(CString(flushed[k])) = CString(flushed[k])
  <2>1. flushed \in [Key -> Value \cup {None}]
    BY DEF TableInv, HistoryOK
  <2>2. \A k \in Key : flushed[k] \in Seq(Nat)
    <3>1. None \in Seq(Nat)
      BY SkipValuesAssumption
    <3> QED
      BY <2>1, <3>1, BytesAssumption
  <2> QED
    BY <2>2, CStringFacts
<1>8. ASSUME NEW p \in 1..n PROVE table.data[p] = cut[table.index[p].key]
  <2> DEFINE k == table.index[p].key
  <2>1. k \in Key /\ k = F.index[p].key
    BY <1>2, <1>4, TableFacts
  <2>2. table.data[p] = CString(F.data[p])
    BY <1>2, <1>4, <1>5, LoadedData
  <2>3. F.data[p] = m[F.index[p].key]
    BY <1>3, <1>5 DEF Lists
  <2> HIDE DEF k, F
  <2>4. CString(m[k]) = cut[k]
    BY <1>7, <2>1
  <2> QED
    BY <2>1, <2>2, <2>3, <2>4 DEF k
<1>9. {table.index[p].key : p \in 1..n} = S
  <2>1. {F.index[p].key : p \in 1..F.cnt} = S
    BY <1>3 DEF Lists
  <2>2. \A p \in 1..n : table.index[p].key = F.index[p].key
    BY <1>2, <1>4
  <2> HIDE DEF F, S, n
  <2> QED
    BY <1>5, <2>1, <2>2
<1>10. Lists(table, S, cut)
  <2> HIDE DEF S, cut
  <2> QED
    BY <1>8, <1>9 DEF Lists
<1>11. rewrites' # 0
  BY <1>1 DEF TableInv, HistoryOK
<1>12. S' = S /\ m' = cut
  BY <1>1, <1>11
<1> HIDE DEF S, m, cut
<1> QED
  BY <1>1, <1>2, <1>6, <1>10, <1>12 DEF FileOK, S, m

LEMMA FileStep ==
    ASSUME TableInv, [TableNext]_tablevars
    PROVE  FileOK'
<1>1. CASE FlushEnd
  BY <1>1, FlushedFile
<1>2. CASE RewriteEnd
  BY <1>2, RewrittenFile
<1>3. CASE \/ Settled /\ SkipNext /\ UNCHANGED tables
           \/ UNCHANGED tablevars
  <2>1. UNCHANGED tables
    BY <1>3 DEF tablevars
  <2> QED
    BY <2>1 DEF tables, TableInv, FileOK, Settled
<1>4. CASE Flush \/ FlushEntry \/ Rewrite \/ RewriteEntry
  <2>1. UNCHANGED <<file, flushed, rewrites>>
    BY <1>4 DEF Flush, FlushEntry, Rewrite, RewriteEntry
  <2>2. at' # HEAD \/ row' # 0
    <3>1. CASE Rewrite
      BY <3>1 DEF Rewrite
    <3>2. CASE RewriteEntry
      BY <3>2 DEF RewriteEntry, TableInv, HistoryOK
    <3>3. CASE Flush \/ FlushEntry
      <4>1. 0 \in Level /\ on[0] \subseteq Key
        BY LevelsAreNumbers DEF TableInv, SkipInv, SkipTypeOK
      <4>2. PICK x \in on[0] \cup {HEAD} : at' = nxt[0][x]
        BY <3>3, NodesAreNumbers DEF Flush, FlushEntry, TableInv, FlushOK
      <4>3. IsNext(0, x, at')
        BY <4>1, <4>2 DEF TableInv, SkipInv, ListsSorted
      <4> QED
        BY <4>1, <4>3, NodesAreNumbers DEF IsNext
    <3> QED
      BY <1>4, <3>1, <3>2, <3>3
  <2> QED
    BY <2>1, <2>2 DEF TableInv, FileOK, Settled
<1> QED
  BY <1>1, <1>2, <1>3, <1>4 DEF TableNext

LEMMA TableInvStep == TableInv /\ [TableNext]_tablevars => TableInv'
  BY SkipInvTableStep, HistoryStep, BytesStep, FlushStep, RewriteStep, FileStep DEF TableInv

LEMMA TableInvInit == TableInit => TableInv
<1> SUFFICES ASSUME TableInit PROVE TableInv
  OBVIOUS
<1>1. Init /\ file = <<>> /\ at = HEAD /\ row = 0 /\ flushed = val /\ rewrites = 0
  BY DEF TableInit
<1>2. SkipInv
  BY <1>1, InitSkipInv
<1>3. HistoryOK
  BY <1>1, <1>2, NodesAreNumbers, RewritesAssumption DEF HistoryOK, Settled, SkipInv, SkipTypeOK
<1>4. BytesOK
  <2>1. on[0] = {} /\ bytes = 0
    BY <1>1, LevelsAreNumbers DEF Init
  <2> QED
    BY <2>1, WeightOfNothing DEF BytesOK
<1> QED
  BY <1>1, <1>2, <1>3, <1>4 DEF TableInv, FlushOK, RewriteOK, FileOK

---------------------------------------------------------------------------
(* The theorems about tables and the memtable they come from.              *)

(* At every step of a flush or a merge the table has the entries up to     *)
(* there, its offsets are where the values end, and its size is what is    *)
(* counted (sstable.h:43-63, sstable.cpp:12-134, skiplist.cpp:37-49).      *)
THEOREM TableInvHolds == TableSpec => []TableInv
  BY TableInvInit, TableInvStep, PTL DEF TableSpec

(* The memtable keeps its shape through flushes as well (skiplist.cpp:19-  *)
(* 116, sstable.h:43-63).                                                  *)
THEOREM ShapeSurvivesFlush == TableSpec => []SkipInv
<1>1. TableInv => SkipInv
  BY DEF TableInv
<1> QED
  BY <1>1, TableInvHolds, PTL

(* What a key reads as in the file is the value it had in the memtable,    *)
(* after merges without what follows a NUL byte, and a key that had none   *)
(* is not found, for every filter (sstable.h:43-63, sstable.cpp:12-97,     *)
(* sstablehead.cpp:68-85).                                                 *)
THEOREM FileHasFlushedValues == TableSpec => []LookupFindsFlushed
<1>1. TableInv => LookupFindsFlushed
  <2> SUFFICES ASSUME TableInv, file # <<>>, Settled, NEW k \in Key
               PROVE  Lookup(table, k) = IF rewrites = 0 THEN flushed[k] ELSE CString(flushed[k])
    BY DEF LookupFindsFlushed
  <2> DEFINE S == {x \in Key : flushed[x] # None}
             m == [x \in Key |-> IF rewrites = 0 THEN flushed[x] ELSE CString(flushed[x])]
  <2>1. TableOK(table) /\ file = putFile(table) /\ Lists(table, S, m)
    BY DEF TableInv, FileOK
  <2>2. Lookup(table, k) = IF k \in S THEN m[k] ELSE None
    <3> HIDE DEF S, m
    <3> QED
      BY <2>1, LookupReads
  <2> QED
    BY <2>2, CStringOfNone
<1> QED
  BY <1>1, TableInvHolds, PTL

(* The head in memory is the one in the file, with the size of the file,   *)
(* however the size was counted (skiplist.cpp:37-49, sstable.cpp:130,      *)
(* sstablehead.cpp:40-46).                                                 *)
THEOREM HeadIsThatOfFile == TableSpec => []HeadDescribesFile
<1>1. TableInv => HeadDescribesFile
  <2> SUFFICES ASSUME TableInv, file # <<>>, Settled
               PROVE  /\ \A field \in DOMAIN loadFileHead(file) : loadFileHead(file)[field] = table[field]
                      /\ table.bytes = HeadSize + 12 * Len(file.index) + Len(file.content)
    BY DEF HeadDescribesFile
  <2>1. TableOK(table) /\ file = putFile(table) /\ table = Loaded(file)
    BY DEF TableInv, FileOK
  <2>2. /\ table.cnt = file.cnt /\ table.minV = file.minV /\ table.maxV = file.maxV
        /\ table.filter = file.filter /\ table.index = file.index
        /\ table.bytes = HeadSize + 12 * file.cnt + OffsetOf(file, file.cnt) /\ table.curpos = OffsetOf(file, file.cnt)
    BY <2>1 DEF Loaded
  <2>3. \A field \in DOMAIN loadFileHead(file) : loadFileHead(file)[field] = table[field]
    BY <2>2 DEF loadFileHead
  <2>4. Len(file.index) = file.cnt /\ Len(file.content) = table.curpos
    <3>1. file.content = FlattenSeq(table.data) /\ file.index = table.index /\ file.cnt = table.cnt
      BY <2>1 DEF putFile
    <3> QED
      BY <2>1, <3>1 DEF TableOK
  <2> QED
    BY <2>2, <2>3, <2>4
<1> QED
  BY <1>1, TableInvHolds, PTL

(* With flushes between the calls the skip list is still the sorted map: a *)
(* flush empties the map in one step (skiplist.cpp:19-116,                 *)
(* kvstore.cc:139-150).                                                    *)
THEOREM FlushedListImplementsMap == TableSpec => ImplementsMap
<1>1. TableInit => Map!Init
  BY InitRefines DEF TableInit
<1>2. TableInv /\ [TableNext]_tablevars => [Map!Next]_<<val, result>>
  <2> SUFFICES ASSUME TableInv, [TableNext]_tablevars PROVE [Map!Next]_<<val, result>>
    OBVIOUS
  <2>1. CASE SkipNext
    BY <2>1, StepRefines DEF TableInv
  <2>2. CASE FlushEnd
    BY <2>2 DEF FlushEnd, Clear, Map!Next, Map!Reset
  <2>3. CASE Flush \/ FlushEntry \/ Rewrite \/ RewriteEntry \/ RewriteEnd \/ UNCHANGED tablevars
    BY <2>3 DEF Flush, FlushEntry, Rewrite, RewriteEntry, RewriteEnd, tablevars, skipvars, nodes
  <2> QED
    BY <2>1, <2>2, <2>3 DEF TableNext
<1> QED
  BY <1>1, <1>2, TableInvHolds, PTL DEF TableSpec, ImplementsMap, Map!Spec
=============================================================================
