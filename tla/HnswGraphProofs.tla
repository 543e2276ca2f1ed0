-------------------------- MODULE HnswGraphProofs --------------------------
(***************************************************************************)
(* Theorems about HnswGraph, for any vectors and similarities, any numbers *)
(* of links, levels, candidates and nodes.                                 *)
(***************************************************************************)
EXTENDS HnswGraph, FiniteSetTheorems, WellFoundedInduction, TLAPS

(* Lists.                                                                  *)

LEMMA SmallestExists ==
    ASSUME NEW I \in SUBSET Nat, I # {}
    PROVE  \E p \in I : \A q \in I : p <= q
<1>1. IsWellFoundedOn(OpToRel(<, Nat), Nat)
  BY NatLessThanWellFounded
<1>2. PICK p \in I : \A q \in I : ~(<<q, p>> \in OpToRel(<, Nat))
  BY <1>1, WFMin
<1>3. \A q \in I : ~(q < p)
  BY <1>2 DEF OpToRel
<1> QED
  BY <1>3

LEMMA InList ==
    ASSUME NEW T, NEW s \in Seq(T)
    PROVE  /\ Len(s) \in Nat /\ DOMAIN s = 1..Len(s) /\ ToSet(s) \subseteq T
           /\ \A e : Contains(s, e) <=> e \in ToSet(s)
           /\ s = <<>> <=> ToSet(s) = {}
           /\ s = <<>> <=> Len(s) = 0
<1>1. Len(s) \in Nat /\ DOMAIN s = 1..Len(s) /\ \A p \in 1..Len(s) : s[p] \in T
  OBVIOUS
<1>2. s = <<>> <=> Len(s) = 0
  OBVIOUS
<1>3. Len(s) # 0 => 1 \in 1..Len(s)
  BY <1>1
<1>4. ToSet(s) \subseteq T /\ \A e : Contains(s, e) <=> e \in ToSet(s)
  BY <1>1 DEF ToSet, Contains
<1>5. Len(s) = 0 <=> ToSet(s) = {}
  <2>1. Len(s) = 0 => 1..Len(s) = {}
    BY <1>1
  <2> QED
    BY <1>1, <1>3, <2>1 DEF ToSet
<1> QED
  BY <1>1, <1>2, <1>4, <1>5

LEMMA ElementOf ==
    ASSUME NEW T, NEW s \in Seq(T)
    PROVE  \A p \in 1..Len(s) : s[p] \in T
  OBVIOUS

LEMMA SeqOfElements ==
    ASSUME NEW T, NEW s \in Seq(T), NEW U, ToSet(s) \subseteq U
    PROVE  s \in Seq(U)
<1>1. Len(s) \in Nat /\ s \in [1..Len(s) -> T]
  OBVIOUS
<1>2. \A p \in 1..Len(s) : s[p] \in U
  BY <1>1 DEF ToSet
<1>3. s \in [1..Len(s) -> U]
  BY <1>1, <1>2
<1> QED
  BY <1>1, <1>3

LEMMA OnList ==
    ASSUME NEW T, NEW s \in Seq(T), NEW e \in T
    PROVE  /\ Append(s, e) \in Seq(T) /\ Len(Append(s, e)) = Len(s) + 1
           /\ ToSet(Append(s, e)) = ToSet(s) \cup {e}
           /\ Append(s, e)[Len(s) + 1] = e
           /\ \A p \in 1..Len(s) : Append(s, e)[p] = s[p]
           /\ IsInjective(s) /\ e \notin ToSet(s) => IsInjective(Append(s, e))
<1> DEFINE r == Append(s, e)
<1>1. /\ Len(s) \in Nat /\ DOMAIN s = 1..Len(s)
      /\ r \in Seq(T) /\ Len(r) = Len(s) + 1 /\ DOMAIN r = 1..(Len(s) + 1)
      /\ r[Len(s) + 1] = e /\ \A p \in 1..Len(s) : r[p] = s[p]
  OBVIOUS
<1> HIDE DEF r
<1>2. \A p \in 1..(Len(s) + 1) : p \in 1..Len(s) \/ p = Len(s) + 1
  BY <1>1
<1>3. 1..Len(s) \subseteq 1..(Len(s) + 1) /\ Len(s) + 1 \in 1..(Len(s) + 1)
  BY <1>1
<1>4. ToSet(r) = ToSet(s) \cup {e}
  <2>1. \A x : x \in ToSet(r) <=> \E p \in 1..(Len(s) + 1) : r[p] = x
    BY <1>1 DEF ToSet
  <2>2. \A x : x \in ToSet(s) <=> \E p \in 1..Len(s) : s[p] = x
    BY <1>1 DEF ToSet
  <2>3. \A x : x \in ToSet(r) <=> x \in ToSet(s) \/ x = e
    BY <2>1, <2>2, <1>1, <1>2, <1>3
  <2> QED
    BY <2>3
<1>5. ASSUME IsInjective(s), e \notin ToSet(s) PROVE IsInjective(r)
  <2> SUFFICES ASSUME NEW p \in 1..(Len(s) + 1), NEW q \in 1..(Len(s) + 1), r[p] = r[q]
               PROVE  p = q
    BY <1>1 DEF IsInjective
  <2>1. \A x \in 1..Len(s) : s[x] # e
    BY <1>1, <1>5 DEF ToSet
  <2>2. \A x, y \in 1..Len(s) : s[x] = s[y] => x = y
    BY <1>1, <1>5 DEF IsInjective
  <2> QED
    BY <1>1, <1>2, <2>1, <2>2
<1> QED
  BY <1>1, <1>4, <1>5 DEF r

LEMMA JoinedLists ==
    ASSUME NEW T, NEW a \in Seq(T), NEW b \in Seq(T)
    PROVE  /\ a \o b \in Seq(T) /\ Len(a \o b) = Len(a) + Len(b)
           /\ \A p \in 1..(Len(a) + Len(b)) :
                  (a \o b)[p] = IF p <= Len(a) THEN a[p] ELSE b[p - Len(a)]
  OBVIOUS

LEMMA Slice ==
    ASSUME NEW T, NEW seq \in Seq(T), NEW m \in Nat \ {0}, NEW n \in Nat, m <= n + 1, n <= Len(seq)
    PROVE  /\ SubSeq(seq, m, n) \in Seq(T) /\ Len(SubSeq(seq, m, n)) = n + 1 - m
           /\ \A p \in 1..(n + 1 - m) : SubSeq(seq, m, n)[p] = seq[p + m - 1]
  OBVIOUS

(* The part of a list before a position, and the part behind it.           *)
LEMMA PartsOfList ==
    ASSUME NEW T, NEW seq \in Seq(T), NEW f \in 1..Len(seq),
           NEW a, a = SubSeq(seq, 1, f - 1), NEW b, b = SubSeq(seq, f + 1, Len(seq))
    PROVE  /\ a \in Seq(T) /\ Len(a) = f - 1 /\ \A p \in 1..(f - 1) : a[p] = seq[p]
           /\ b \in Seq(T) /\ Len(b) = Len(seq) - f /\ \A p \in 1..(Len(seq) - f) : b[p] = seq[p + f]
<1>1. Len(seq) \in Nat /\ f \in Nat /\ 1 <= f /\ f <= Len(seq)
  OBVIOUS
<1>2. a \in Seq(T) /\ Len(a) = f - 1 + 1 - 1 /\ \A p \in 1..(f - 1 + 1 - 1) : a[p] = seq[p + 1 - 1]
  <2>1. f - 1 \in Nat /\ 1 <= f - 1 + 1 /\ f - 1 <= Len(seq)
    BY <1>1
  <2> QED
    BY <2>1, Slice
<1>3. /\ b \in Seq(T) /\ Len(b) = Len(seq) + 1 - (f + 1)
      /\ \A p \in 1..(Len(seq) + 1 - (f + 1)) : b[p] = seq[p + (f + 1) - 1]
  <2>1. f + 1 \in Nat \ {0} /\ f + 1 <= Len(seq) + 1 /\ Len(seq) <= Len(seq)
    BY <1>1
  <2> QED
    BY <2>1, <1>1, Slice
<1>4. f - 1 + 1 - 1 = f - 1 /\ Len(seq) + 1 - (f + 1) = Len(seq) - f
  BY <1>1
<1>5. \A p \in 1..(f - 1) : p + 1 - 1 = p
  OBVIOUS
<1>6. \A p \in 1..(Len(seq) - f) : p + (f + 1) - 1 = p + f
  BY <1>1
<1>7. Len(a) = f - 1 /\ \A p \in 1..(f - 1) : a[p] = seq[p]
  BY <1>2, <1>4, <1>5
<1>8. Len(b) = Len(seq) - f /\ \A p \in 1..(Len(seq) - f) : b[p] = seq[p + f]
  BY <1>3, <1>4, <1>6
<1> QED
  BY <1>2, <1>3, <1>7, <1>8

(* The first occurrence of an element leaves a list.                       *)
LEMMA OffList ==
    ASSUME NEW T, NEW s \in Seq(T), NEW e, NEW r, r = RemoveFirst(s, e)
    PROVE  /\ r \in Seq(T) /\ ToSet(r) \subseteq ToSet(s)
           /\ \A x \in ToSet(s) : x # e => x \in ToSet(r)
           /\ e \notin ToSet(s) => r = s
           /\ e \in ToSet(s) => Len(r) = Len(s) - 1
           /\ IsInjective(s) => IsInjective(r) /\ e \notin ToSet(r)
<1>1. Len(s) \in Nat /\ DOMAIN s = 1..Len(s) /\ \A x : x \in ToSet(s) <=> \E p \in 1..Len(s) : s[p] = x
  BY DEF ToSet
<1>2. CASE e \notin ToSet(s)
  <2>1. r = s
    BY <1>1, <1>2 DEF RemoveFirst
  <2> QED
    BY <2>1, <1>2
<1>3. CASE e \in ToSet(s)
  <2> DEFINE I == {p \in 1..Len(s) : s[p] = e}
             f == Min(I)
  <2>1. I # {} /\ I \in SUBSET Nat
    BY <1>1, <1>3
  <2>2. f \in I
    <3>1. \E p \in I : \A q \in I : p <= q
      BY <2>1, SmallestExists
    <3> QED
      BY <3>1 DEF Min
  <2>3. r = SubSeq(s, 1, f - 1) \o SubSeq(s, f + 1, Len(s))
    BY <1>1, <1>3, <2>1 DEF RemoveFirst, RemoveAt, SelectInSeq
  <2> HIDE DEF f
  <2>4. f \in 1..Len(s) /\ s[f] = e /\ f \in Nat
    BY <2>2, <1>1
  <2> DEFINE a == SubSeq(s, 1, f - 1)
             b == SubSeq(s, f + 1, Len(s))
  <2>5. /\ a \in Seq(T) /\ Len(a) = f - 1 /\ \A p \in 1..(f - 1) : a[p] = s[p]
        /\ b \in Seq(T) /\ Len(b) = Len(s) - f /\ \A p \in 1..(Len(s) - f) : b[p] = s[p + f]
    <3>1. a = SubSeq(s, 1, f - 1) /\ b = SubSeq(s, f + 1, Len(s))
      OBVIOUS
    <3> HIDE DEF a, b
    <3> QED
      BY <3>1, <2>4, PartsOfList
  <2> HIDE DEF a, b
  <2>6. /\ r \in Seq(T) /\ Len(r) = Len(s) - 1 /\ DOMAIN r = 1..(Len(s) - 1)
        /\ \A p \in 1..(Len(s) - 1) : r[p] = IF p <= f - 1 THEN a[p] ELSE b[p - (f - 1)]
    <3>1. r = a \o b
      BY <2>3 DEF a, b
    <3>2. /\ a \o b \in Seq(T) /\ Len(a \o b) = Len(a) + Len(b)
          /\ \A p \in 1..(Len(a) + Len(b)) : (a \o b)[p] = IF p <= Len(a) THEN a[p] ELSE b[p - Len(a)]
      BY <2>5, JoinedLists
    <3>3. Len(a) + Len(b) = Len(s) - 1
      BY <2>5, <2>4, <1>1
    <3>4. r \in Seq(T) /\ Len(r) = Len(s) - 1 /\ DOMAIN r = 1..Len(r)
      BY <3>1, <3>2, <3>3
    <3> QED
      BY <3>1, <3>2, <3>3, <3>4, <2>5
  <2>7. /\ \A p \in 1..(f - 1) : p \in 1..(Len(s) - 1) /\ r[p] = s[p]
        /\ \A p \in f..(Len(s) - 1) : p \in 1..(Len(s) - 1) /\ p + 1 \in 1..Len(s) /\ r[p] = s[p + 1]
    <3>1. ASSUME NEW p \in f..(Len(s) - 1)
          PROVE  p \in 1..(Len(s) - 1) /\ p + 1 \in 1..Len(s) /\ r[p] = s[p + 1]
      <4>1. p - (f - 1) \in 1..(Len(s) - f) /\ (p - (f - 1)) + f = p + 1 /\ ~(p <= f - 1)
        BY <2>4, <1>1
      <4> QED
        <5>1. p \in 1..(Len(s) - 1) /\ p + 1 \in 1..Len(s)
          BY <2>4, <1>1
        <5>2. r[p] = b[p - (f - 1)] /\ b[p - (f - 1)] = s[(p - (f - 1)) + f]
          BY <4>1, <5>1, <2>5, <2>6
        <5> QED
          BY <5>1, <5>2, <4>1
    <3>2. ASSUME NEW p \in 1..(f - 1) PROVE p \in 1..(Len(s) - 1) /\ r[p] = s[p]
      <4>1. p \in 1..(Len(s) - 1) /\ p <= f - 1
        BY <2>4, <1>1
      <4> QED
        BY <4>1, <2>5, <2>6
    <3> QED
      BY <3>1, <3>2
  <2>8. \A p \in 1..(Len(s) - 1) : p \in 1..(f - 1) \/ p \in f..(Len(s) - 1)
    BY <2>4, <1>1
  <2>9. ToSet(r) \subseteq ToSet(s)
    <3>1. \A p \in 1..(f - 1) : p \in 1..Len(s)
      BY <2>4, <1>1
    <3>2. \A p \in 1..(Len(s) - 1) : \E q \in 1..Len(s) : r[p] = s[q]
      BY <2>7, <2>8, <3>1
    <3>3. \A x \in ToSet(r) : \E p \in 1..(Len(s) - 1) : r[p] = x
      BY <2>6 DEF ToSet
    <3> QED
      BY <3>2, <3>3, <1>1
  <2>10. ASSUME NEW x \in ToSet(s), x # e PROVE x \in ToSet(r)
    <3>1. PICK p \in 1..Len(s) : s[p] = x
      BY <1>1
    <3>2. p # f
      BY <3>1, <2>10, <2>4
    <3>5. \A q \in 1..(Len(s) - 1) : r[q] \in ToSet(r)
      BY <2>6 DEF ToSet
    <3>3. CASE p < f
      <4>1. p \in 1..(f - 1)
        BY <3>3, <2>4, <1>1
      <4> QED
        BY <4>1, <3>1, <3>5, <2>7
    <3>4. CASE p > f
      <4>1. p - 1 \in f..(Len(s) - 1) /\ (p - 1) + 1 = p
        BY <3>4, <2>4, <1>1
      <4>2. r[p - 1] = s[p] /\ p - 1 \in 1..(Len(s) - 1)
        BY <4>1, <2>7
      <4> QED
        BY <4>2, <3>1, <3>5
    <3> QED
      BY <3>2, <3>3, <3>4, <2>4
  <2>11. ASSUME IsInjective(s) PROVE IsInjective(r) /\ e \notin ToSet(r)
    <3>1. \A p, q \in 1..Len(s) : s[p] = s[q] => p = q
      BY <1>1, <2>11 DEF IsInjective
    <3>0. ASSUME NEW p \in 1..(Len(s) - 1)
          PROVE  LET u == IF p < f THEN p ELSE p + 1
                 IN  u \in 1..Len(s) /\ r[p] = s[u] /\ u # f
      <4>1. CASE p < f
        <5>1. p \in 1..(f - 1) /\ p \in 1..Len(s)
          BY <4>1, <2>4, <1>1
        <5> QED
          BY <4>1, <5>1, <2>4, <2>7
      <4>2. CASE ~(p < f)
        <5>1. p \in f..(Len(s) - 1) /\ p + 1 # f
          BY <4>2, <2>4, <1>1
        <5> QED
          BY <4>2, <5>1, <2>7
      <4> QED
        BY <4>1, <4>2
    <3>2. ASSUME NEW p \in 1..(Len(s) - 1), NEW q \in 1..(Len(s) - 1), r[p] = r[q] PROVE p = q
      <4> DEFINE u == IF p < f THEN p ELSE p + 1
                 v == IF q < f THEN q ELSE q + 1
      <4>1. u \in 1..Len(s) /\ r[p] = s[u]
        BY <3>0
      <4>3. v \in 1..Len(s) /\ r[q] = s[v]
        BY <3>0
      <4>2. u = v
        BY <4>1, <4>3, <3>1, <3>2
      <4> QED
        BY <4>2, <2>4, <1>1
    <3>3. \A p \in 1..(Len(s) - 1) : r[p] # e
      <4> SUFFICES ASSUME NEW p \in 1..(Len(s) - 1), r[p] = e PROVE FALSE
        OBVIOUS
      <4> DEFINE u == IF p < f THEN p ELSE p + 1
      <4>1. u \in 1..Len(s) /\ r[p] = s[u] /\ u # f
        BY <3>0
      <4> QED
        BY <4>1, <3>1, <2>4
    <3> QED
      BY <3>2, <3>3, <2>6 DEF IsInjective, ToSet
  <2> QED
    BY <1>3, <2>6, <2>9, <2>10, <2>11
<1> QED
  BY <1>2, <1>3

---------------------------------------------------------------------------
(* Facts about the states.                                                 *)

LEMMA Params ==
    /\ M \in Nat \ {0} /\ M_max \in Nat \ {0} /\ efConstruction \in Nat \ {0} /\ m_L \in Nat \ {0}
    /\ K \in Nat \ {0} /\ M <= M_max /\ MaxNodes \in Nat
    /\ \A l : l \in Level <=> l \in Int /\ 0 <= l /\ l < m_L
  BY ParametersAssumption, NodesAssumption DEF Level

(* Nodes and their lists.                                                  *)
LEMMA NodeFacts ==
    ASSUME HnswTypeOK
    PROVE  /\ nodes \subseteq NodeId /\ Nil \notin nodes /\ IsFiniteSet(nodes)
           /\ made \in Nat
           /\ \A n \in nodes : n \in 1..made /\ level[n] \in 1..m_L /\ embedding[n] \in Vector
           /\ \A l \in Level : \A n \in NodeId : neighbors[l][n] \in Seq(nodes)
           /\ \A l \in Level : l \in Int /\ 0 <= l /\ l < m_L
<1>1. nodes \subseteq 1..made /\ made \in Nat /\ made <= MaxNodes
  BY Params DEF HnswTypeOK
<1>2. nodes \subseteq NodeId /\ Nil \notin nodes
  BY <1>1, Params DEF NodeId, Nil
<1>3. IsFiniteSet(nodes)
  <2>1. IsFiniteSet(1..made)
    BY <1>1, FS_Interval
  <2> QED
    BY <2>1, <1>1, FS_Subset
<1>4. \A n \in nodes : n \in 1..made /\ level[n] \in 1..m_L /\ embedding[n] \in Vector
  <2>1. embedding \in Seq(Vector) /\ Len(embedding) = made
    BY DEF HnswTypeOK
  <2>2. level \in Seq(1..m_L) /\ Len(level) = made
    BY DEF HnswTypeOK
  <2>3. \A n \in 1..made : embedding[n] \in Vector
    BY <2>1
  <2>4. \A n \in 1..made : level[n] \in 1..m_L
    BY <2>2, ElementOf
  <2> QED
    BY <2>3, <2>4, <1>1
<1>5. \A l \in Level : \A n \in NodeId : neighbors[l][n] \in Seq(nodes)
  BY DEF HnswTypeOK
<1> QED
  BY <1>1, <1>2, <1>3, <1>4, <1>5, Params

(* A neighbour is a node that is linked and reaches up to the level.       *)
LEMMA NeighborFacts ==
    ASSUME HnswTypeOK, DegreesBounded, NEW l \in Level, NEW n \in nodes, NEW m \in ToSet(neighbors[l][n])
    PROVE  /\ m \in nodes /\ m # n /\ level[m] > l /\ level[n] > l
           /\ neighbors[l][n] \in Seq(nodes)
<1>1. neighbors[l][n] \in Seq(nodes)
  BY NodeFacts
<1>2. neighbors[l][n] # <<>>
  BY <1>1, InList
<1> QED
  BY <1>1, <1>2 DEF DegreesBounded, Joined

(* The vector that is looked for.                                          *)
LEMMA SimFacts ==
    ASSUME HnswTypeOK, PlaceOK, pc # "idle"
    PROVE  \A n \in nodes : sim(n) \in Nat
<1>1. target \in Vector
  BY NodeFacts DEF HnswTypeOK, PlaceOK, target, Nil
<1> QED
  BY <1>1, NodeFacts, SimAssumption DEF sim

---------------------------------------------------------------------------
(* The descent.                                                            *)

LEMMA DescentStep ==
    ASSUME HnswInv, Hop \/ LevelDown
    PROVE  HnswInv'
<1>1. /\ UNCHANGED <<made, nodes, embedding, level, entry, neighbors, deleted_nodes, pc, newNode, query,
                     queue, pq, slots, j, result, pruned, shifted>>
      /\ HnswTypeOK /\ DegreesBounded /\ PlaceOK /\ NewOK /\ ConnectedOK
  BY DEF HnswInv, Hop, LevelDown, graph, call, loop, history
<1>2. /\ pc \in {"insert", "search"} /\ i \in Level /\ entry \in nodes /\ cur \in nodes
      /\ cur # newNode /\ i < level[entry] /\ i < level[cur]
      /\ pc = "insert" => newNode \in nodes /\ newNode # Nil /\ i >= level[newNode]
      /\ pc = "search" => newNode = Nil
  <2>1. pc \in {"insert", "search"} /\ i >= 0
    <3>1. Descending
      BY DEF Hop, LevelDown
    <3>2. pc = "insert" => i >= 0
      BY <1>1 DEF PlaceOK
    <3> QED
      BY <3>1, <3>2 DEF Descending
  <2>2. /\ entry \in nodes /\ cur \in nodes /\ cur # newNode /\ i < level[entry] /\ i < level[cur]
        /\ pc = "insert" => newNode \in nodes /\ newNode # Nil
        /\ pc = "search" => newNode = Nil
    <3>1. newNode \in nodes \cup {Nil} /\ pc \in {"insert", "search"}
      BY <2>1, <1>1 DEF HnswTypeOK
    <3>2. entry \in nodes /\ cur \in nodes /\ cur # newNode /\ i < level[entry] /\ i < level[cur]
      BY <3>1, <1>1 DEF PlaceOK
    <3>3. (pc = "insert" => newNode # Nil) /\ (pc = "search" => newNode = Nil)
      BY <1>1 DEF PlaceOK
    <3> QED
      BY <3>1, <3>2, <3>3
  <2>3. i \in Level
    <3>1. i \in -1..m_L - 1
      BY <1>1 DEF HnswTypeOK
    <3> QED
      BY <3>1, <2>1, Params
  <2>4. pc = "insert" => i >= level[newNode]
    BY <1>1 DEF Hop, LevelDown, Descending
  <2> QED
    BY <2>1, <2>2, <2>3, <2>4
<1>3. /\ i' \in Int /\ i' <= i /\ i - 1 <= i'
      /\ cur' \in nodes /\ cur' # newNode /\ i < level[cur']
      /\ pc = "insert" => i' >= 0
      /\ i' < i => cur' = cur
  <2>1. CASE Hop
    <3>1. cur' \in ToSet(neighbors[i][cur]) /\ i' = i
      BY <2>1 DEF Hop, Closer, walk
    <3>2. cur' \in nodes /\ level[cur'] > i
      BY <3>1, <1>1, <1>2, NeighborFacts
    <3>3. cur' # newNode
      BY <3>1, <3>2, <1>1, <1>2, NodeFacts DEF NewOK, Unlinked
    <3> QED
      BY <3>1, <3>2, <3>3, <1>2, NodeFacts, <1>1
  <2>2. CASE LevelDown
    BY <2>2, <1>1, <1>2, NodeFacts DEF LevelDown
  <2> QED
    BY <2>1, <2>2
<1>4. HnswTypeOK'
  <2>1. i' \in -1..m_L - 1
    BY <1>2, <1>3, Params
  <2> QED
    BY <2>1, <1>1, <1>3 DEF HnswTypeOK
<1>5. PlaceOK'
  BY <1>1, <1>2, <1>3, NodeFacts DEF PlaceOK
<1>6. NewOK'
  <2>1. \A l \in Level : Unlinked(l)' => Unlinked(l)
    BY <1>1, <1>2, <1>3, NodeFacts DEF Unlinked
  <2> QED
    BY <2>1, <1>1, <1>2 DEF NewOK
<1>7. ConnectedOK'
  <2>1. \A l \in Level : Old(l)' = Old(l)
    <3> SUFFICES ASSUME NEW l \in Level PROVE Old(l)' = Old(l)
      OBVIOUS
    <3>1. Joined(l)' = Joined(l)
      BY <1>1 DEF Joined
    <3>2. l \in Int /\ i \in Int
      BY <1>1, <1>2, NodeFacts
    <3>3. CASE (l <= i') <=> (l <= i)
      BY <3>1, <3>3, <1>1 DEF Old
    <3>4. CASE ~((l <= i') <=> (l <= i))
      <4>1. l = i
        BY <3>2, <3>4, <1>3
      <4>2. newNode # Nil => newNode \notin Joined(l)
        BY <4>1, <1>1, <1>2, NodeFacts DEF Joined
      <4> QED
        BY <3>1, <4>2, <1>1 DEF Old
    <3> QED
      BY <3>3, <3>4
  <2>2. \A l \in Level : Connected(l)' <=> Connected(l)
    BY <2>1, <1>1 DEF Connected, Closed
  <2> QED
    BY <2>2, <1>1, <1>2 DEF ConnectedOK
<1>8. DegreesBounded' /\ EntryIsHighest'
  BY <1>1 DEF HnswInv, DegreesBounded, EntryIsHighest, Joined
<1>9. HeapsOK' /\ ListOK' /\ AnswerOK'
  BY <1>1, <1>2 DEF HnswInv, HeapsOK, ListOK, AnswerOK
<1>10. MutualOK'
  BY <1>1, <1>2 DEF HnswInv, MutualOK
<1> QED
  BY <1>4, <1>5, <1>6, <1>7, <1>8, <1>9, <1>10 DEF HnswInv

---------------------------------------------------------------------------
(* The calls that only read the graph.                                     *)

LEMMA SearchStep ==
    ASSUME HnswInv, NEW v \in Vector, search_knn_hnsw(v)
    PROVE  HnswInv'
<1>1. /\ UNCHANGED <<made, nodes, embedding, level, entry, neighbors, deleted_nodes, newNode,
                     queue, pq, slots, j, pruned, shifted>>
      /\ pc = "idle" /\ pc' = "search" /\ query' = <<v>> /\ cur' = entry /\ i' = level[entry] - 1
      /\ result' = <<>> /\ entry # Nil
      /\ HnswTypeOK /\ DegreesBounded /\ PlaceOK /\ NewOK /\ ConnectedOK
  BY DEF HnswInv, search_knn_hnsw, FromEntry, graph, loop, history
<1>2. newNode = Nil /\ entry \in nodes /\ level[entry] \in 1..m_L /\ entry # newNode
  BY <1>1, NodeFacts DEF PlaceOK, HnswTypeOK
<1>3. HnswTypeOK'
  <2>1. i' \in -1..m_L - 1
    BY <1>1, <1>2, Params
  <2>2. result' \in Seq(1..made)
    BY <1>1
  <2> QED
    BY <2>1, <2>2, <1>1, <1>2 DEF HnswTypeOK
<1>4. PlaceOK'
  BY <1>1, <1>2 DEF PlaceOK
<1>5. NewOK' /\ HeapsOK' /\ ListOK'
  BY <1>1, <1>2 DEF NewOK, HeapsOK, ListOK
<1>6. ConnectedOK'
  <2>1. \A l \in Level : Connected(l)' <=> Connected(l)
    BY <1>1, <1>2 DEF Connected, Closed, Old, Joined
  <2> QED
    BY <2>1, <1>1 DEF ConnectedOK
<1>7. DegreesBounded' /\ EntryIsHighest'
  BY <1>1 DEF HnswInv, DegreesBounded, EntryIsHighest, Joined
<1>8. MutualOK' /\ AnswerOK'
  <2>1. \A n \in nodes : n # newNode
    BY <1>1, <1>2, NodeFacts
  <2> QED
    BY <2>1, <1>1, <1>2 DEF HnswInv, MutualOK, AnswerOK
<1> QED
  BY <1>3, <1>4, <1>5, <1>6, <1>7, <1>8 DEF HnswInv

LEMMA DeleteStep ==
    ASSUME HnswInv, NEW n \in nodes, del(n) \/ restoreDeletedNode(n)
    PROVE  HnswInv'
<1>1. /\ UNCHANGED <<made, nodes, embedding, level, entry, neighbors, pc, newNode, query, cur, i,
                     queue, pq, slots, j, pruned, shifted>>
      /\ pc = "idle" /\ result' = <<>> /\ deleted_nodes' \subseteq nodes
  BY DEF HnswInv, HnswTypeOK, del, restoreDeletedNode, graph, call, walk, loop, history
<1>2. HnswTypeOK'
  <2>1. result' \in Seq(1..made)
    BY <1>1
  <2> QED
    BY <2>1, <1>1 DEF HnswInv, HnswTypeOK
<1>3. DegreesBounded' /\ EntryIsHighest' /\ PlaceOK' /\ HeapsOK' /\ NewOK' /\ ListOK'
  BY <1>1 DEF HnswInv, DegreesBounded, EntryIsHighest, PlaceOK, HeapsOK, NewOK, ListOK, Unlinked, Joined
<1>4. MutualOK' /\ AnswerOK'
  BY <1>1 DEF HnswInv, MutualOK, AnswerOK, Pending
<1>5. ConnectedOK'
  <2>1. \A l \in Level : Connected(l)' <=> Connected(l)
    BY <1>1 DEF Connected, Closed, Old, Joined
  <2> QED
    BY <2>1, <1>1 DEF HnswInv, ConnectedOK
<1> QED
  BY <1>2, <1>3, <1>4, <1>5 DEF HnswInv

---------------------------------------------------------------------------
(* The visits.                                                             *)

LEMMA StartStep ==
    ASSUME HnswInv, StartVisits
    PROVE  HnswInv'
<1>1. /\ UNCHANGED <<made, nodes, embedding, level, entry, neighbors, deleted_nodes, newNode, query, cur,
                     slots, j, result, pruned, shifted>>
      /\ pc' = "visit" /\ queue' = {cur} /\ pq' = {}
      /\ \/ pc = "insert" /\ i < level[newNode] /\ i' = i
         \/ pc = "search" /\ i' = 0
      /\ HnswTypeOK /\ DegreesBounded /\ PlaceOK /\ NewOK /\ ConnectedOK
  BY DEF HnswInv, StartVisits, graph, loop, history
<1>2. /\ cur \in nodes /\ cur # newNode /\ entry \in nodes /\ entry # newNode
      /\ pc = "insert" => newNode \in nodes /\ newNode # Nil /\ i >= 0 /\ i < level[cur] /\ i < level[entry]
      /\ pc = "search" => newNode = Nil
  BY <1>1 DEF PlaceOK, HnswTypeOK
<1>3. /\ 0 <= i' /\ i' < level[entry] /\ i' < level[cur] /\ i' \in Int
      /\ pc = "insert" => i' < level[newNode]
  <2>1. level[entry] \in 1..m_L /\ level[cur] \in 1..m_L /\ i \in Int
    BY <1>1, <1>2, NodeFacts DEF HnswTypeOK
  <2> QED
    BY <2>1, <1>1, <1>2
<1>4. HnswTypeOK'
  <2>1. i' \in -1..m_L - 1
    BY <1>1, <1>2, <1>3, Params, NodeFacts
  <2> QED
    BY <2>1, <1>1, <1>2 DEF HnswTypeOK
<1>5. PlaceOK'
  BY <1>1, <1>2, <1>3 DEF PlaceOK
<1>6. HeapsOK'
  BY <1>1, <1>2, <1>3 DEF HeapsOK, Joined
<1>7. NewOK' /\ ListOK'
  <2>1. newNode # Nil => \A l \in Level : Unlinked(l)' => Unlinked(l)
    BY <1>1, <1>2 DEF Unlinked
  <2> QED
    BY <2>1, <1>1, <1>2 DEF NewOK, ListOK
<1>8. ConnectedOK'
  <2>1. \A l \in Level : Connected(l)' <=> Connected(l)
    BY <1>1, <1>2 DEF Connected, Closed, Old, Joined
  <2> QED
    BY <2>1, <1>1 DEF ConnectedOK
<1>9. DegreesBounded' /\ EntryIsHighest'
  BY <1>1 DEF HnswInv, DegreesBounded, EntryIsHighest, Joined
<1>10. MutualOK'
  BY <1>1, <1>2 DEF HnswInv, MutualOK
<1>11. AnswerOK'
  BY <1>1, <1>2 DEF HnswInv, AnswerOK
<1> QED
  BY <1>4, <1>5, <1>6, <1>7, <1>8, <1>9, <1>10, <1>11 DEF HnswInv

(* The node visited and its neighbours are of the level and not new.       *)
LEMMA VisitStep ==
    ASSUME HnswInv, Visit
    PROVE  HnswInv'
<1>1. /\ UNCHANGED <<made, nodes, embedding, level, entry, neighbors, deleted_nodes, pc, newNode, query,
                     cur, i, slots, j, result, pruned, shifted>>
      /\ pc = "visit"
      /\ HnswTypeOK /\ DegreesBounded /\ PlaceOK /\ NewOK /\ ConnectedOK /\ HeapsOK
  BY DEF HnswInv, Visit, Visiting, graph, call, loop, history
<1>2. PICK n \in queue : pq' = pq \cup {n} /\ queue' = (queue \cup ToSet(neighbors[i][n])) \ pq'
  BY DEF Visit, Top
<1>3. /\ i \in Level /\ n \in nodes /\ queue \subseteq Joined(i) \ {newNode} /\ pq \subseteq Joined(i) \ {newNode}
  <2>1. i \in -1..m_L - 1 /\ i >= 0
    BY <1>1 DEF HnswTypeOK, PlaceOK
  <2>2. i \in Level
    BY <2>1, Params
  <2>3. n \in nodes
    BY <1>1, <1>2 DEF HnswTypeOK
  <2> QED
    BY <2>2, <2>3, <1>1 DEF HeapsOK
<1>4. ToSet(neighbors[i][n]) \subseteq Joined(i) \ {newNode}
  <2> SUFFICES ASSUME NEW m \in ToSet(neighbors[i][n]) PROVE m \in Joined(i) /\ m # newNode
    OBVIOUS
  <2>1. m \in Joined(i)
    BY <1>1, <1>3, NeighborFacts DEF Joined
  <2>2. newNode # Nil => newNode \notin ToSet(neighbors[i][n])
    BY <1>1, <1>3 DEF NewOK, Unlinked
  <2>3. m # Nil
    BY <2>1, <1>1, NodeFacts DEF Joined
  <2> QED
    BY <2>1, <2>2, <2>3
<1>5. queue' \subseteq Joined(i) \ {newNode} /\ pq' \subseteq Joined(i) \ {newNode}
  BY <1>2, <1>3, <1>4
<1>6. HeapsOK'
  BY <1>1, <1>2, <1>5 DEF HeapsOK, Joined
<1>7. HnswTypeOK'
  <2>1. queue' \subseteq nodes /\ pq' \subseteq nodes
    BY <1>5 DEF Joined
  <2> QED
    BY <2>1, <1>1 DEF HnswTypeOK
<1>8. PlaceOK' /\ NewOK' /\ ListOK'
  BY <1>1 DEF PlaceOK, NewOK, ListOK, Unlinked
<1>9. ConnectedOK'
  <2>1. \A l \in Level : Connected(l)' <=> Connected(l)
    BY <1>1 DEF Connected, Closed, Old, Joined
  <2> QED
    BY <2>1, <1>1 DEF ConnectedOK
<1>10. DegreesBounded' /\ EntryIsHighest'
  BY <1>1 DEF HnswInv, DegreesBounded, EntryIsHighest, Joined
<1>11. MutualOK'
  BY <1>1 DEF HnswInv, MutualOK
<1>12. AnswerOK'
  <2>1. newNode = Nil => i = 0 /\ result = <<>> /\ \A m \in pq : ToSet(neighbors[0][m]) \subseteq pq \cup queue
    BY <1>1 DEF HnswInv, PlaceOK, AnswerOK
  <2>2. newNode = Nil => \A m \in pq' : ToSet(neighbors[0][m]) \subseteq pq' \cup queue'
    BY <2>1, <1>2
  <2> QED
    BY <2>1, <2>2, <1>1 DEF AnswerOK
<1> QED
  BY <1>6, <1>7, <1>8, <1>9, <1>10, <1>11, <1>12 DEF HnswInv

(* All nodes of a connected graph are visited if efConstruction allows.    *)
LEMMA AllVisited ==
    ASSUME HnswInv, EndVisits, newNode = Nil, ~pruned, Cardinality(nodes) <= efConstruction
    PROVE  nodes \subseteq pq
<1>1. /\ pc = "visit" /\ (queue = {} \/ ~(Cardinality(pq) < efConstruction))
      /\ HnswTypeOK /\ PlaceOK /\ ConnectedOK /\ HeapsOK /\ AnswerOK
  BY DEF HnswInv, EndVisits, Visiting
<1>2. /\ i = 0 /\ pq \subseteq nodes /\ cur \in queue \cup pq /\ cur \in nodes
      /\ \A n \in pq : ToSet(neighbors[0][n]) \subseteq pq \cup queue
  BY <1>1 DEF PlaceOK, HnswTypeOK, HeapsOK, AnswerOK
<1>3. Joined(0) = nodes /\ 0 \in Level
  BY <1>1, NodeFacts, Params DEF Joined
<1>4. CASE queue = {}
  <2>1. Closed(pq, {0}) /\ cur \in pq
    BY <1>2, <1>4 DEF Closed
  <2>2. Old(0) = nodes
    BY <1>3 DEF Old
  <2>3. Connected(0)
    BY <1>1, <1>3 DEF ConnectedOK
  <2> QED
    BY <2>1, <2>2, <2>3, <1>2 DEF Connected
<1>5. CASE ~(Cardinality(pq) < efConstruction)
  <2>1. IsFiniteSet(nodes) /\ IsFiniteSet(pq)
    BY <1>1, <1>2, NodeFacts, FS_Subset
  <2>2. Cardinality(nodes) \in Nat /\ Cardinality(pq) \in Nat /\ Cardinality(pq) <= Cardinality(nodes)
    BY <2>1, <1>2, FS_CardinalityType, FS_Subset
  <2>3. Cardinality(pq) = Cardinality(nodes)
    BY <2>2, <1>5, Params
  <2> QED
    BY <2>1, <2>3, <1>2, FS_Subset
<1> QED
  BY <1>1, <1>4, <1>5

LEMMA EndVisitsStep ==
    ASSUME HnswInv, EndVisits
    PROVE  HnswInv'
<1>1. /\ UNCHANGED <<made, nodes, embedding, level, entry, neighbors, deleted_nodes, newNode, query,
                     cur, i, pq, slots, j, result, pruned, shifted>>
      /\ pc = "visit" /\ pc' = (IF newNode # Nil THEN "choose" ELSE "answer") /\ queue' = {}
      /\ queue = {} \/ ~(Cardinality(pq) < efConstruction)
      /\ HnswTypeOK /\ DegreesBounded /\ PlaceOK /\ NewOK /\ ConnectedOK /\ HeapsOK /\ AnswerOK
  BY DEF HnswInv, EndVisits, Visiting, graph, loop, history
<1>2. pq # {}
  <2>1. CASE queue = {}
    BY <2>1, <1>1 DEF HeapsOK
  <2>2. CASE ~(Cardinality(pq) < efConstruction)
    <3>1. pq = {} => Cardinality(pq) = 0
      BY FS_EmptySet
    <3> QED
      BY <2>2, <3>1, Params
  <2> QED
    BY <2>1, <2>2, <1>1
<1>3. HnswTypeOK'
  BY <1>1 DEF HnswTypeOK
<1>4. PlaceOK'
  BY <1>1 DEF PlaceOK
<1>5. HeapsOK'
  BY <1>1 DEF HeapsOK, Joined
<1>6. i \in Level
  <2>1. i \in -1..m_L - 1 /\ i >= 0
    BY <1>1 DEF HnswTypeOK, PlaceOK
  <2> QED
    BY <2>1, Params
<1>7. NewOK'
  <2>1. newNode # Nil => \A l \in Level :
            /\ Unlinked(l)' => Unlinked(l)
            /\ l = i => Unlinked(l)
    BY <1>1 DEF Unlinked
  <2> QED
    BY <2>1, <1>1 DEF NewOK
<1>8. ListOK'
  <2> SUFFICES ASSUME pc' = "choose"
               PROVE  Len(mine) <= M /\ IsInjective(mine) /\ pq \cap ToSet(mine) = {}
    BY <1>1 DEF ListOK, mine
  <2>1. newNode # Nil
    BY <1>1
  <2>2. mine = <<>>
    BY <2>1, <1>1, <1>6 DEF NewOK, Unlinked, mine
  <2>3. Len(<<>>) = 0 /\ DOMAIN <<>> = {} /\ ToSet(<<>>) = {}
    BY DEF ToSet
  <2> QED
    BY <2>2, <2>3, Params DEF IsInjective
<1>9. ConnectedOK'
  <2>1. \A l \in Level : Connected(l)' <=> Connected(l)
    BY <1>1 DEF Connected, Closed, Old, Joined
  <2> QED
    BY <2>1, <1>1, <1>2 DEF ConnectedOK
<1>10. DegreesBounded' /\ EntryIsHighest'
  BY <1>1 DEF HnswInv, DegreesBounded, EntryIsHighest, Joined
<1>11. MutualOK'
  BY <1>1 DEF HnswInv, MutualOK
<1>12. AnswerOK'
  <2> SUFFICES ASSUME newNode = Nil PROVE AnswerOK'
    BY <1>1 DEF AnswerOK
  <2>1. result = <<>>
    BY <1>1 DEF AnswerOK
  <2>2. /\ Len(result) = 0 /\ DOMAIN result = {} /\ ToSet(result) = {}
    BY <2>1 DEF ToSet
  <2>3. ~pruned /\ Cardinality(nodes) <= efConstruction => nodes \subseteq pq
    BY AllVisited
  <2> QED
    BY <2>1, <2>2, <2>3, <1>1, Params DEF AnswerOK, IsInjective
<1> QED
  BY <1>3, <1>4, <1>5, <1>7, <1>8, <1>9, <1>10, <1>11, <1>12 DEF HnswInv

---------------------------------------------------------------------------
(* The result of a search.                                                 *)

LEMMA AnswerStep ==
    ASSUME HnswInv, Answer
    PROVE  HnswInv'
<1>1. /\ UNCHANGED <<made, nodes, embedding, level, entry, neighbors, deleted_nodes, pc, newNode, query,
                     cur, i, queue, slots, j, pruned, shifted>>
      /\ pc = "answer" /\ Len(result) < K
      /\ HnswTypeOK /\ DegreesBounded /\ PlaceOK /\ NewOK /\ ConnectedOK /\ HeapsOK /\ AnswerOK
  BY DEF HnswInv, Answer, graph, call, loop, history
<1>2. PICK n \in Top(pq) : /\ pq' = pq \ {n}
                           /\ result' = IF n \in deleted_nodes THEN result ELSE Append(result, n)
  BY DEF Answer
<1>3. n \in pq /\ n \in nodes /\ \A m \in pq : sim(n) >= sim(m)
  BY <1>1 DEF Top, HnswTypeOK
<1>4. result \in Seq(1..made) /\ n \in 1..made
  BY <1>1, <1>3 DEF HnswTypeOK
<1>5. HnswTypeOK'
  <2>1. result' \in Seq(1..made) /\ pq' \subseteq nodes
    BY <1>1, <1>2, <1>4, OnList DEF HnswTypeOK
  <2> QED
    BY <2>1, <1>1 DEF HnswTypeOK
<1>6. PlaceOK' /\ NewOK' /\ ListOK'
  BY <1>1 DEF PlaceOK, NewOK, ListOK, Unlinked
<1>7. HeapsOK'
  BY <1>1, <1>2 DEF HeapsOK, Joined
<1>8. ConnectedOK'
  <2>1. \A l \in Level : Connected(l)' <=> Connected(l)
    BY <1>1 DEF Connected, Closed, Old, Joined
  <2> QED
    BY <2>1, <1>1 DEF ConnectedOK
<1>9. DegreesBounded' /\ EntryIsHighest'
  BY <1>1 DEF HnswInv, DegreesBounded, EntryIsHighest, Joined
<1>10. MutualOK'
  BY <1>1 DEF HnswInv, MutualOK
<1>11. \A m : sim(m)' = sim(m)
  BY <1>1 DEF sim, target
<1>12. AnswerOK'
  <2>1. CASE n \in deleted_nodes
    <3>1. result' = result /\ pq' = pq \ {n} /\ Len(result) <= K
      BY <2>1, <1>2, <1>1 DEF AnswerOK
    <3> QED
      BY <3>1, <2>1, <1>1, <1>11 DEF AnswerOK
  <2>2. CASE n \notin deleted_nodes
    <3> DEFINE r == Append(result, n)
    <3>1. result' = r /\ pq' = pq \ {n}
      BY <2>2, <1>2
    <3>2. /\ Len(r) = Len(result) + 1 /\ ToSet(r) = ToSet(result) \cup {n} /\ r[Len(result) + 1] = n
          /\ \A p \in 1..Len(result) : r[p] = result[p]
          /\ IsInjective(result) /\ n \notin ToSet(result) => IsInjective(r)
          /\ r \in Seq(1..made)
      <4> DEFINE T == 1..made
      <4>1. result \in Seq(T) /\ n \in T
        BY <1>4
      <4> HIDE DEF T
      <4>2. /\ Len(r) = Len(result) + 1 /\ ToSet(r) = ToSet(result) \cup {n} /\ r[Len(result) + 1] = n
            /\ \A p \in 1..Len(result) : r[p] = result[p]
            /\ IsInjective(result) /\ n \notin ToSet(result) => IsInjective(r)
            /\ r \in Seq(T)
        BY <4>1, OnList
      <4> QED
        BY <4>2 DEF T
    <3>3. /\ DOMAIN r = 1..(Len(result) + 1) /\ DOMAIN result = 1..Len(result) /\ Len(result) \in Nat
      BY <3>2, <1>4, InList
    <3> HIDE DEF r
    <3>4. Len(r) <= K /\ IsInjective(r) /\ ToSet(r) \subseteq nodes \ deleted_nodes /\ pq' \cap ToSet(r) = {}
      BY <3>1, <3>2, <3>3, <1>1, <1>3, <2>2, Params DEF AnswerOK
    <3>5. ASSUME NEW p \in DOMAIN r
          PROVE  /\ \A m \in pq' : sim(r[p]) >= sim(m)
                 /\ \A q \in DOMAIN r : p < q => sim(r[p]) >= sim(r[q])
      <4>1. CASE p = Len(result) + 1
        BY <4>1, <3>1, <3>2, <3>3, <1>3
      <4>2. CASE p \in 1..Len(result)
        <5>1. /\ \A m \in pq : sim(result[p]) >= sim(m)
              /\ \A q \in 1..Len(result) : p < q => sim(result[p]) >= sim(result[q])
          BY <4>2, <3>3, <1>1 DEF AnswerOK
        <5>2. \A q \in DOMAIN r : q \in 1..Len(result) \/ q = Len(result) + 1
          BY <3>3
        <5> QED
          BY <4>2, <5>1, <5>2, <3>1, <3>2, <1>3
      <4> QED
        BY <4>1, <4>2, <3>3
    <3>6. ~pruned /\ Cardinality(nodes) <= efConstruction => nodes \ deleted_nodes \subseteq ToSet(r) \cup pq'
      BY <3>1, <3>2, <1>1 DEF AnswerOK
    <3> QED
      BY <3>1, <3>4, <3>5, <3>6, <1>1, <1>11 DEF AnswerOK
  <2> QED
    BY <2>1, <2>2
<1> QED
  BY <1>5, <1>6, <1>7, <1>8, <1>9, <1>10, <1>12 DEF HnswInv

LEMMA EndSearchStep ==
    ASSUME HnswInv, EndSearch
    PROVE  HnswInv'
<1>1. /\ UNCHANGED <<made, nodes, embedding, level, entry, neighbors, deleted_nodes, result, pruned, shifted>>
      /\ pc = "answer" /\ pc' = "idle" /\ newNode' = Nil /\ query' = <<>> /\ cur' = Nil /\ i' = 0
      /\ queue' = {} /\ pq' = {} /\ slots' = <<>> /\ j' = 0
      /\ HnswTypeOK /\ DegreesBounded /\ PlaceOK /\ NewOK /\ ConnectedOK /\ MutualOK
  BY DEF HnswInv, EndSearch, Return, graph, call, loop, history
<1>2. newNode = Nil /\ newNode' = newNode
  BY <1>1 DEF PlaceOK
<1>3. HnswTypeOK'
  <2>1. i' \in -1..m_L - 1 /\ j' \in 0..M + 1 /\ slots' \in Seq(nodes)
    BY <1>1, Params
  <2> QED
    BY <2>1, <1>1 DEF HnswTypeOK
<1>4. PlaceOK' /\ HeapsOK' /\ NewOK' /\ ListOK' /\ AnswerOK'
  BY <1>1, <1>2 DEF PlaceOK, HeapsOK, NewOK, ListOK, AnswerOK
<1>5. ConnectedOK'
  <2>1. \A l \in Level : Connected(l)' <=> Connected(l)
    BY <1>1, <1>2 DEF Connected, Closed, Old, Joined
  <2> QED
    BY <2>1, <1>1 DEF ConnectedOK
<1>6. DegreesBounded' /\ EntryIsHighest'
  BY <1>1, <1>2 DEF HnswInv, DegreesBounded, EntryIsHighest, Joined
<1>7. MutualOK'
  BY <1>1 DEF MutualOK
<1> QED
  BY <1>3, <1>4, <1>5, <1>6, <1>7 DEF HnswInv

---------------------------------------------------------------------------
(* The list of the new node.                                               *)

LEMMA ChooseStep ==
    ASSUME HnswInv, Choose
    PROVE  HnswInv'
<1>1. /\ UNCHANGED <<made, nodes, embedding, level, entry, deleted_nodes, pc, newNode, query,
                     cur, i, queue, slots, j, result, pruned, shifted>>
      /\ pc = "choose" /\ Len(mine) < M
      /\ HnswTypeOK /\ DegreesBounded /\ PlaceOK /\ NewOK /\ ConnectedOK /\ HeapsOK /\ ListOK /\ MutualOK
  BY DEF HnswInv, Choose, graph, call, loop, history
<1>2. PICK n \in pq : pq' = pq \ {n} /\ neighbors' = [neighbors EXCEPT ![i][newNode] = Append(@, n)]
  BY DEF Choose, Top
<1>3. /\ i \in Level /\ newNode \in nodes /\ newNode \in NodeId /\ i < level[newNode] /\ newNode # Nil
      /\ n \in nodes /\ n \in Joined(i) \ {newNode} /\ mine \in Seq(nodes)
  <2>1. i \in -1..m_L - 1 /\ i >= 0 /\ newNode \in nodes /\ newNode # Nil
    BY <1>1 DEF HnswTypeOK, PlaceOK
  <2>2. i \in Level /\ newNode \in NodeId
    BY <2>1, <1>1, Params, NodeFacts
  <2> QED
    BY <2>1, <2>2, <1>1, <1>2, NodeFacts DEF PlaceOK, HeapsOK, Joined, mine
<1> DEFINE r == Append(mine, n)
<1>4. /\ \A l \in Level : \A m \in NodeId :
             neighbors'[l][m] = IF l = i /\ m = newNode THEN r ELSE neighbors[l][m]
      /\ neighbors' \in [Level -> [NodeId -> Seq(nodes)]]
      /\ mine' = r
  <2>1. neighbors \in [Level -> [NodeId -> Seq(nodes)]]
    BY <1>1 DEF HnswTypeOK
  <2>2. r \in Seq(nodes)
    BY <1>3
  <2> QED
    BY <2>1, <2>2, <1>1, <1>2, <1>3 DEF mine
<1>5. /\ r \in Seq(nodes) /\ Len(r) = Len(mine) + 1 /\ ToSet(r) = ToSet(mine) \cup {n}
      /\ IsInjective(r)
  BY <1>1, <1>2, <1>3, OnList DEF ListOK
<1>6. Len(mine) \in Nat /\ r # <<>>
  BY <1>3, <1>5, InList
<1> HIDE DEF r
<1>7. HnswTypeOK'
  <2>1. pq' \subseteq nodes
    BY <1>1, <1>2 DEF HnswTypeOK
  <2> QED
    BY <2>1, <1>1, <1>4 DEF HnswTypeOK
<1>8. nodes \subseteq NodeId
  BY <1>1, NodeFacts
<1>9. DegreesBounded'
  <2>1. Len(r) <= M_max /\ ToSet(r) \subseteq Joined(i) \ {newNode} /\ newNode \in Joined(i)
    <3>1. ToSet(mine) \subseteq Joined(i) \ {newNode} /\ newNode \in Joined(i)
      BY <1>1, <1>3 DEF DegreesBounded, mine, Joined
    <3> QED
      BY <3>1, <1>1, <1>3, <1>5, <1>6, Params
  <2> SUFFICES ASSUME NEW l \in Level, NEW m \in nodes
               PROVE  /\ Len(neighbors'[l][m]) <= M_max
                      /\ ToSet(neighbors'[l][m]) \subseteq Joined(l) \ {m}
                      /\ neighbors'[l][m] # <<>> => m \in Joined(l)
    BY <1>1 DEF DegreesBounded, Joined
  <2>2. CASE l = i /\ m = newNode
    BY <2>1, <2>2, <1>4, <1>8
  <2>3. CASE ~(l = i /\ m = newNode)
    BY <2>3, <1>1, <1>4, <1>8 DEF DegreesBounded
  <2> QED
    BY <2>2, <2>3
<1>10. EntryIsHighest' /\ PlaceOK'
  BY <1>1 DEF HnswInv, EntryIsHighest, PlaceOK
<1>11. HeapsOK'
  BY <1>1, <1>2 DEF HeapsOK, Joined
<1>12. NewOK'
  <2>1. \A l \in Level : Unlinked(l)' => Unlinked(l) /\ l # i
    BY <1>1, <1>3, NodeFacts DEF Unlinked
  <2>2. newNode \notin ToSet(r)
    BY <1>5, <1>3, <1>1 DEF DegreesBounded, mine
  <2>3. \A l \in Level : Unlinked(l) => l < i
    BY <1>1 DEF Unlinked
  <2>4. \A l \in Level : \A m \in NodeId : m # newNode => neighbors'[l][m] = neighbors[l][m]
    BY <1>4
  <2>5. \A l \in Level : l # i => neighbors'[l][newNode] = neighbors[l][newNode]
    BY <1>3, <1>4
  <2>6. \A l \in Level : \A m \in NodeId \ nodes : neighbors'[l][m] = <<>>
    BY <2>4, <1>1, <1>3 DEF NewOK
  <2>7. ASSUME NEW l \in Level, Unlinked(l) \/ l = i, NEW m \in nodes PROVE newNode \notin ToSet(neighbors'[l][m])
    <3>1. newNode \notin ToSet(neighbors[l][m])
      BY <2>7, <1>1, <1>3 DEF NewOK
    <3>2. neighbors'[l][m] \in {neighbors[l][m], r}
      BY <1>4, <1>8
    <3> QED
      BY <3>1, <3>2, <2>2
  <2>8. \A l \in Level : Unlinked(l)' => neighbors'[l][newNode] = <<>>
    BY <2>1, <2>5, <1>1, <1>3 DEF NewOK
  <2> QED
    BY <2>1, <2>6, <2>7, <2>8, <1>1 DEF NewOK
<1>13. ListOK'
  <2>1. pq' \cap ToSet(r) = {}
    BY <1>1, <1>2, <1>5 DEF ListOK
  <2>2. Len(r) <= M
    BY <1>1, <1>5, <1>6, Params
  <2> QED
    BY <2>1, <2>2, <1>1, <1>4, <1>5 DEF ListOK
<1>14. MutualOK'
  <2> SUFFICES ASSUME ~shifted PROVE MutualOK'
    BY <1>1 DEF MutualOK
  <2> SUFFICES ASSUME NEW l \in Level, NEW m \in nodes
               PROVE  /\ IsInjective(neighbors'[l][m])
                      /\ \A o \in ToSet(neighbors'[l][m]) : m \in ToSet(neighbors'[l][o]) \/ (m = newNode /\ l = i)
    BY <1>1 DEF MutualOK
  <2>1. CASE l = i /\ m = newNode
    BY <2>1, <1>4, <1>5, <1>8
  <2>2. CASE ~(l = i /\ m = newNode)
    <3>1. neighbors'[l][m] = neighbors[l][m]
      BY <2>2, <1>4, <1>8
    <3>2. /\ IsInjective(neighbors[l][m])
          /\ \A o \in ToSet(neighbors[l][m]) : m \in ToSet(neighbors[l][o]) \/ (m = newNode /\ l = i)
      BY <1>1 DEF MutualOK
    <3>3. \A o \in nodes : ToSet(neighbors[l][o]) \subseteq ToSet(neighbors'[l][o])
      BY <1>4, <1>5, <1>8 DEF mine
    <3>4. ToSet(neighbors[l][m]) \subseteq nodes
      BY <1>1, NeighborFacts
    <3> QED
      BY <3>1, <3>2, <3>3, <3>4
  <2> QED
    BY <2>1, <2>2
<1>15. ConnectedOK'
  <2> SUFFICES ASSUME ~pruned PROVE ConnectedOK'
    BY <1>1 DEF ConnectedOK
  <2>1. ASSUME NEW l \in Level PROVE Connected(l)'
    <3>1. Old(l)' = Old(l)
      BY <1>1 DEF Old, Joined
    <3> SUFFICES ASSUME NEW S \in SUBSET nodes, Closed(S, {l})', S \cap Old(l) # {} PROVE Old(l) \subseteq S
      BY <3>1, <1>1 DEF Connected
    <3>2. Closed(S, {l})
      BY <1>1, <1>4, <1>5, <1>8 DEF Closed, mine
    <3> QED
      BY <3>2, <1>1 DEF ConnectedOK, Connected
  <2> QED
    BY <2>1, <1>1, <1>4, <1>6 DEF ConnectedOK
<1>16. AnswerOK'
  BY <1>1, <1>3 DEF HnswInv, AnswerOK
<1> QED
  BY <1>7, <1>9, <1>10, <1>11, <1>12, <1>13, <1>14, <1>15, <1>16 DEF HnswInv

LEMMA EndChooseStep ==
    ASSUME HnswInv, EndChoose
    PROVE  HnswInv'
<1>1. /\ UNCHANGED <<made, nodes, embedding, level, entry, neighbors, deleted_nodes, newNode, query,
                     cur, i, queue, result, pruned, shifted>>
      /\ pc = "choose" /\ pc' = "connect" /\ pq' = {} /\ slots' = mine /\ j' = 1
      /\ pq = {} \/ Len(mine) >= M
      /\ HnswTypeOK /\ DegreesBounded /\ PlaceOK /\ NewOK /\ ConnectedOK /\ HeapsOK /\ ListOK /\ MutualOK
  BY DEF HnswInv, EndChoose, graph, history
<1>2. /\ i \in Level /\ newNode \in nodes /\ newNode # Nil /\ mine \in Seq(nodes) /\ mine' = mine
  <2>1. i \in -1..m_L - 1 /\ i >= 0 /\ newNode \in nodes /\ newNode # Nil
    BY <1>1 DEF HnswTypeOK, PlaceOK
  <2>2. i \in Level
    BY <2>1, Params
  <2> QED
    BY <2>1, <2>2, <1>1, NodeFacts DEF mine
<1>3. /\ Len(mine) \in Nat /\ DOMAIN mine = 1..Len(mine) /\ Len(mine) <= M /\ IsInjective(mine)
      /\ ToSet(mine) \subseteq Joined(i) \ {newNode}
  BY <1>1, <1>2, InList DEF ListOK, DegreesBounded, mine
<1>4. HnswTypeOK'
  <2>1. j' \in 0..M + 1 /\ slots' \in Seq(nodes)
    BY <1>1, <1>2, Params
  <2> QED
    BY <2>1, <1>1 DEF HnswTypeOK
<1>5. PlaceOK' /\ HeapsOK' /\ AnswerOK'
  BY <1>1, <1>2 DEF PlaceOK, HeapsOK, AnswerOK
<1>6. NewOK'
  <2>1. \A l \in Level : Unlinked(l)' => Unlinked(l)
    BY <1>1 DEF Unlinked
  <2> QED
    BY <2>1, <1>1 DEF NewOK
<1>7. ListOK'
  <2>1. 1 \in 1..Len(mine) + 1
    BY <1>3
  <2> QED
    BY <2>1, <1>1, <1>2, <1>3 DEF ListOK, Joined
<1>8. DegreesBounded' /\ EntryIsHighest'
  BY <1>1 DEF HnswInv, DegreesBounded, EntryIsHighest, Joined
<1>9. MutualOK'
  <2> SUFFICES ASSUME ~shifted PROVE MutualOK'
    BY <1>1 DEF MutualOK
  <2>1. Pending' = ToSet(mine)
    BY <1>1, <1>3 DEF Pending, ToSet
  <2>2. \A n \in ToSet(mine) : newNode \notin ToSet(neighbors[i][n])
    BY <1>1, <1>2, <1>3 DEF NewOK, Joined
  <2>3. \A p, p2 \in 1..Len(mine) : mine[p] = mine[p2] => p = p2
    BY <1>3 DEF IsInjective
  <2>4. \A l \in Level : \A n \in nodes :
            /\ IsInjective(neighbors[l][n])
            /\ \A m \in ToSet(neighbors[l][n]) :
                   n \in ToSet(neighbors[l][m]) \/ (n = newNode /\ l = i /\ m \in ToSet(mine))
    BY <1>1 DEF MutualOK, mine
  <2> QED
    BY <2>1, <2>2, <2>3, <2>4, <1>1, <1>2 DEF MutualOK
<1>10. ConnectedOK'
  <2>1. \A l \in Level : Connected(l)' <=> Connected(l)
    BY <1>1 DEF Connected, Closed, Old, Joined
  <2>2. ~pruned => mine # <<>>
    <3>1. Len(mine) >= M => mine # <<>>
      BY <1>2, <1>3, InList, Params
    <3> QED
      BY <3>1, <1>1 DEF ConnectedOK
  <2>3. 1..1 - 1 = {}
    OBVIOUS
  <2> QED
    BY <2>1, <2>2, <2>3, <1>1, <1>2 DEF ConnectedOK
<1> QED
  BY <1>4, <1>5, <1>6, <1>7, <1>8, <1>9, <1>10 DEF HnswInv

---------------------------------------------------------------------------
(* A new node.                                                             *)

LEMMA CreatedFacts ==
    ASSUME HnswTypeOK, NewOK, NEW v \in Vector, NEW h \in 1..m_L, Created(v, h), NEW new, new = made + 1
    PROVE  /\ made' = new /\ new \notin nodes /\ new \in NodeId /\ new # Nil /\ nodes' = nodes \cup {new}
           /\ \A n \in nodes : level'[n] = level[n] /\ embedding'[n] = embedding[n]
           /\ level'[new] = h
           /\ made' \in 0..MaxNodes /\ nodes' \subseteq 1..made'
           /\ embedding' \in Seq(Vector) /\ Len(embedding') = made'
           /\ level' \in Seq(1..m_L) /\ Len(level') = made'
           /\ neighbors' \in [Level -> [NodeId -> Seq(nodes')]]
           /\ \A l \in Level : neighbors[l][new] = <<>>
           /\ \A l \in Level : \A n \in nodes : n \in Joined(l)' <=> n \in Joined(l)
<1>1. /\ made' = new /\ nodes' = nodes \cup {new} /\ embedding' = Append(embedding, v)
      /\ level' = Append(level, h) /\ neighbors' = neighbors /\ made < MaxNodes
  BY DEF Created
<1>2. made \in Nat /\ new \in Nat /\ new \in 1..MaxNodes /\ nodes \subseteq 1..made
  BY <1>1, Params DEF HnswTypeOK
<1>3. new \notin nodes /\ new \in NodeId /\ new # Nil /\ made' \in 0..MaxNodes /\ nodes' \subseteq 1..made'
  BY <1>1, <1>2 DEF NodeId, Nil
<1>4. /\ embedding' \in Seq(Vector) /\ Len(embedding') = made'
      /\ \A n \in 1..made : embedding'[n] = embedding[n]
  <2>1. embedding \in Seq(Vector) /\ Len(embedding) = made
    BY DEF HnswTypeOK
  <2> QED
    BY <2>1, <1>1, OnList
<1>5. /\ level' \in Seq(1..m_L) /\ Len(level') = made'
      /\ \A n \in 1..made : level'[n] = level[n]
      /\ level'[new] = h
  <2> DEFINE T == 1..m_L
  <2>1. level \in Seq(T) /\ Len(level) = made /\ h \in T
    BY DEF HnswTypeOK
  <2> HIDE DEF T
  <2>2. /\ level' \in Seq(T) /\ Len(level') = made' /\ level'[made + 1] = h
        /\ \A n \in 1..made : level'[n] = level[n]
    BY <2>1, <1>1, OnList
  <2> QED
    BY <2>2 DEF T
<1>6. neighbors' \in [Level -> [NodeId -> Seq(nodes')]]
  <2>1. Seq(nodes) \subseteq Seq(nodes')
    BY <1>1
  <2> QED
    BY <2>1, <1>1 DEF HnswTypeOK
<1>7. \A l \in Level : neighbors[l][new] = <<>>
  BY <1>3 DEF NewOK
<1>8. \A n \in nodes : level'[n] = level[n] /\ embedding'[n] = embedding[n]
  BY <1>2, <1>4, <1>5
<1>9. \A l \in Level : \A n \in nodes : n \in Joined(l)' <=> n \in Joined(l)
  BY <1>1, <1>8 DEF Joined
<1> QED
  BY <1>1, <1>3, <1>4, <1>5, <1>6, <1>7, <1>8, <1>9

LEMMA InsertStep ==
    ASSUME HnswInv, NEW v \in Vector, NEW h \in 1..m_L, InsertFirst(v, h) \/ insert(v, h)
    PROVE  HnswInv'
<1>1. /\ UNCHANGED <<neighbors, deleted_nodes, query, queue, pq, slots, j, pruned, shifted>>
      /\ pc = "idle" /\ result' = <<>> /\ Created(v, h)
      /\ HnswTypeOK /\ DegreesBounded /\ PlaceOK /\ NewOK /\ ConnectedOK /\ MutualOK /\ EntryIsHighest
  BY DEF HnswInv, InsertFirst, insert, FromEntry, Created, call, walk, loop, history
<1> DEFINE new == made + 1
<1>2. /\ made' = new /\ new \notin nodes /\ new \in NodeId /\ new # Nil /\ nodes' = nodes \cup {new}
      /\ \A n \in nodes : level'[n] = level[n]
      /\ level'[new] = h
      /\ made' \in 0..MaxNodes /\ nodes' \subseteq 1..made'
      /\ embedding' \in Seq(Vector) /\ Len(embedding') = made'
      /\ level' \in Seq(1..m_L) /\ Len(level') = made'
      /\ neighbors' \in [Level -> [NodeId -> Seq(nodes')]]
      /\ \A l \in Level : neighbors[l][new] = <<>>
      /\ \A l \in Level : \A n \in nodes : n \in Joined(l)' <=> n \in Joined(l)
  BY <1>1, CreatedFacts
<1> HIDE DEF new
<1>3. newNode = Nil /\ cur = Nil /\ queue = {} /\ pq = {} /\ slots = <<>>
  BY <1>1 DEF PlaceOK
<1>4. \/ /\ entry = Nil /\ nodes = {} /\ entry' = new
         /\ pc' = pc /\ newNode' = Nil /\ cur' = Nil /\ i' = i
      \/ /\ entry # Nil /\ entry \in nodes /\ entry' = entry
         /\ pc' = "insert" /\ newNode' = new /\ cur' = entry /\ i' = level[entry] - 1
  <2>1. CASE InsertFirst(v, h)
    BY <2>1, <1>1, <1>2, <1>3 DEF InsertFirst, call, walk, HnswTypeOK
  <2>2. CASE insert(v, h)
    BY <2>2, <1>1, <1>2, <1>3 DEF insert, FromEntry, HnswTypeOK
  <2> QED
    BY <2>1, <2>2
<1>5. \A n \in nodes : level[n] \in 1..m_L /\ n # Nil /\ n \in NodeId
  BY <1>1, NodeFacts
<1>6. ToSet(<<>>) = {} /\ Len(<<>>) = 0 /\ IsInjective(<<>>)
  BY DEF ToSet, IsInjective
<1>7. HnswTypeOK'
  <2>1. i' \in -1..m_L - 1
    <3>1. entry \in nodes => level[entry] - 1 \in -1..m_L - 1
      BY <1>5, Params
    <3>2. i \in -1..m_L - 1
      BY <1>1 DEF HnswTypeOK
    <3> QED
      BY <3>1, <3>2, <1>4
  <2>2. slots' \in Seq(nodes') /\ result' \in Seq(1..made')
    BY <1>1, <1>3
  <2>3. /\ entry' \in nodes' /\ nodes' # {} /\ entry' # Nil
        /\ newNode' \in nodes' \cup {Nil} /\ cur' \in nodes' \cup {Nil}
    BY <1>2, <1>4, <1>5
  <2> QED
    BY <2>1, <2>2, <2>3, <1>1, <1>2, <1>3 DEF HnswTypeOK
<1>8. PlaceOK'
  <2>1. CASE entry = Nil
    BY <2>1, <1>1, <1>2, <1>3, <1>4 DEF PlaceOK
  <2>2. CASE entry # Nil
    <3>1. /\ pc' = "insert" /\ newNode' = new /\ new # Nil /\ entry' \in nodes' \ {new} /\ cur' \in nodes' \ {new}
      BY <2>2, <1>2, <1>4
    <3>2. i' < level'[entry'] /\ i' < level'[cur'] /\ i' >= 0
      <4>1. entry \in nodes /\ entry' = entry /\ cur' = entry /\ i' = level[entry] - 1
        BY <2>2, <1>4
      <4>2. level'[entry] = level[entry] /\ level[entry] \in Int /\ level[entry] >= 1
        BY <4>1, <1>2, <1>5, Params
      <4> QED
        BY <4>1, <4>2
    <3> QED
      BY <3>1, <3>2 DEF PlaceOK
  <2> QED
    BY <2>1, <2>2
<1>9. HeapsOK' /\ ListOK' /\ AnswerOK'
  BY <1>1, <1>2, <1>4 DEF HeapsOK, ListOK, AnswerOK
<1>10. \A l \in Level : \A n \in nodes : new \notin ToSet(neighbors[l][n]) /\ ToSet(neighbors[l][n]) \subseteq nodes
  BY <1>1, <1>2, NeighborFacts
<1>11. NewOK'
  <2>1. \A l \in Level : \A n \in NodeId \ nodes' : neighbors[l][n] = <<>>
    BY <1>1, <1>2 DEF NewOK
  <2>2. \A l \in Level : \A n \in nodes' : new \notin ToSet(neighbors[l][n])
    BY <1>2, <1>6, <1>10
  <2> QED
    BY <2>1, <2>2, <1>1, <1>2, <1>4 DEF NewOK
<1>12. DegreesBounded'
  <2> SUFFICES ASSUME NEW l \in Level, NEW n \in nodes'
               PROVE  /\ Len(neighbors[l][n]) <= M_max
                      /\ ToSet(neighbors[l][n]) \subseteq Joined(l)' \ {n}
                      /\ neighbors[l][n] # <<>> => n \in Joined(l)'
    BY <1>1 DEF DegreesBounded
  <2>1. CASE n = new
    BY <2>1, <1>2, <1>6, Params
  <2>2. CASE n \in nodes
    BY <2>2, <1>1, <1>2, <1>10 DEF DegreesBounded
  <2> QED
    BY <2>1, <2>2, <1>2
<1>13. EntryIsHighest'
  <2>1. CASE entry = Nil
    <3>1. nodes' = {new} /\ entry' = new
      BY <2>1, <1>2, <1>4
    <3>2. level'[new] \in Int
      BY <1>2, Params
    <3> QED
      BY <3>1, <3>2 DEF EntryIsHighest
  <2>2. CASE entry # Nil
    <3>1. \A n \in nodes : level[n] <= level[entry]
      BY <1>1, <1>3, <1>5 DEF EntryIsHighest
    <3> QED
      BY <3>1, <2>2, <1>2, <1>4 DEF EntryIsHighest
  <2> QED
    BY <2>1, <2>2
<1>14. MutualOK'
  <2> SUFFICES ASSUME ~shifted PROVE MutualOK'
    BY <1>1 DEF MutualOK
  <2> SUFFICES ASSUME NEW l \in Level, NEW n \in nodes'
               PROVE  /\ IsInjective(neighbors[l][n])
                      /\ \A m \in ToSet(neighbors[l][n]) : n \in ToSet(neighbors[l][m])
    BY <1>1, <1>4 DEF MutualOK
  <2>1. CASE n = new
    BY <2>1, <1>2, <1>6
  <2>2. CASE n \in nodes
    BY <2>2, <1>1 DEF MutualOK
  <2> QED
    BY <2>1, <2>2, <1>2
<1>15. ConnectedOK'
  <2> SUFFICES ASSUME ~pruned PROVE nodes' = 1..made' /\ \A l \in Level : Connected(l)'
    <3>1. pc' \in {"idle", "insert"} /\ pruned' = pruned
      BY <1>1, <1>4
    <3> QED
      BY <3>1 DEF ConnectedOK
  <2>1. nodes' = 1..made'
    <3>1. nodes = 1..made /\ made \in Nat
      BY <1>1, NodeFacts DEF ConnectedOK
    <3>2. 1..made + 1 = 1..made \cup {made + 1}
      BY <3>1
    <3> QED
      BY <3>1, <3>2, <1>2 DEF new
  <2>2. ASSUME NEW l \in Level, Old(l)' \subseteq {new} PROVE Connected(l)'
    <3> SUFFICES ASSUME NEW S \in SUBSET nodes', S \cap Old(l)' # {} PROVE Old(l)' \subseteq S
      BY Zenon DEF Connected
    <3> QED
      BY <2>2
  <2>3. ASSUME NEW l \in Level, entry # Nil, l <= i' PROVE Connected(l)'
    <3>1. Old(l)' = Old(l)
      <4>1. newNode' = new /\ newNode' # Nil
        BY <2>3, <1>2, <1>4
      <4>2. Old(l)' = Joined(l)' \ {new}
        BY <4>1, <2>3 DEF Old
      <4>3. Old(l) = Joined(l) /\ Joined(l) \subseteq nodes /\ Joined(l)' \subseteq nodes \cup {new}
        BY <1>2, <1>3 DEF Old, Joined
      <4> QED
        BY <4>2, <4>3, <1>2
    <3> SUFFICES ASSUME NEW S \in SUBSET nodes', Closed(S, {l})', S \cap Old(l) # {} PROVE Old(l) \subseteq S
      BY <3>1 DEF Connected
    <3>2. S \ {new} \in SUBSET nodes /\ Old(l) \subseteq nodes
      BY <1>2 DEF Old, Joined
    <3>3. Closed(S \ {new}, {l})
      <4> SUFFICES ASSUME NEW n \in S \ {new}, l < level[n] PROVE ToSet(neighbors[l][n]) \subseteq S \ {new}
        BY DEF Closed
      <4>1. n \in nodes /\ level'[n] = level[n]
        BY <3>2, <1>2
      <4>2. ToSet(neighbors[l][n]) \subseteq S
        BY <4>1, <1>1 DEF Closed
      <4> QED
        BY <4>1, <4>2, <1>10
    <3>4. (S \ {new}) \cap Old(l) # {}
      BY <3>2, <1>2
    <3>5. Connected(l)
      BY <1>1 DEF ConnectedOK
    <3> QED
      BY <3>2, <3>3, <3>4, <3>5 DEF Connected
  <2>4. ASSUME NEW l \in Level, entry # Nil, ~(l <= i') PROVE Connected(l)'
    <3>1. \A n \in nodes : level[n] <= level[entry]
      BY <1>1, <1>3, <1>5 DEF EntryIsHighest
    <3>2. \A n \in nodes : ~(l < level[n])
      BY <3>1, <2>4, <1>4, <1>5, Params
    <3> QED
      BY <3>2, <2>2, <1>2 DEF Old, Joined
  <2>5. CASE entry = Nil
    BY <2>1, <2>2, <2>5, <1>2, <1>4 DEF Old, Joined
  <2> QED
    BY <2>1, <2>3, <2>4, <2>5
<1> QED
  BY <1>7, <1>8, <1>9, <1>11, <1>12, <1>13, <1>14, <1>15 DEF HnswInv

---------------------------------------------------------------------------
(* Saving and loading.                                                     *)

(* What is reached has the start and all that its nodes link to.           *)
LEMMA ReachableFacts ==
    ASSUME HnswTypeOK, DegreesBounded, NEW n \in nodes, NEW L \in SUBSET Level, NEW R, R = Reachable(n, L)
    PROVE  /\ R \subseteq nodes /\ n \in R
           /\ \A m \in R, l \in L : ToSet(neighbors[l][m]) \subseteq R
           /\ \A S \in SUBSET nodes : n \in S /\ Closed(S, L) => R \subseteq S
<1>1. \A m : m \in R <=> m \in nodes /\ \A S \in SUBSET nodes : n \in S /\ Closed(S, L) => m \in S
  BY DEF Reachable
<1>2. ASSUME NEW m \in R, NEW l \in L, NEW o \in ToSet(neighbors[l][m]) PROVE o \in R
  <2>1. m \in nodes /\ l \in Level
    BY <1>1
  <2>2. o \in nodes /\ l < level[m]
    BY <2>1, <1>2, NeighborFacts, NodeFacts
  <2> SUFFICES ASSUME NEW S \in SUBSET nodes, n \in S, Closed(S, L) PROVE o \in S
    BY <2>2, <1>1
  <2>3. m \in S
    BY <1>1
  <2> QED
    BY <2>2, <2>3, <1>2 DEF Closed
<1> QED
  BY <1>1, <1>2

LEMMA RestartStep ==
    ASSUME HnswInv, Restart
    PROVE  HnswInv'
<1> DEFINE saved == Reachable(entry, Level)
<1>1. /\ UNCHANGED <<made, embedding, level, entry, pc, newNode, query, cur, i, queue, pq, slots, j,
                     pruned, shifted>>
      /\ pc = "idle" /\ entry # Nil /\ result' = <<>>
      /\ saved # nodes /\ nodes' = saved /\ deleted_nodes' = deleted_nodes \cap saved
      /\ neighbors' = [l \in Level |-> [n \in NodeId |-> IF n \in saved THEN neighbors[l][n] ELSE <<>>]]
      /\ HnswTypeOK /\ DegreesBounded /\ PlaceOK /\ NewOK /\ ConnectedOK /\ MutualOK /\ EntryIsHighest
  BY DEF HnswInv, Restart, call, walk, loop, history
<1>2. entry \in nodes /\ newNode = Nil /\ cur = Nil /\ queue = {} /\ pq = {} /\ slots = <<>>
  BY <1>1 DEF PlaceOK, HnswTypeOK
<1>3. /\ saved \subseteq nodes /\ entry \in saved
      /\ \A n \in saved, l \in Level : ToSet(neighbors[l][n]) \subseteq saved
      /\ \A S \in SUBSET nodes : entry \in S /\ Closed(S, Level) => saved \subseteq S
  BY <1>1, <1>2, ReachableFacts
<1>4. pruned
  <2> SUFFICES ASSUME ~pruned PROVE FALSE
    OBVIOUS
  <2>1. Old(0) = nodes /\ 0 \in Level
    BY <1>1, <1>2, NodeFacts, Params DEF Old, Joined
  <2>2. Connected(0)
    BY <2>1, <1>1 DEF ConnectedOK
  <2>3. Closed(saved, {0})
    BY <2>1, <1>3 DEF Closed
  <2> QED
    BY <2>1, <2>2, <2>3, <1>1, <1>2, <1>3 DEF Connected
<1> HIDE DEF saved
<1>5. nodes \subseteq NodeId
  BY <1>1, NodeFacts
<1>6. \A l \in Level : \A n \in saved : neighbors'[l][n] = neighbors[l][n]
  BY <1>1, <1>3, <1>5
<1>7. \A l \in Level : \A n \in NodeId \ saved : neighbors'[l][n] = <<>>
  BY <1>1
<1>8. HnswTypeOK'
  <2>1. ASSUME NEW l \in Level, NEW n \in saved PROVE neighbors[l][n] \in Seq(saved)
    <3>1. neighbors[l][n] \in Seq(nodes) /\ ToSet(neighbors[l][n]) \subseteq saved
      BY <1>1, <1>3, NodeFacts
    <3> QED
      BY <3>1, SeqOfElements
  <2>2. <<>> \in Seq(saved)
    OBVIOUS
  <2>3. neighbors' \in [Level -> [NodeId -> Seq(saved)]]
    BY <2>1, <2>2, <1>1
  <2>4. slots' \in Seq(saved) /\ result' \in Seq(1..made)
    BY <1>1, <1>2
  <2>5. saved \subseteq 1..made /\ saved # {} /\ deleted_nodes' \subseteq saved
    BY <1>1, <1>3 DEF HnswTypeOK
  <2> QED
    BY <2>3, <2>4, <2>5, <1>1, <1>2, <1>3 DEF HnswTypeOK
<1>9. DegreesBounded' /\ EntryIsHighest'
  <2>1. EntryIsHighest'
    BY <1>1, <1>2, <1>3 DEF EntryIsHighest
  <2>2. ASSUME NEW l \in Level, NEW n \in saved
        PROVE  /\ Len(neighbors'[l][n]) <= M_max
               /\ ToSet(neighbors'[l][n]) \subseteq Joined(l)' \ {n}
               /\ neighbors'[l][n] # <<>> => n \in Joined(l)'
    <3>1. /\ Len(neighbors[l][n]) <= M_max
          /\ ToSet(neighbors[l][n]) \subseteq Joined(l) \ {n}
          /\ neighbors[l][n] # <<>> => n \in Joined(l)
      BY <1>1, <1>3 DEF DegreesBounded
    <3>2. Joined(l)' = Joined(l) \cap saved
      BY <1>1, <1>3 DEF Joined
    <3> QED
      BY <3>1, <3>2, <1>3, <1>6
  <2> QED
    BY <2>1, <2>2, <1>1 DEF DegreesBounded
<1>10. PlaceOK' /\ HeapsOK' /\ ListOK' /\ AnswerOK'
  <2>1. newNode' = Nil /\ cur' = Nil /\ queue' = {} /\ pq' = {} /\ slots' = <<>> /\ pc' = "idle"
    BY <1>1, <1>2
  <2>2. PlaceOK'
    BY <2>1 DEF PlaceOK
  <2>3. HeapsOK' /\ ListOK' /\ AnswerOK'
    BY <2>1 DEF HeapsOK, ListOK, AnswerOK
  <2> QED
    BY <2>2, <2>3
<1>11. NewOK'
  <2>1. newNode' = Nil /\ \A l \in Level : \A n \in NodeId \ nodes' : neighbors'[l][n] = <<>>
    BY <1>1, <1>2, <1>7
  <2> QED
    BY <2>1 DEF NewOK
<1>12. MutualOK'
  <2> SUFFICES ASSUME ~shifted, NEW l \in Level, NEW n \in saved
               PROVE  /\ IsInjective(neighbors'[l][n])
                      /\ \A m \in ToSet(neighbors'[l][n]) : n \in ToSet(neighbors'[l][m])
    <3>1. pc' = "idle" /\ nodes' = saved /\ shifted' = shifted
      BY <1>1
    <3> QED
      BY <3>1 DEF MutualOK
  <2>1. /\ IsInjective(neighbors[l][n])
        /\ \A m \in ToSet(neighbors[l][n]) : n \in ToSet(neighbors[l][m])
    BY <1>1, <1>3 DEF MutualOK
  <2> QED
    BY <2>1, <1>3, <1>6
<1>13. ConnectedOK'
  BY <1>1, <1>4 DEF ConnectedOK
<1> QED
  BY <1>8, <1>9, <1>10, <1>11, <1>12, <1>13 DEF HnswInv

---------------------------------------------------------------------------
(* A level of the insertion is done.                                       *)

(* The new node is linked both ways to one of the level at least, so that  *)
(* the level with it is connected.                                         *)
LEMMA LevelDone ==
    ASSUME HnswInv, pc = "connect", j > Len(slots)
    PROVE  /\ i \in Level /\ newNode \in nodes /\ newNode # Nil /\ newNode # entry /\ cur # newNode
           /\ i < level[newNode] /\ i < level[cur] /\ i < level[entry]
           /\ Pending = {}
           /\ ~pruned => \A S \in SUBSET nodes : Closed(S, {i}) /\ S \cap Joined(i) # {} => Joined(i) \subseteq S
<1>1. HnswTypeOK /\ PlaceOK /\ ListOK /\ ConnectedOK /\ DegreesBounded
  BY DEF HnswInv
<1>2. /\ i \in Level /\ newNode \in nodes /\ newNode # Nil /\ newNode # entry /\ cur # newNode
      /\ i < level[newNode] /\ i < level[cur] /\ i < level[entry]
  <2>1. i \in -1..m_L - 1 /\ i >= 0
    BY <1>1 DEF HnswTypeOK, PlaceOK
  <2>2. i \in Level
    BY <2>1, Params
  <2> QED
    BY <2>2, <1>1 DEF HnswTypeOK, PlaceOK
<1>3. Len(slots) \in Nat /\ j = Len(slots) + 1
  BY <1>1, InList DEF HnswTypeOK, ListOK
<1>4. Pending = {}
  BY <1>3 DEF Pending
<1>5. ASSUME ~pruned, NEW S \in SUBSET nodes, Closed(S, {i}), S \cap Joined(i) # {}
      PROVE  Joined(i) \subseteq S
  <2>1. /\ slots = mine /\ mine # <<>> /\ \A p \in 1..j - 1 : newNode \in ToSet(neighbors[i][slots[p]])
        /\ Connected(i)
    BY <1>1, <1>2, <1>5 DEF ConnectedOK
  <2>2. slots \in Seq(nodes) /\ 1 \in 1..Len(slots) /\ 1 \in 1..j - 1
    BY <2>1, <1>1, <1>3, InList DEF HnswTypeOK
  <2> DEFINE m == slots[1]
  <2>3. m \in ToSet(mine) /\ m \in Old(i)
    <3>1. m \in ToSet(slots) /\ ToSet(slots) \subseteq Joined(i) \ {newNode}
      BY <2>2, <1>1, InList DEF ToSet, ListOK
    <3> QED
      BY <3>1, <2>1, <1>2, NodeFacts, <1>1 DEF Old
  <2>4. newNode \in ToSet(neighbors[i][m]) /\ m \in nodes /\ i < level[m]
    BY <2>1, <2>2, <2>3 DEF Old, Joined
  <2>5. Old(i) = Joined(i) \ {newNode}
    BY <1>2, NodeFacts, <1>1 DEF Old
  <2>6. S \cap Old(i) # {}
    <3>1. newNode \in S => m \in S
      BY <1>2, <1>5, <2>3 DEF Closed, mine
    <3> QED
      BY <3>1, <2>3, <2>5, <1>5
  <2>7. Old(i) \subseteq S
    BY <2>1, <2>6, <1>5 DEF Connected
  <2>8. newNode \in S
    BY <2>3, <2>4, <2>7, <1>5 DEF Closed
  <2> QED
    BY <2>5, <2>7, <2>8
<1> QED
  BY <1>2, <1>4, <1>5

LEMMA NextLevelStep ==
    ASSUME HnswInv, NextLevel
    PROVE  HnswInv'
<1>1. /\ UNCHANGED <<made, nodes, embedding, level, entry, neighbors, deleted_nodes, newNode, query,
                     cur, queue, pq, result, pruned, shifted>>
      /\ pc = "connect" /\ j > Len(slots) /\ i > 0
      /\ pc' = "insert" /\ i' = i - 1 /\ slots' = <<>> /\ j' = 0
      /\ HnswTypeOK /\ PlaceOK /\ NewOK /\ ConnectedOK /\ MutualOK
  BY DEF HnswInv, NextLevel, graph, history
<1>2. /\ i \in Level /\ i \in Int /\ newNode \in nodes /\ newNode # Nil /\ newNode # entry /\ cur # newNode
      /\ i < level[newNode] /\ i < level[cur] /\ i < level[entry]
      /\ Pending = {}
      /\ ~pruned => \A S \in SUBSET nodes : Closed(S, {i}) /\ S \cap Joined(i) # {} => Joined(i) \subseteq S
  BY <1>1, LevelDone, NodeFacts
<1>3. HnswTypeOK'
  <2>1. i' \in -1..m_L - 1 /\ j' \in 0..M + 1 /\ slots' \in Seq(nodes)
    BY <1>1, <1>2, Params
  <2> QED
    BY <2>1, <1>1 DEF HnswTypeOK
<1>4. PlaceOK'
  <2>1. level[cur] \in Int /\ level[entry] \in Int
    BY <1>1, NodeFacts DEF PlaceOK
  <2>2. i' < level[cur] /\ i' < level[entry] /\ i' >= 0
    BY <2>1, <1>1, <1>2
  <2> QED
    BY <2>2, <1>1, <1>2 DEF PlaceOK
<1>5. HeapsOK' /\ ListOK' /\ AnswerOK'
  BY <1>1, <1>2 DEF HeapsOK, ListOK, AnswerOK
<1>6. NewOK'
  <2>1. \A l \in Level : Unlinked(l)' => Unlinked(l)
    BY <1>1, <1>2, NodeFacts DEF Unlinked
  <2> QED
    BY <2>1, <1>1 DEF NewOK
<1>7. DegreesBounded' /\ EntryIsHighest'
  BY <1>1 DEF HnswInv, DegreesBounded, EntryIsHighest, Joined
<1>8. MutualOK'
  BY <1>1, <1>2 DEF MutualOK
<1>9. ConnectedOK'
  <2> SUFFICES ASSUME ~pruned, NEW l \in Level PROVE Connected(l)'
    BY <1>1 DEF ConnectedOK
  <2>1. l \in Int
    BY <1>1, NodeFacts
  <2>2. CASE l = i
    <3>1. Old(l)' = Joined(i)
      BY <2>2, <1>1, <1>2 DEF Old, Joined
    <3> QED
      BY <3>1, <2>2, <1>1, <1>2 DEF Connected, Closed
  <2>3. CASE l # i
    <3>1. Old(l)' = Old(l)
      BY <2>1, <2>3, <1>1, <1>2 DEF Old, Joined
    <3>2. Connected(l)
      BY <1>1 DEF ConnectedOK
    <3> QED
      BY <3>1, <3>2, <1>1 DEF Connected, Closed
  <2> QED
    BY <2>2, <2>3
<1> QED
  BY <1>3, <1>4, <1>5, <1>6, <1>7, <1>8, <1>9 DEF HnswInv

LEMMA EndInsertStep ==
    ASSUME HnswInv, EndInsert
    PROVE  HnswInv'
<1>1. /\ UNCHANGED <<made, nodes, embedding, level, neighbors, deleted_nodes, result, pruned, shifted>>
      /\ pc = "connect" /\ j > Len(slots) /\ i = 0 /\ entry' = NewEntry
      /\ pc' = "idle" /\ newNode' = Nil /\ query' = <<>> /\ cur' = Nil /\ i' = 0
      /\ queue' = {} /\ pq' = {} /\ slots' = <<>> /\ j' = 0
      /\ HnswTypeOK /\ PlaceOK /\ NewOK /\ ConnectedOK /\ MutualOK /\ DegreesBounded /\ EntryIsHighest
  BY DEF HnswInv, EndInsert, Return, history
<1>2. /\ 0 \in Level /\ newNode \in nodes /\ newNode # Nil /\ entry \in nodes
      /\ Pending = {}
      /\ ~pruned => \A S \in SUBSET nodes : Closed(S, {0}) /\ S \cap Joined(0) # {} => Joined(0) \subseteq S
  BY <1>1, LevelDone DEF PlaceOK
<1>3. \A n \in nodes : level[n] \in Int /\ n # Nil
  BY <1>1, NodeFacts
<1>4. HnswTypeOK'
  <2>1. i' \in -1..m_L - 1 /\ j' \in 0..M + 1 /\ slots' \in Seq(nodes)
    BY <1>1, Params
  <2>2. entry' \in nodes
    BY <1>1, <1>2 DEF NewEntry
  <2> QED
    BY <2>1, <2>2, <1>1, <1>2, <1>3 DEF HnswTypeOK
<1>5. PlaceOK' /\ HeapsOK' /\ ListOK' /\ AnswerOK'
  BY <1>1 DEF PlaceOK, HeapsOK, ListOK, AnswerOK
<1>6. NewOK'
  BY <1>1 DEF NewOK
<1>7. DegreesBounded'
  BY <1>1 DEF DegreesBounded, Joined
<1>8. EntryIsHighest'
  <2>1. \A n \in nodes \ {newNode} : level[n] <= level[entry]
    BY <1>1 DEF EntryIsHighest
  <2>2. \A n \in nodes : level[n] <= level[entry']
    BY <2>1, <1>1, <1>2, <1>3 DEF NewEntry
  <2> QED
    BY <2>2, <1>1 DEF EntryIsHighest
<1>9. MutualOK'
  BY <1>1, <1>2 DEF MutualOK
<1>10. ConnectedOK'
  <2> SUFFICES ASSUME ~pruned, NEW l \in Level PROVE Connected(l)'
    BY <1>1 DEF ConnectedOK
  <2>1. l \in Int /\ l >= 0
    BY <1>1, NodeFacts
  <2>2. Old(l)' = Joined(l)
    BY <1>1 DEF Old, Joined
  <2>3. CASE l = 0
    BY <2>2, <2>3, <1>1, <1>2 DEF Connected, Closed
  <2>4. CASE l # 0
    <3>1. Old(l) = Joined(l)
      BY <2>1, <2>4, <1>1 DEF Old
    <3>2. Connected(l)
      BY <1>1 DEF ConnectedOK
    <3> QED
      BY <3>1, <3>2, <2>2, <1>1 DEF Connected, Closed
  <2> QED
    BY <2>3, <2>4
<1> QED
  BY <1>4, <1>5, <1>6, <1>7, <1>8, <1>9, <1>10 DEF HnswInv

---------------------------------------------------------------------------
(* The loop that adds the new node to the lists of its neighbours.         *)

LEMMA WorstInList ==
    ASSUME NEW T, NEW list \in Seq(T), list # <<>>, NEW n
    PROVE  worst(n, list) \in ToSet(list)
<1> DEFINE s == [p \in DOMAIN list |-> Sim[embedding[list[p]]][embedding[n]]]
           ps == {p \in DOMAIN list : s[p] < One /\ \A p2 \in DOMAIN list : s[p] <= s[p2]}
           least == CHOOSE p \in ps : \A p2 \in ps : p <= p2
<1>1. Len(list) \in Nat /\ DOMAIN list = 1..Len(list) /\ Len(list) # 0
  BY InList
<1>2. worst(n, list) = IF ps = {} THEN Last(list) ELSE list[least]
  BY DEF worst
<1>3. ps \in SUBSET (1..Len(list))
  BY <1>1
<1>4. ps # {} => least \in ps
  <2> HIDE DEF ps
  <2>1. ps \in SUBSET Nat
    BY <1>1, <1>3
  <2>2. ps # {} => \E p \in ps : \A p2 \in ps : p <= p2
    BY <2>1, SmallestExists
  <2> QED
    BY <2>2
<1> HIDE DEF ps, least
<1>5. \A p \in 1..Len(list) : list[p] \in ToSet(list)
  BY <1>1 DEF ToSet
<1>6. Last(list) = list[Len(list)] /\ Len(list) \in 1..Len(list)
  BY <1>1 DEF Last
<1> QED
  BY <1>2, <1>3, <1>4, <1>5, <1>6

(* The neighbour whose turn it is, its list with the new node, whether     *)
(* that is too long, and the link that is dropped then.                    *)
turn == slots[j]
longList == Append(neighbors[i][turn], newNode)
isFull == Len(neighbors[i][turn]) + 1 > M_max
worstLink == worst(turn, longList)

(* One neighbour's turn: what becomes of the lists of the level.           *)
LEMMA ConnectLists ==
    ASSUME HnswInv, Connect
    PROVE  /\ i \in Level /\ newNode \in nodes /\ newNode # Nil
           /\ turn \in Joined(i) \ {newNode} /\ turn \in nodes
           /\ worstLink \in nodes /\ worstLink # turn
           /\ \A l \in Level \ {i} : neighbors'[l] = neighbors[l]
           /\ neighbors' \in [Level -> [NodeId -> Seq(nodes)]]
           /\ \A n \in NodeId \ {turn} : ~(isFull /\ n = worstLink) => neighbors'[i][n] = neighbors[i][n]
           /\ ~isFull => neighbors'[i][turn] = longList
           /\ isFull => neighbors'[i][turn] = RemoveFirst(longList, worstLink)
           /\ isFull => neighbors'[i][worstLink] = RemoveFirst(neighbors[i][worstLink], turn)
           /\ isFull => worstLink \in ToSet(longList)
           /\ pruned' = (pruned \/ isFull)
<1>1. HnswTypeOK /\ PlaceOK /\ ListOK /\ DegreesBounded /\ pc = "connect"
  BY DEF HnswInv, Connect
<1>2. i \in Level /\ newNode \in nodes /\ newNode # Nil
  <2>1. i \in -1..m_L - 1 /\ i >= 0 /\ newNode \in nodes /\ newNode # Nil
    BY <1>1 DEF HnswTypeOK, PlaceOK
  <2> QED
    BY <2>1, Params
<1>3. turn \in Joined(i) \ {newNode} /\ turn \in nodes
  <2>1. slots \in Seq(nodes) /\ j \in 1..Len(slots)
    <3>1. slots \in Seq(nodes) /\ j \in 1..Len(slots) + 1 /\ j <= Len(slots)
      BY <1>1 DEF HnswTypeOK, ListOK, Connect
    <3>2. Len(slots) \in Nat
      BY <3>1
    <3> QED
      BY <3>1, <3>2
  <2>2. turn \in ToSet(slots)
    BY <2>1 DEF ToSet, turn
  <2> QED
    BY <2>2, <1>1 DEF ListOK, Joined
<1> DEFINE N == neighbors[i]
           lists == [N EXCEPT ![turn] = longList]
           kept == IF isFull THEN Dropped(lists, turn, worstLink) ELSE lists
<1>4. N \in [NodeId -> Seq(nodes)] /\ nodes \subseteq NodeId /\ turn \in NodeId /\ N[turn] \in Seq(nodes)
  BY <1>1, <1>2, <1>3, NodeFacts DEF HnswTypeOK
<1>5. /\ longList \in Seq(nodes) /\ Len(longList) = Len(N[turn]) + 1
      /\ ToSet(longList) = ToSet(N[turn]) \cup {newNode}
  BY <1>2, <1>4, OnList DEF longList
<1>6. worstLink \in ToSet(longList) /\ worstLink \in nodes /\ worstLink # turn
  <2>1. longList # <<>>
    BY <1>2, <1>5, InList
  <2>2. worstLink \in ToSet(longList)
    BY <2>1, <1>5, WorstInList DEF worstLink
  <2>3. ToSet(N[turn]) \subseteq Joined(i) \ {turn}
    BY <1>1, <1>2, <1>3 DEF DegreesBounded
  <2> QED
    BY <2>2, <2>3, <1>2, <1>3, <1>5 DEF Joined
<1>7. lists \in [NodeId -> Seq(nodes)] /\ lists[turn] = longList /\ \A n \in NodeId \ {turn} : lists[n] = N[n]
  BY <1>4, <1>5
<1>8. Linked(N, turn) = lists
  BY DEF Linked, longList
<1>9. (isFull <=> Len(lists[turn]) > M_max) /\ worstLink = worst(turn, lists[turn])
  <2>1. isFull <=> Len(longList) > M_max
    BY <1>5 DEF isFull
  <2> QED
    BY <2>1, <1>7 DEF worstLink
<1> HIDE DEF lists
<1>10. neighbors' = [neighbors EXCEPT ![i] = kept] /\ pruned' = (pruned \/ isFull)
  BY <1>8, <1>9 DEF Connect, turn
<1>11. /\ kept \in [NodeId -> Seq(nodes)]
       /\ \A n \in NodeId \ {turn} : ~(isFull /\ n = worstLink) => kept[n] = N[n]
       /\ ~isFull => kept[turn] = longList
       /\ isFull => kept[turn] = RemoveFirst(longList, worstLink) /\ kept[worstLink] = RemoveFirst(N[worstLink], turn)
  <2>1. CASE ~isFull
    BY <2>1, <1>4, <1>7
  <2>2. CASE isFull
    <3>1. worstLink \in NodeId /\ worstLink # turn
      BY <1>4, <1>6
    <3> DEFINE a == RemoveFirst(longList, worstLink)
               b == RemoveFirst(N[worstLink], turn)
    <3>2. a \in Seq(nodes)
      BY <1>5, OffList
    <3>3. b \in Seq(nodes)
      BY <1>4, <3>1, OffList
    <3>4. kept = [lists EXCEPT ![turn] = a, ![worstLink] = b]
      BY <2>2, <3>1, <1>4, <1>7 DEF Dropped
    <3> HIDE DEF a, b, kept
    <3>5. /\ kept \in [NodeId -> Seq(nodes)] /\ kept[turn] = a /\ kept[worstLink] = b
          /\ \A n \in NodeId \ {turn, worstLink} : kept[n] = lists[n]
      BY <3>1, <3>2, <3>3, <3>4, <1>4, <1>7
    <3> QED
      BY <3>5, <2>2, <1>7 DEF a, b
  <2> QED
    BY <2>1, <2>2
<1> HIDE DEF kept
<1>12. neighbors'[i] = kept /\ \A l \in Level \ {i} : neighbors'[l] = neighbors[l]
  BY <1>1, <1>2, <1>10 DEF HnswTypeOK
<1>13. neighbors' \in [Level -> [NodeId -> Seq(nodes)]]
  BY <1>1, <1>2, <1>10, <1>11 DEF HnswTypeOK
<1> QED
  BY <1>2, <1>3, <1>6, <1>10, <1>11, <1>12, <1>13

(* The same as sets: a link to the new node, and maybe one both ways less. *)
LEMMA ConnectSets ==
    ASSUME HnswInv, Connect
    PROVE  /\ \A n \in nodes :
                  /\ Len(neighbors'[i][n]) <= M_max
                  /\ ToSet(neighbors'[i][n]) \subseteq ToSet(neighbors[i][n]) \cup (IF n = turn THEN {newNode} ELSE {})
                  /\ \A m \in ToSet(neighbors[i][n]) :
                         m \in ToSet(neighbors'[i][n]) \/ (isFull /\ {n, m} = {turn, worstLink})
           /\ newNode \in ToSet(neighbors'[i][turn]) \/ (isFull /\ worstLink = newNode)
           /\ newNode \notin ToSet(neighbors[i][turn]) /\ (\A n \in nodes : IsInjective(neighbors[i][n])) =>
                  /\ \A n \in nodes : IsInjective(neighbors'[i][n])
                  /\ isFull => worstLink \notin ToSet(neighbors'[i][turn]) /\ turn \notin ToSet(neighbors'[i][worstLink])
<1> DEFINE N == neighbors[i]
           P == neighbors'[i]
<1>1. /\ i \in Level /\ newNode \in nodes /\ turn \in nodes /\ worstLink \in nodes /\ worstLink # turn
      /\ \A n \in NodeId \ {turn} : ~(isFull /\ n = worstLink) => P[n] = N[n]
      /\ ~isFull => P[turn] = longList
      /\ isFull => P[turn] = RemoveFirst(longList, worstLink) /\ P[worstLink] = RemoveFirst(N[worstLink], turn) /\ worstLink \in ToSet(longList)
  <2>1. /\ i \in Level /\ newNode \in nodes /\ turn \in nodes /\ worstLink \in nodes /\ worstLink # turn
        /\ \A n \in NodeId \ {turn} : ~(isFull /\ n = worstLink) => P[n] = N[n]
    BY ConnectLists
  <2>2. ~isFull => P[turn] = longList
    BY ConnectLists
  <2>3. isFull => P[turn] = RemoveFirst(longList, worstLink)
    BY ConnectLists
  <2>4. isFull => P[worstLink] = RemoveFirst(N[worstLink], turn)
    BY ConnectLists
  <2>5. isFull => worstLink \in ToSet(longList)
    BY ConnectLists
  <2> QED
    BY <2>1, <2>2, <2>3, <2>4, <2>5
<1>2. HnswTypeOK /\ DegreesBounded
  BY DEF HnswInv
<1>3. /\ nodes \subseteq NodeId /\ \A n \in nodes : N[n] \in Seq(nodes) /\ Len(N[n]) \in Nat /\ Len(N[n]) <= M_max
      /\ M_max \in Nat
  <2>1. nodes \subseteq NodeId /\ \A n \in nodes : N[n] \in Seq(nodes)
    BY <1>1, <1>2, NodeFacts
  <2>2. \A n \in nodes : Len(N[n]) \in Nat /\ Len(N[n]) <= M_max
    BY <2>1, <1>1, <1>2, InList DEF DegreesBounded
  <2> QED
    BY <2>1, <2>2, Params
<1>4. /\ longList \in Seq(nodes) /\ Len(longList) = Len(N[turn]) + 1
      /\ ToSet(longList) = ToSet(N[turn]) \cup {newNode}
      /\ IsInjective(N[turn]) /\ newNode \notin ToSet(N[turn]) => IsInjective(longList)
  BY <1>1, <1>3, OnList DEF longList
<1> HIDE DEF N, P
<1>5. ASSUME isFull
      PROVE  /\ ToSet(P[turn]) \subseteq ToSet(longList)
             /\ \A x \in ToSet(longList) : x # worstLink => x \in ToSet(P[turn])
             /\ Len(P[turn]) = Len(longList) - 1
             /\ IsInjective(longList) => IsInjective(P[turn]) /\ worstLink \notin ToSet(P[turn])
  <2>1. P[turn] = RemoveFirst(longList, worstLink) /\ worstLink \in ToSet(longList) /\ longList \in Seq(nodes)
    BY <1>1, <1>4, <1>5
  <2> QED
    BY <2>1, OffList
<1>6. ASSUME isFull
      PROVE  /\ ToSet(P[worstLink]) \subseteq ToSet(N[worstLink])
             /\ \A x \in ToSet(N[worstLink]) : x # turn => x \in ToSet(P[worstLink])
             /\ P[worstLink] = N[worstLink] \/ Len(P[worstLink]) = Len(N[worstLink]) - 1
             /\ IsInjective(N[worstLink]) => IsInjective(P[worstLink]) /\ turn \notin ToSet(P[worstLink])
  <2>1. P[worstLink] = RemoveFirst(N[worstLink], turn) /\ N[worstLink] \in Seq(nodes)
    BY <1>1, <1>3, <1>6
  <2> QED
    BY <2>1, OffList
<1>7. ASSUME NEW n \in nodes
      PROVE  /\ Len(P[n]) <= M_max
             /\ ToSet(P[n]) \subseteq ToSet(N[n]) \cup (IF n = turn THEN {newNode} ELSE {})
             /\ \A m \in ToSet(N[n]) : m \in ToSet(P[n]) \/ (isFull /\ {n, m} = {turn, worstLink})
             /\ newNode \notin ToSet(N[turn]) /\ (\A m \in nodes : IsInjective(N[m])) => IsInjective(P[n])
  <2>1. CASE n = turn
    <3>1. Len(P[turn]) <= M_max
      <4>1. ~isFull => Len(N[turn]) + 1 <= M_max
        BY <1>1, <1>3 DEF N, isFull
      <4>2. ~isFull => P[turn] = longList
        BY <1>1
      <4> QED
        BY <4>1, <4>2, <1>1, <1>3, <1>4, <1>5
    <3>2. ToSet(P[turn]) \subseteq ToSet(N[turn]) \cup {newNode}
      BY <1>1, <1>4, <1>5
    <3>3. \A m \in ToSet(N[turn]) : m \in ToSet(P[turn]) \/ (isFull /\ m = worstLink)
      BY <1>1, <1>4, <1>5
    <3>4. newNode \notin ToSet(N[turn]) /\ IsInjective(N[turn]) => IsInjective(P[turn])
      BY <1>1, <1>4, <1>5
    <3> QED
      BY <3>1, <3>2, <3>3, <3>4, <2>1, <1>1
  <2>2. CASE n # turn /\ isFull /\ n = worstLink
    <3>1. Len(P[worstLink]) <= M_max
      BY <2>2, <1>1, <1>3, <1>6
    <3>2. \A m \in ToSet(N[worstLink]) : m \in ToSet(P[worstLink]) \/ m = turn
      BY <2>2, <1>6
    <3>3. ToSet(P[worstLink]) \subseteq ToSet(N[worstLink])
      BY <2>2, <1>6
    <3>4. IsInjective(N[worstLink]) => IsInjective(P[worstLink])
      BY <2>2, <1>6
    <3> QED
      BY <3>1, <3>2, <3>3, <3>4, <2>2, <1>1
  <2>3. CASE n # turn /\ ~(isFull /\ n = worstLink)
    <3>1. P[n] = N[n]
      BY <2>3, <1>1, <1>3
    <3> QED
      BY <3>1, <1>3
  <2> QED
    BY <2>1, <2>2, <2>3
<1>8. newNode \in ToSet(P[turn]) \/ (isFull /\ worstLink = newNode)
  BY <1>1, <1>4, <1>5
<1>9. ASSUME newNode \notin ToSet(N[turn]), \A n \in nodes : IsInjective(N[n]), isFull
      PROVE  worstLink \notin ToSet(P[turn]) /\ turn \notin ToSet(P[worstLink])
  BY <1>1, <1>4, <1>5, <1>6, <1>9
<1> QED
  BY <1>7, <1>8, <1>9 DEF N, P

(* What becomes of the list the loop iterates over.                        *)
LEMMA ConnectSlots ==
    ASSUME HnswInv, Connect
    PROVE  /\ slots' \in Seq(nodes) /\ Len(slots') = Len(slots) /\ Len(slots) \in Nat
           /\ ToSet(slots') \subseteq Joined(i) \ {newNode}
           /\ Len(mine') <= Len(slots')
           /\ ~pruned' => slots' = slots /\ mine' = mine
           /\ ~shifted' => \A p \in j + 1..Len(slots) : slots'[p] = slots[p]
           /\ j \in 1..Len(slots) /\ j' = j + 1 /\ Len(slots) <= M
           /\ ~shifted' => ~shifted
<1>1. /\ i \in Level /\ newNode \in nodes /\ turn \in nodes /\ turn # newNode
      /\ \A n \in NodeId \ {turn} : ~(isFull /\ n = worstLink) => neighbors'[i][n] = neighbors[i][n]
      /\ isFull => neighbors'[i][worstLink] = RemoveFirst(neighbors[i][worstLink], turn)
      /\ pruned' = (pruned \/ isFull)
  BY ConnectLists
<1>2. HnswTypeOK /\ ListOK /\ DegreesBounded /\ pc = "connect"
  BY DEF HnswInv, Connect
<1>3. i' = i /\ newNode' = newNode /\ mine' = neighbors'[i][newNode]
  BY DEF Connect, walk, call, mine
<1>4. /\ mine \in Seq(nodes) /\ Len(mine) \in Nat /\ slots \in Seq(nodes) /\ Len(slots) \in Nat
      /\ Len(mine) <= Len(slots) /\ Len(slots) <= M
      /\ ToSet(slots) \subseteq Joined(i) \ {newNode} /\ ToSet(mine) \subseteq Joined(i) \ {newNode}
      /\ j \in 1..Len(slots)
  <2>1. mine \in Seq(nodes) /\ Len(mine) \in Nat /\ slots \in Seq(nodes) /\ Len(slots) \in Nat
    BY <1>1, <1>2, NodeFacts, InList DEF mine, HnswTypeOK
  <2>2. /\ Len(mine) <= Len(slots) /\ Len(slots) <= M /\ ToSet(slots) \subseteq Joined(i) \ {newNode}
        /\ j \in 1..Len(slots) + 1 /\ j <= Len(slots)
    BY <1>2 DEF ListOK, Connect
  <2>3. ToSet(mine) \subseteq Joined(i) \ {newNode}
    BY <1>1, <1>2 DEF DegreesBounded, mine
  <2> QED
    BY <2>1, <2>2, <2>3
<1>5. \/ mine' = mine
      \/ /\ pruned' /\ mine' \in Seq(nodes) /\ Len(mine') = Len(mine) - 1
         /\ ToSet(mine') \subseteq ToSet(mine) /\ mine # <<>>
  <2>1. CASE ~(isFull /\ newNode = worstLink)
    BY <2>1, <1>1, <1>2, <1>3, NodeFacts DEF mine
  <2>2. CASE isFull /\ newNode = worstLink
    <3>1. mine' = RemoveFirst(mine, turn) /\ pruned'
      BY <2>2, <1>1, <1>3 DEF mine
    <3>2. /\ mine' \in Seq(nodes) /\ ToSet(mine') \subseteq ToSet(mine)
          /\ turn \notin ToSet(mine) => mine' = mine
          /\ turn \in ToSet(mine) => Len(mine') = Len(mine) - 1
      BY <3>1, <1>4, OffList
    <3>3. turn \in ToSet(mine) => mine # <<>>
      BY <1>4, InList
    <3> QED
      BY <3>1, <3>2, <3>3
  <2> QED
    BY <2>1, <2>2
<1> DEFINE tail == SubSeq(slots, Len(mine), Len(slots))
<1>6. slots' = (IF Len(mine') < Len(mine) THEN mine' \o tail ELSE slots)
  <2>1. neighbors'[i] = (IF Len(Linked(neighbors[i], turn)[turn]) > M_max
                         THEN Dropped(Linked(neighbors[i], turn), turn, worst(turn, Linked(neighbors[i], turn)[turn]))
                         ELSE Linked(neighbors[i], turn))
    BY <1>1, <1>2 DEF Connect, HnswTypeOK, turn
  <2> QED
    BY <2>1, <1>3 DEF Connect, mine, turn
<1>7. CASE mine' = mine
  <2>1. slots' = slots
    BY <1>4, <1>6, <1>7
  <2> QED
    BY <2>1, <1>4, <1>7 DEF Connect, history
<1>8. CASE mine' # mine
  <2>1. /\ pruned' /\ mine' \in Seq(nodes) /\ Len(mine') = Len(mine) - 1
        /\ ToSet(mine') \subseteq ToSet(mine) /\ Len(mine) >= 1
    <3>1. mine # <<>> => Len(mine) # 0
      BY <1>4, InList
    <3> QED
      BY <3>1, <1>4, <1>5, <1>8
  <2>2. /\ tail \in Seq(nodes) /\ Len(tail) = Len(slots) - Len(mine) + 1
        /\ \A p \in 1..Len(slots) - Len(mine) + 1 : tail[p] = slots[p + Len(mine) - 1]
    BY <2>1, <1>4
  <2>3. slots' = mine' \o tail
    BY <2>1, <1>4, <1>6
  <2> HIDE DEF tail
  <2>4. /\ slots' \in Seq(nodes) /\ Len(slots') = Len(slots)
        /\ \A p \in 1..Len(slots) : slots'[p] = IF p <= Len(mine') THEN mine'[p] ELSE tail[p - Len(mine')]
    <3>1. Len(mine') + Len(tail) = Len(slots)
      BY <2>1, <2>2, <1>4
    <3> QED
      BY <3>1, <2>1, <2>2, <2>3, JoinedLists
  <2>5. ASSUME NEW p \in 1..Len(slots) PROVE slots'[p] \in ToSet(mine) \cup ToSet(slots)
    <3>1. CASE p <= Len(mine')
      <4>1. p \in 1..Len(mine') /\ slots'[p] = mine'[p]
        BY <3>1, <2>1, <2>4, <1>4
      <4>2. mine'[p] \in ToSet(mine')
        BY <4>1, <2>1 DEF ToSet
      <4> QED
        BY <4>1, <4>2, <2>1
    <3>2. CASE ~(p <= Len(mine'))
      <4>1. /\ p - Len(mine') \in 1..Len(slots) - Len(mine) + 1
            /\ (p - Len(mine')) + Len(mine) - 1 = p
        BY <3>2, <2>1, <1>4
      <4>2. slots'[p] = tail[p - Len(mine')]
        BY <3>2, <2>4
      <4>3. slots'[p] = slots[p]
        BY <4>1, <4>2, <2>2
      <4>4. slots[p] \in ToSet(slots)
        BY <1>4 DEF ToSet
      <4> QED
        BY <4>3, <4>4
    <3> QED
      BY <3>1, <3>2
  <2>6. ToSet(slots') \subseteq ToSet(mine) \cup ToSet(slots)
    <3>1. DOMAIN slots' = 1..Len(slots)
      BY <2>4
    <3> QED
      BY <3>1, <2>5 DEF ToSet
  <2>7. ASSUME ~shifted' PROVE ~shifted /\ \A p \in j + 1..Len(slots) : slots'[p] = slots[p]
    <3>1. ~shifted /\ SubSeq(slots', j + 1, Len(slots')) = SubSeq(slots, j + 1, Len(slots))
      BY <2>7 DEF Connect
    <3> SUFFICES ASSUME NEW p \in j + 1..Len(slots) PROVE slots'[p] = slots[p]
      BY <3>1
    <3>2. p - j \in 1..Len(slots) - j /\ (p - j) + (j + 1) - 1 = p
      BY <1>4
    <3>3. SubSeq(slots', j + 1, Len(slots'))[p - j] = slots'[p]
      BY <3>2, <2>4, <1>4
    <3>4. SubSeq(slots, j + 1, Len(slots))[p - j] = slots[p]
      BY <3>2, <1>4
    <3> QED
      BY <3>1, <3>3, <3>4
  <2>8. /\ ToSet(slots') \subseteq Joined(i) \ {newNode} /\ Len(mine') <= Len(slots')
        /\ ~(~pruned')
    BY <2>1, <2>4, <2>6, <1>4
  <2>9. j' = j + 1
    BY DEF Connect
  <2> QED
    BY <2>4, <2>7, <2>8, <2>9, <1>4
<1> QED
  BY <1>7, <1>8

LEMMA ConnectStep ==
    ASSUME HnswInv, Connect
    PROVE  HnswInv'
<1>1. /\ UNCHANGED <<made, nodes, embedding, level, entry, deleted_nodes, pc, newNode, query,
                     cur, i, queue, pq, result>>
      /\ pc = "connect"
      /\ HnswTypeOK /\ DegreesBounded /\ PlaceOK /\ NewOK /\ ConnectedOK /\ HeapsOK /\ ListOK /\ MutualOK
  BY DEF HnswInv, Connect, graph, call, walk
<1>2. /\ i \in Level /\ newNode \in nodes /\ newNode # Nil
      /\ turn \in Joined(i) \ {newNode} /\ turn \in nodes /\ worstLink \in nodes /\ worstLink # turn
      /\ \A l \in Level \ {i} : neighbors'[l] = neighbors[l]
      /\ neighbors' \in [Level -> [NodeId -> Seq(nodes)]]
      /\ \A n \in NodeId \ {turn} : ~(isFull /\ n = worstLink) => neighbors'[i][n] = neighbors[i][n]
      /\ pruned' = (pruned \/ isFull)
  BY ConnectLists
<1> DEFINE N == neighbors[i]
           P == neighbors'[i]
<1>3. /\ \A n \in nodes :
             /\ Len(P[n]) <= M_max
             /\ ToSet(P[n]) \subseteq ToSet(N[n]) \cup (IF n = turn THEN {newNode} ELSE {})
             /\ \A m \in ToSet(N[n]) : m \in ToSet(P[n]) \/ (isFull /\ {n, m} = {turn, worstLink})
      /\ newNode \in ToSet(P[turn]) \/ (isFull /\ worstLink = newNode)
      /\ newNode \notin ToSet(N[turn]) /\ (\A n \in nodes : IsInjective(N[n])) =>
             /\ \A n \in nodes : IsInjective(P[n])
             /\ isFull => worstLink \notin ToSet(P[turn]) /\ turn \notin ToSet(P[worstLink])
  BY ConnectSets
<1>4. /\ slots' \in Seq(nodes) /\ Len(slots') = Len(slots) /\ Len(slots) \in Nat
      /\ ToSet(slots') \subseteq Joined(i) \ {newNode}
      /\ Len(mine') <= Len(slots')
      /\ ~pruned' => slots' = slots /\ mine' = mine
      /\ ~shifted' => \A p \in j + 1..Len(slots) : slots'[p] = slots[p]
      /\ ~shifted' => ~shifted
  BY ConnectSlots
<1>5. j \in 1..Len(slots) /\ j' = j + 1 /\ Len(slots) <= M /\ shifted' \in BOOLEAN /\ pruned' \in BOOLEAN
  <2>1. shifted' \in BOOLEAN /\ pruned' \in BOOLEAN
    BY <1>1 DEF Connect, HnswTypeOK
  <2> QED
    BY <2>1, ConnectSlots
<1>6. mine' = P[newNode] /\ mine = N[newNode] /\ nodes \subseteq NodeId
  BY <1>1, NodeFacts DEF mine
<1>7. HnswTypeOK'
  <2>1. j' \in 0..M + 1
    BY <1>4, <1>5, Params
  <2> QED
    BY <2>1, <1>1, <1>2, <1>4, <1>5 DEF HnswTypeOK
<1> HIDE DEF N, P
<1>8. PlaceOK'
  BY <1>1 DEF PlaceOK
<1>9. DegreesBounded'
  <2> SUFFICES ASSUME NEW l \in Level, NEW n \in nodes
               PROVE  /\ Len(neighbors'[l][n]) <= M_max
                      /\ ToSet(neighbors'[l][n]) \subseteq Joined(l) \ {n}
                      /\ neighbors'[l][n] # <<>> => n \in Joined(l)
    BY <1>1 DEF DegreesBounded, Joined
  <2>0. /\ Len(neighbors[l][n]) <= M_max
        /\ ToSet(neighbors[l][n]) \subseteq Joined(l) \ {n}
        /\ neighbors[l][n] # <<>> => n \in Joined(l)
    BY <1>1 DEF DegreesBounded
  <2>1. CASE l # i
    BY <2>0, <2>1, <1>2
  <2>2. CASE l = i
    <3>1. newNode \in Joined(i)
      BY <1>1, <1>2 DEF PlaceOK, Joined
    <3>2. ToSet(P[n]) \subseteq Joined(i) \ {n}
      BY <3>1, <2>0, <2>2, <1>2, <1>3 DEF N
    <3>3. P[n] # <<>> => n \in Joined(i)
      <4>1. P[n] \in Seq(nodes) /\ N[n] \in Seq(nodes)
        BY <1>1, <1>2, <1>6, NodeFacts DEF N, P
      <4>2. P[n] # <<>> => n = turn \/ N[n] # <<>>
        <5>1. (P[n] = <<>> <=> ToSet(P[n]) = {}) /\ (N[n] = <<>> <=> ToSet(N[n]) = {})
          BY <4>1, InList
        <5>2. n # turn => ToSet(P[n]) \subseteq ToSet(N[n])
          BY <1>3
        <5> QED
          BY <5>1, <5>2
      <4> QED
        BY <4>2, <2>0, <2>2, <1>2 DEF N
    <3> QED
      BY <3>2, <3>3, <2>2, <1>3 DEF P
  <2> QED
    BY <2>1, <2>2
<1>10. EntryIsHighest' /\ HeapsOK' /\ AnswerOK'
  BY <1>1, <1>2 DEF HnswInv, EntryIsHighest, HeapsOK, AnswerOK
<1>11. NewOK'
  <2>1. ASSUME NEW l \in Level PROVE \A n \in NodeId \ nodes : neighbors'[l][n] = <<>>
    <3>1. \A n \in NodeId \ nodes : neighbors[l][n] = <<>>
      BY <1>1 DEF NewOK
    <3> QED
      BY <3>1, <1>2
  <2>2. ASSUME NEW l \in Level, Unlinked(l)' PROVE l # i /\ Unlinked(l) /\ neighbors'[l] = neighbors[l]
    <3>1. l < i /\ Unlinked(l)
      BY <2>2, <1>1 DEF Unlinked
    <3>2. l \in Int /\ i \in Int
      BY <1>1, <1>2, NodeFacts
    <3>3. l # i
      BY <3>1, <3>2
    <3> QED
      BY <3>1, <3>3, <1>2
  <2> QED
    BY <2>1, <2>2, <1>1, <1>2 DEF NewOK
<1>12. ListOK'
  <2>1. j' \in 1..Len(slots') + 1
    BY <1>4, <1>5
  <2> QED
    BY <2>1, <1>1, <1>4, <1>5 DEF ListOK, Joined
<1>13. MutualOK'
  <2> SUFFICES ASSUME ~shifted' PROVE MutualOK'
    BY DEF MutualOK
  <2>1. ~shifted /\ \A p \in j + 1..Len(slots) : slots'[p] = slots[p]
    BY <1>4, <1>5
  <2>2. /\ turn \in ToSet(mine) /\ newNode \notin ToSet(N[turn])
        /\ \A n \in Pending : n \in ToSet(mine) /\ newNode \notin ToSet(N[n])
        /\ \A p, p2 \in j..Len(slots) : slots[p] = slots[p2] => p = p2
    <3>1. turn \in Pending
      BY <1>4, <1>5 DEF Pending, turn
    <3> QED
      BY <3>1, <2>1, <1>1 DEF MutualOK, N
  <2>3. \A n \in nodes : IsInjective(N[n])
    BY <2>1, <1>1, <1>2 DEF MutualOK, N
  <2>4. /\ \A n \in nodes : IsInjective(P[n])
        /\ isFull => worstLink \notin ToSet(P[turn]) /\ turn \notin ToSet(P[worstLink])
    BY <2>2, <2>3, <1>3
  <2>5. /\ \A p \in j + 1..Len(slots) : p \in j..Len(slots) /\ slots[p] # turn
        /\ Pending' = {slots[p] : p \in j + 1..Len(slots)}
        /\ \A n \in Pending : n = turn \/ n \in Pending'
        /\ Pending' \subseteq Pending \ {turn}
    <3>1. \A p \in j + 1..Len(slots) : p \in j..Len(slots) /\ p # j
      BY <1>4, <1>5
    <3>2. \A p \in j + 1..Len(slots) : slots[p] # turn
      <4>1. j \in j..Len(slots)
        BY <1>4, <1>5
      <4> QED
        BY <4>1, <3>1, <2>2 DEF turn
    <3>3. Pending' = {slots[p] : p \in j + 1..Len(slots)}
      <4>1. Pending' = {slots'[p] : p \in j + 1..Len(slots)}
        BY <1>4, <1>5 DEF Pending
      <4> QED
        BY <4>1, <2>1
    <3>4. \A p \in j..Len(slots) : p = j \/ p \in j + 1..Len(slots)
      BY <1>4, <1>5
    <3> QED
      BY <3>1, <3>2, <3>3, <3>4 DEF Pending, turn
  <2>6. ASSUME NEW l \in Level, NEW n \in nodes, NEW m \in ToSet(neighbors'[l][n])
        PROVE  n \in ToSet(neighbors'[l][m]) \/ (n = newNode /\ l = i /\ m \in Pending')
    <3>1. CASE l # i
      BY <3>1, <2>1, <1>1, <1>2 DEF MutualOK
    <3>2. CASE l = i /\ m \in ToSet(N[n])
      <4>1. m \in nodes
        BY <3>2, <1>1, <1>2, NeighborFacts DEF N
      <4>2. n \in ToSet(N[m]) \/ (n = newNode /\ m \in Pending)
        BY <3>2, <2>1, <1>1 DEF MutualOK, N
      <4>3. isFull => {n, m} # {turn, worstLink}
        <5>1. m \in ToSet(P[n])
          BY <3>2 DEF P
        <5> QED
          BY <5>1, <2>4
      <4>4. n \in ToSet(N[m]) => n \in ToSet(P[m])
        <5>1. {m, n} = {n, m}
          OBVIOUS
        <5> QED
          BY <5>1, <4>1, <4>3, <1>3
      <4>5. n = newNode /\ m = turn => n \in ToSet(P[m])
        BY <4>3, <1>3
      <4> QED
        BY <4>2, <4>4, <4>5, <2>5, <3>2 DEF P
    <3>3. CASE l = i /\ m \notin ToSet(N[n])
      <4>1. n = turn /\ m = newNode
        BY <3>3, <1>3 DEF P
      <4>2. ~(isFull /\ worstLink = newNode)
        <5>1. newNode \in ToSet(P[turn])
          BY <4>1, <3>3 DEF P
        <5> QED
          BY <5>1, <2>4
      <4>3. turn \in ToSet(P[newNode])
        <5>1. turn \in ToSet(N[newNode])
          BY <2>2, <1>6
        <5>2. isFull => {newNode, turn} # {turn, worstLink}
          BY <4>2, <1>2
        <5> QED
          BY <5>1, <5>2, <1>2, <1>3
      <4> QED
        BY <4>1, <4>3, <3>3 DEF P
    <3> QED
      BY <3>1, <3>2, <3>3
  <2>7. ASSUME NEW l \in Level, NEW n \in nodes PROVE IsInjective(neighbors'[l][n])
    <3>1. CASE l # i
      BY <3>1, <2>1, <1>1, <1>2 DEF MutualOK
    <3>2. CASE l = i
      BY <3>2, <2>4 DEF P
    <3> QED
      BY <3>1, <3>2
  <2>8. ASSUME NEW n \in Pending' PROVE n \in ToSet(P[newNode]) /\ newNode \notin ToSet(P[n])
    <3>1. n \in ToSet(N[newNode]) /\ newNode \notin ToSet(N[n]) /\ n # turn
      BY <2>2, <2>5, <1>6
    <3>2. n \in nodes /\ n # newNode
      BY <3>1, <1>1, <1>2, NeighborFacts DEF N
    <3>3. newNode \notin ToSet(P[n])
      BY <3>1, <3>2, <1>3
    <3>4. {newNode, n} # {turn, worstLink}
      BY <3>1, <1>2
    <3> QED
      BY <3>1, <3>3, <3>4, <1>2, <1>3
  <2>9. \A p, p2 \in j + 1..Len(slots) : slots'[p] = slots'[p2] => p = p2
    BY <2>1, <2>2, <2>5
  <2>10. pc' = "connect" => /\ \A n \in Pending' : n \in ToSet(mine') /\ newNode' \notin ToSet(neighbors'[i'][n])
                            /\ \A p, p2 \in j'..Len(slots') : slots'[p] = slots'[p2] => p = p2
    BY <2>8, <2>9, <1>1, <1>4, <1>5, <1>6 DEF P
  <2>11. \A l \in Level : \A n \in nodes :
             /\ IsInjective(neighbors'[l][n])
             /\ \A m \in ToSet(neighbors'[l][n]) :
                    n \in ToSet(neighbors'[l][m]) \/ (n = newNode /\ l = i /\ m \in Pending')
    BY <2>6, <2>7
  <2> QED
    BY <2>10, <2>11, <1>1 DEF MutualOK
<1>14. ConnectedOK'
  <2> SUFFICES ASSUME ~pruned' PROVE ConnectedOK'
    BY DEF ConnectedOK
  <2>1. ~pruned /\ ~isFull /\ slots' = slots /\ mine' = mine
    BY <1>2, <1>4
  <2>2. \A l \in Level : \A n \in nodes : ToSet(neighbors[l][n]) \subseteq ToSet(neighbors'[l][n])
    <3> SUFFICES ASSUME NEW l \in Level, NEW n \in nodes
                 PROVE  ToSet(neighbors[l][n]) \subseteq ToSet(neighbors'[l][n])
      OBVIOUS
    <3>1. CASE l # i
      BY <3>1, <1>2
    <3>2. CASE l = i
      BY <3>2, <2>1, <1>3 DEF N, P
    <3> QED
      BY <3>1, <3>2
  <2>3. ASSUME NEW l \in Level PROVE Connected(l)'
    <3>1. Old(l)' = Old(l)
      BY <1>1 DEF Old, Joined
    <3> SUFFICES ASSUME NEW S \in SUBSET nodes, Closed(S, {l})', S \cap Old(l) # {} PROVE Old(l) \subseteq S
      BY <3>1, <1>1 DEF Connected
    <3>2. Closed(S, {l})
      BY <2>2, <1>1 DEF Closed
    <3> QED
      BY <3>2, <2>1, <1>1 DEF ConnectedOK, Connected
  <2>4. slots = mine /\ mine # <<>> /\ \A p \in 1..j - 1 : newNode \in ToSet(N[slots[p]])
    BY <2>1, <1>1 DEF ConnectedOK, N
  <2>5. ASSUME NEW p \in 1..j PROVE newNode \in ToSet(P[slots[p]])
    <3>1. CASE p = j
      BY <3>1, <2>1, <1>3 DEF turn
    <3>2. CASE p # j
      <4>1. p \in 1..j - 1 /\ p \in 1..Len(slots)
        BY <3>2, <1>4, <1>5
      <4>2. slots[p] \in nodes
        BY <4>1, <1>1, ElementOf DEF HnswTypeOK
      <4> QED
        BY <4>1, <4>2, <2>2, <2>4, <1>2 DEF N, P
    <3> QED
      BY <3>1, <3>2
  <2>6. j' - 1 = j
    BY <1>4, <1>5
  <2> QED
    BY <2>1, <2>3, <2>4, <2>5, <2>6, <1>1 DEF ConnectedOK, P
<1> QED
  BY <1>7, <1>8, <1>9, <1>10, <1>11, <1>12, <1>13, <1>14 DEF HnswInv

---------------------------------------------------------------------------
(* The inductive invariant.                                                *)

LEMMA HnswInit ==
    Init => HnswInv
<1> SUFFICES ASSUME Init PROVE HnswInv
  OBVIOUS
<1>1. /\ made = 0 /\ nodes = {} /\ entry = Nil /\ deleted_nodes = {} /\ embedding = <<>> /\ level = <<>>
      /\ neighbors = [l \in Level |-> [n \in NodeId |-> <<>>]]
      /\ pc = "idle" /\ newNode = Nil /\ query = <<>>
      /\ cur = Nil /\ i = 0 /\ queue = {} /\ pq = {} /\ slots = <<>> /\ j = 0
      /\ result = <<>> /\ pruned = FALSE /\ shifted = FALSE
  BY DEF Init
<1>2. HnswTypeOK
  <2>1. i \in -1..m_L - 1 /\ j \in 0..M + 1 /\ made \in 0..MaxNodes /\ 1..made = {}
    BY <1>1, Params
  <2>2. neighbors \in [Level -> [NodeId -> Seq(nodes)]]
    <3>1. <<>> \in Seq(nodes)
      OBVIOUS
    <3> QED
      BY <3>1, <1>1
  <2>3. embedding \in Seq(Vector) /\ level \in Seq(1..m_L) /\ slots \in Seq(nodes) /\ result \in Seq(1..made)
    BY <1>1
  <2>4. Len(embedding) = made /\ Len(level) = made
    BY <1>1
  <2> QED
    BY <2>1, <2>2, <2>3, <2>4, <1>1 DEF HnswTypeOK
<1>3. DegreesBounded /\ EntryIsHighest /\ PlaceOK /\ HeapsOK /\ ListOK /\ AnswerOK
  BY <1>1 DEF DegreesBounded, EntryIsHighest, PlaceOK, HeapsOK, ListOK, AnswerOK
<1>4. NewOK /\ MutualOK
  BY <1>1 DEF NewOK, MutualOK
<1>5. ConnectedOK
  <2>1. 1..made = {}
    BY <1>1
  <2> QED
    BY <2>1, <1>1 DEF ConnectedOK, Connected, Old, Joined
<1> QED
  BY <1>2, <1>3, <1>4, <1>5 DEF HnswInv

LEMMA HnswInvStep ==
    HnswInv /\ [Next]_vars => HnswInv'
<1> SUFFICES ASSUME HnswInv, [Next]_vars PROVE HnswInv'
  OBVIOUS
<1>1. CASE UNCHANGED vars
  <2>1. UNCHANGED <<made, nodes, embedding, level, entry, neighbors, deleted_nodes, pc, newNode, query,
                    cur, i, queue, pq, slots, j, result, pruned, shifted>>
    BY <1>1 DEF vars, graph, call, walk, loop, history
  <2>2. HnswTypeOK' /\ DegreesBounded' /\ EntryIsHighest' /\ PlaceOK' /\ HeapsOK'
    <3>1. HnswTypeOK'
      BY <2>1 DEF HnswInv, HnswTypeOK
    <3>2. DegreesBounded' /\ EntryIsHighest'
      BY <2>1 DEF HnswInv, DegreesBounded, EntryIsHighest, Joined
    <3>3. PlaceOK' /\ HeapsOK'
      BY <2>1 DEF HnswInv, PlaceOK, HeapsOK, Joined
    <3> QED
      BY <3>1, <3>2, <3>3
  <2>3. NewOK' /\ ListOK' /\ MutualOK'
    BY <2>1 DEF HnswInv, NewOK, Unlinked, ListOK, mine, Joined, MutualOK, Pending
  <2>4. ConnectedOK'
    <3>1. \A l \in Level : Connected(l)' <=> Connected(l)
      BY <2>1 DEF Connected, Old, Closed, Joined
    <3> QED
      BY <3>1, <2>1 DEF HnswInv, ConnectedOK, mine
  <2>5. AnswerOK'
    <3>1. \A n : sim(n)' = sim(n)
      BY <2>1 DEF sim, target
    <3> QED
      BY <3>1, <2>1 DEF HnswInv, AnswerOK
  <2> QED
    BY <2>2, <2>3, <2>4, <2>5 DEF HnswInv
<1>2. CASE \E v \in Vector, l \in 1..m_L : InsertFirst(v, l) \/ insert(v, l)
  BY <1>2, InsertStep
<1>3. CASE \E v \in Vector : search_knn_hnsw(v)
  BY <1>3, SearchStep
<1>4. CASE \E n \in nodes : del(n) \/ restoreDeletedNode(n)
  BY <1>4, DeleteStep
<1>5. CASE Restart
  BY <1>5, RestartStep
<1>6. CASE Step
  BY <1>6, DescentStep, StartStep, VisitStep, EndVisitsStep, ChooseStep, EndChooseStep,
     ConnectStep, NextLevelStep, EndInsertStep, AnswerStep, EndSearchStep DEF Step
<1> QED
  BY <1>1, <1>2, <1>3, <1>4, <1>5, <1>6 DEF Next

(* The inductive invariant of the index, for any vectors and parameters.   *)
THEOREM HnswInvHolds == Spec => []HnswInv
<1>1. Init => HnswInv
  BY HnswInit
<1>2. HnswInv /\ [Next]_vars => HnswInv'
  BY HnswInvStep
<1> QED
  BY <1>1, <1>2, PTL DEF Spec

---------------------------------------------------------------------------
(* The graph.                                                              *)

LEMMA InjectiveLength ==
    ASSUME NEW T, NEW s \in Seq(T), IsInjective(s)
    PROVE  Cardinality(ToSet(s)) = Len(s)
<1>1. Len(s) \in Nat /\ DOMAIN s = 1..Len(s) /\ s \in [1..Len(s) -> T]
  OBVIOUS
<1>2. s \in [1..Len(s) -> ToSet(s)] /\ \A e \in ToSet(s) : \E p \in 1..Len(s) : s[p] = e
  BY <1>1 DEF ToSet
<1>3. s \in Bijection(1..Len(s), ToSet(s))
  BY <1>1, <1>2 DEF Bijection, Injection, Surjection, IsInjective
<1> QED
  BY <1>1, <1>3, FS_CountingElements DEF ExistsBijection

(* The lists of neighbours stay bounded, within their level and, when no   *)
(* call is going on and the loop never missed a neighbour, mutual and      *)
(* without repetitions; the entry is highest (HNSW.cpp:83-180, 36-54).     *)
THEOREM GraphKeepsItsShape == Spec => []GraphInv
<1>1. HnswInv => GraphInv
  <2> SUFFICES ASSUME HnswInv PROVE GraphInv
    OBVIOUS
  <2>1. HnswTypeOK /\ DegreesBounded /\ EntryIsHighest /\ MutualOK /\ PlaceOK
    BY DEF HnswInv
  <2>2. LinksMutual
    <3> SUFFICES ASSUME pc = "idle", ~shifted, NEW l \in Level, NEW n \in nodes
                 PROVE  /\ \A m \in ToSet(neighbors[l][n]) : Contains(neighbors[l][m], n)
                        /\ Len(neighbors[l][n]) = Cardinality(ToSet(neighbors[l][n]))
      BY DEF LinksMutual
    <3>1. newNode = Nil /\ n # Nil /\ neighbors[l][n] \in Seq(nodes)
      BY <2>1, NodeFacts DEF PlaceOK
    <3>2. IsInjective(neighbors[l][n]) /\ \A m \in ToSet(neighbors[l][n]) : n \in ToSet(neighbors[l][m])
      BY <3>1, <2>1 DEF MutualOK
    <3>3. ASSUME NEW m \in ToSet(neighbors[l][n]) PROVE Contains(neighbors[l][m], n)
      <4>1. neighbors[l][m] \in Seq(nodes)
        BY <2>1, NeighborFacts, NodeFacts
      <4> QED
        BY <4>1, <3>2, InList
    <3>4. Len(neighbors[l][n]) = Cardinality(ToSet(neighbors[l][n]))
      BY <3>1, <3>2, InjectiveLength
    <3> QED
      BY <3>3, <3>4
  <2> QED
    BY <2>1, <2>2 DEF GraphInv
<1> QED
  BY <1>1, HnswInvHolds, PTL

(* As long as no link was dropped, no node is lost, and from every node of *)
(* a level a traversal reaches exactly the nodes of the level              *)
(* (HNSW.cpp:83-167, 304-336).                                             *)
THEOREM UnprunedStaysConnected == Spec => []UnprunedIsConnected
<1>1. HnswInv => UnprunedIsConnected
  <2> SUFFICES ASSUME HnswInv, pc = "idle", ~pruned
               PROVE  /\ nodes = 1..made
                      /\ \A l \in Level : \A n \in Joined(l) : Reachable(n, {l}) = Joined(l)
    BY DEF UnprunedIsConnected
  <2>1. HnswTypeOK /\ DegreesBounded /\ ConnectedOK /\ PlaceOK
    BY DEF HnswInv
  <2>2. nodes = 1..made
    BY <2>1 DEF ConnectedOK
  <2>3. ASSUME NEW l \in Level, NEW n \in Joined(l) PROVE Reachable(n, {l}) = Joined(l)
    <3> DEFINE R == Reachable(n, {l})
    <3>1. n \in nodes /\ Joined(l) \in SUBSET nodes
      BY DEF Joined
    <3>2. /\ R \subseteq nodes /\ n \in R
          /\ \A m \in R : ToSet(neighbors[l][m]) \subseteq R
          /\ \A S \in SUBSET nodes : n \in S /\ Closed(S, {l}) => R \subseteq S
      <4> DEFINE L == {l}
      <4>1. L \in SUBSET Level /\ l \in L
        OBVIOUS
      <4>2. R = Reachable(n, L)
        OBVIOUS
      <4> HIDE DEF L, R
      <4>3. /\ R \subseteq nodes /\ n \in R
            /\ \A m \in R, k \in L : ToSet(neighbors[k][m]) \subseteq R
            /\ \A S \in SUBSET nodes : n \in S /\ Closed(S, L) => R \subseteq S
        BY <4>1, <4>2, <3>1, <2>1, ReachableFacts
      <4> QED
        BY <4>1, <4>3 DEF L
    <3> HIDE DEF R
    <3>3. R \subseteq Joined(l)
      <4>1. Closed(Joined(l), {l})
        BY <2>1, <3>1, NeighborFacts DEF Closed, Joined
      <4> QED
        BY <4>1, <3>1, <3>2
    <3>4. Joined(l) \subseteq R
      <4>1. Closed(R, {l}) /\ R \in SUBSET nodes
        BY <3>2 DEF Closed
      <4>2. Old(l) = Joined(l)
        BY <2>1 DEF Old, PlaceOK
      <4>3. Connected(l)
        BY <2>1 DEF ConnectedOK
      <4> QED
        BY <4>1, <4>2, <4>3, <3>2 DEF Connected
    <3> QED
      BY <3>3, <3>4 DEF R
  <2> QED
    BY <2>2, <2>3
<1> QED
  BY <1>1, HnswInvHolds, PTL

(* The results of a search are distinct nodes that are not deleted, the    *)
(* most similar first, and the best of all as long as no link was dropped  *)
(* and the nodes are no more than efConstruction (HNSW.cpp:182-269).       *)
THEOREM SearchIsBest == Spec => []SearchFindsBest
<1>1. HnswInv => SearchFindsBest
  <2> DEFINE live == nodes \ deleted_nodes
             found == ToSet(result)
  <2> SUFFICES ASSUME HnswInv, pc = "answer", pq = {} \/ Len(result) = K
               PROVE  /\ found \subseteq live /\ Cardinality(found) = Len(result)
                      /\ \A p, p2 \in DOMAIN result : p < p2 => sim(result[p]) >= sim(result[p2])
                      /\ ~pruned /\ Cardinality(nodes) <= efConstruction =>
                             /\ Len(result) < K => found = live
                             /\ \A n \in found, m \in live \ found : sim(n) >= sim(m)
    BY DEF SearchFindsBest
  <2>1. /\ IsInjective(result) /\ found \subseteq live
        /\ \A p \in DOMAIN result :
               /\ \A n \in pq : sim(result[p]) >= sim(n)
               /\ \A p2 \in DOMAIN result : p < p2 => sim(result[p]) >= sim(result[p2])
        /\ ~pruned /\ Cardinality(nodes) <= efConstruction => live \subseteq found \cup pq
    BY DEF HnswInv, AnswerOK
  <2>2. Cardinality(found) = Len(result) /\ Len(result) \in Nat
    <3> DEFINE T == 1..made
    <3>1. result \in Seq(T)
      BY DEF HnswInv, HnswTypeOK
    <3> HIDE DEF T
    <3> QED
      BY <3>1, <2>1, InjectiveLength, InList
  <2>3. ASSUME ~pruned, Cardinality(nodes) <= efConstruction
        PROVE  /\ Len(result) < K => found = live
               /\ \A n \in found, m \in live \ found : sim(n) >= sim(m)
    <3>1. Len(result) < K => pq = {}
      BY <2>2, Params
    <3>2. \A m \in live \ found : m \in pq
      BY <2>1, <2>3
    <3>3. \A n \in found : \E p \in DOMAIN result : result[p] = n
      BY DEF ToSet
    <3> HIDE DEF found, live
    <3> QED
      BY <3>1, <3>2, <3>3, <2>1, <2>3
  <2> QED
    BY <2>1, <2>2, <2>3
<1> QED
  BY <1>1, HnswInvHolds, PTL
=============================================================================
