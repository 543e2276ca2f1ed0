----------------------------- MODULE HnswGraph -----------------------------
(***************************************************************************)
(* The graph of the HNSW index (src/HNSW.h, src/HNSW.cpp): insert and the  *)
(* serial search_knn_hnsw one hop, one candidate or one link a step, del,  *)
(* restoreDeletedNode, and a restart that saves and loads the index.       *)
(*                                                                         *)
(* A node is its number in order of creation and stands for its key.  The  *)
(* heaps order pairs of similarity and address: among equally similar      *)
(* nodes any may come first.  A node is inserted with any level.           *)
(***************************************************************************)
EXTENDS Integers, SequencesExt

CONSTANTS
    Vector,         \* the embeddings
    Sim,            \* for each two of them how similar they are
    One,            \* the similarity of a vector with itself
    M, M_max,       \* the links of a new node, and the most a node keeps, on each level
    efConstruction, \* how many candidates are visited
    m_L,            \* how many levels a node has at most
    K,              \* how many results are asked for
    MaxNodes,       \* bound: the nodes
    Offered,        \* bound: for each node the vectors and levels it is inserted with
    MaxDeleted      \* bound: the nodes that are deleted at a time

ASSUME SimAssumption ==
    \A v, w \in Vector : Sim[v][w] \in Nat /\ Sim[v][w] <= One /\ Sim[v][v] = One
ASSUME ParametersAssumption ==
    /\ {M, M_max, efConstruction, m_L, K} \subseteq Nat \ {0}
    /\ M <= M_max /\ M <= efConstruction
ASSUME NodesAssumption ==
    /\ {MaxNodes, MaxDeleted} \subseteq Nat
    /\ \A n \in 1..MaxNodes : Offered[n] \subseteq Vector \X (1..m_L)

NodeId == 1..MaxNodes
Nil == 0            \* the null pointer
Level == 0..m_L - 1

VARIABLES
    made,           \* history: how many nodes were ever inserted
    nodes,          \* the nodes in memory
    embedding, level, \* of each node; level is the number of its levels
    neighbors,      \* for each level and node the list of its neighbours
    entry,          \* where every walk starts
    deleted_nodes,
    pc,             \* "idle", or where in a call the program is
    newNode,        \* the node inserted, Nil in a search
    query,          \* the vector of a search
    cur, i,         \* local variables: a node, a level,
    queue, pq,      \* the heaps of nodes to visit and of nodes visited,
    slots, j,       \* the memory newNode's list is iterated over, and the position
    result,
    pruned,         \* history: a link was dropped,
    shifted         \* and the loop missed a neighbour by that

graph == <<made, nodes, embedding, level, entry>>
walk == <<cur, i, queue, pq>>
call == <<pc, newNode, query>>
loop == <<slots, j>>
history == <<pruned, shifted>>
vars == <<graph, neighbors, deleted_nodes, call, walk, loop, result, history>>

Init ==
    /\ made = 0 /\ nodes = {} /\ entry = Nil /\ deleted_nodes = {}
    /\ embedding = <<>> /\ level = <<>>
    /\ neighbors = [l \in Level |-> [n \in NodeId |-> <<>>]]
    /\ pc = "idle" /\ newNode = Nil /\ query = <<>>
    /\ cur = Nil /\ i = 0 /\ queue = {} /\ pq = {} /\ slots = <<>> /\ j = 0
    /\ result = <<>> /\ pruned = FALSE /\ shifted = FALSE

target == IF newNode # Nil THEN embedding[newNode] ELSE query[1]
sim(n) == Sim[embedding[n]][target]

(* The nodes a heap may have on top.                                       *)
Top(heap) == {n \in heap : \A m \in heap : sim(n) >= sim(m)}

Return ==
    /\ pc' = "idle" /\ newNode' = Nil /\ query' = <<>>
    /\ cur' = Nil /\ i' = 0 /\ queue' = {} /\ pq' = {} /\ slots' = <<>> /\ j' = 0

---------------------------------------------------------------------------
(* The calls.                                                              *)
Created(v, l) ==
    /\ pc = "idle" /\ made < MaxNodes /\ <<v, l>> \in Offered[made + 1]
    /\ made' = made + 1 /\ nodes' = nodes \cup {made'}
    /\ embedding' = Append(embedding, v) /\ level' = Append(level, l)
    /\ result' = <<>>
    /\ UNCHANGED <<neighbors, deleted_nodes, history>>

InsertFirst(v, l) ==
    /\ entry = Nil /\ Created(v, l) /\ entry' = made'
    /\ UNCHANGED <<call, walk, loop>>

(* Both walks start at the entry, on its highest level.                    *)
FromEntry == cur' = entry /\ i' = level[entry] - 1 /\ UNCHANGED <<queue, pq, loop>>

insert(v, l) ==
    /\ entry # Nil /\ Created(v, l)
    /\ pc' = "insert" /\ newNode' = made' /\ FromEntry
    /\ UNCHANGED <<query, entry>>

search_knn_hnsw(v) ==
    /\ pc = "idle" /\ entry # Nil
    /\ pc' = "search" /\ query' = <<v>> /\ FromEntry
    /\ result' = <<>>
    /\ UNCHANGED <<graph, neighbors, deleted_nodes, newNode, history>>

del(n) ==
    /\ pc = "idle" /\ n \notin deleted_nodes /\ Cardinality(deleted_nodes) < MaxDeleted
    /\ deleted_nodes' = deleted_nodes \cup {n} /\ result' = <<>>
    /\ UNCHANGED <<graph, neighbors, call, walk, loop, history>>

restoreDeletedNode(n) ==
    /\ pc = "idle" /\ n \in deleted_nodes
    /\ deleted_nodes' = deleted_nodes \ {n} /\ result' = <<>>
    /\ UNCHANGED <<graph, neighbors, call, walk, loop, history>>

(* What a traversal reaches from a node over the links of the levels of L: *)
(* what is in every set that has the node and all that its nodes link to.  *)
Closed(S, L) == \A n \in S, l \in L : l < level[n] => ToSet(neighbors[l][n]) \subseteq S
Reachable(n, L) ==
    LET closed == {S \in SUBSET nodes : n \in S /\ Closed(S, L)}
    IN  {m \in nodes : \A S \in closed : m \in S}

(* saveToDisk writes the nodes it reaches from the entry, and the loaded   *)
(* index consists of them.                                                 *)
Restart ==
    /\ pc = "idle" /\ entry # Nil
    /\ LET saved == Reachable(entry, Level)
       IN  /\ saved # nodes /\ nodes' = saved
           /\ deleted_nodes' = deleted_nodes \cap saved
           /\ neighbors' = [l \in Level |->
                               [n \in NodeId |-> IF n \in saved THEN neighbors[l][n] ELSE <<>>]]
    /\ result' = <<>>
    /\ UNCHANGED <<made, embedding, level, entry, call, walk, loop, history>>

---------------------------------------------------------------------------
(* The descent to a node that has no closer neighbour.                     *)

(* Mutant of Closer: a neighbour that is as similar will do.               *)
CloserOrEqual ==
    {n \in ToSet(neighbors[i][cur]) :
        sim(n) >= sim(cur) /\ \A m \in ToSet(neighbors[i][cur]) : sim(n) >= sim(m)}

(* The best of the neighbours above the node itself.                       *)
Closer ==
    {n \in ToSet(neighbors[i][cur]) :
        sim(n) > sim(cur) /\ \A m \in ToSet(neighbors[i][cur]) : sim(n) >= sim(m)}

Descending == (pc = "insert" /\ i >= level[newNode]) \/ (pc = "search" /\ i >= 0)

Hop ==
    /\ Descending
    /\ cur' \in Closer
    /\ UNCHANGED <<graph, neighbors, deleted_nodes, call, i, queue, pq, loop, result, history>>

(* A search leaves the level only for a node that has neighbours there.    *)
LevelDown ==
    /\ Descending /\ Closer = {} /\ (pc = "search" => neighbors[i][cur] # <<>>)
    /\ i' = i - 1
    /\ UNCHANGED <<graph, neighbors, deleted_nodes, call, cur, queue, pq, loop, result, history>>

---------------------------------------------------------------------------
(* Best-first visits, on the level of an insertion or, for a search, on    *)
(* the lowest.                                                             *)
StartVisits ==
    /\ \/ pc = "insert" /\ i < level[newNode] /\ pc' = "visit" /\ UNCHANGED i
       \/ /\ pc = "search" /\ (i < 0 \/ (i >= 0 /\ neighbors[i][cur] = <<>>))
          /\ pc' = "visit" /\ i' = 0
    /\ queue' = {cur} /\ pq' = {}
    /\ UNCHANGED <<graph, neighbors, deleted_nodes, newNode, query, cur, loop, result, history>>

Visiting == pc = "visit" /\ queue # {} /\ Cardinality(pq) < efConstruction

Visit ==
    /\ Visiting
    /\ \E n \in Top(queue) :
           /\ pq' = pq \cup {n}
           /\ queue' = (queue \cup ToSet(neighbors[i][n])) \ pq'
    /\ UNCHANGED <<graph, neighbors, deleted_nodes, call, cur, i, loop, result, history>>

EndVisits ==
    /\ pc = "visit" /\ ~Visiting
    /\ pc' = IF newNode # Nil THEN "choose" ELSE "answer"
    /\ queue' = {}
    /\ UNCHANGED <<graph, neighbors, deleted_nodes, newNode, query, cur, i, pq, loop, result, history>>

---------------------------------------------------------------------------
(* insert: the links of the new node on one level.                         *)
mine == neighbors[i][newNode]

Choose ==
    /\ pc = "choose" /\ pq # {} /\ Len(mine) < M
    /\ \E n \in Top(pq) :
           /\ pq' = pq \ {n}
           /\ neighbors' = [neighbors EXCEPT ![i][newNode] = Append(@, n)]
    /\ UNCHANGED <<graph, deleted_nodes, call, cur, i, queue, loop, result, history>>

EndChoose ==
    /\ pc = "choose" /\ (pq = {} \/ Len(mine) >= M)
    /\ pc' = "connect" /\ pq' = {} /\ slots' = mine /\ j' = 1
    /\ UNCHANGED <<graph, neighbors, deleted_nodes, newNode, query, cur, i, queue, result, history>>

(* The least similar in the list of a node, the first of them; the last in *)
(* the list if all are equal to the node.                                  *)
worst(n, list) ==
    LET s == [p \in DOMAIN list |-> Sim[embedding[list[p]]][embedding[n]]]
        ps == {p \in DOMAIN list : s[p] < One /\ \A p2 \in DOMAIN list : s[p] <= s[p2]}
    IN  IF ps = {} THEN Last(list) ELSE list[CHOOSE p \in ps : \A p2 \in ps : p <= p2]

(* Mutant of Dropped: the neighbour that is dropped keeps its link.        *)
DroppedOneWay(lists, n, m) == [lists EXCEPT ![n] = RemoveFirst(@, m)]

Dropped(lists, n, m) == [lists EXCEPT ![n] = RemoveFirst(@, m), ![m] = RemoveFirst(@, n)]

(* Mutant of Linked: only the new node has the link.                       *)
LinkedOneWay(lists, n) == lists

Linked(lists, n) == [lists EXCEPT ![n] = Append(@, newNode)]

(* The new node is added to the list of the neighbour it; if that is too   *)
(* long, a link is dropped on both sides.  If it is the one to newNode, an *)
(* element is erased from the list the loop iterates over: the later       *)
(* elements move one place forward, the loop goes on with the next place,  *)
(* and ends behind the old last place, which keeps its content.            *)
Connect ==
    /\ pc = "connect" /\ j <= Len(slots)
    /\ LET it == slots[j]
           lists == Linked(neighbors[i], it)
           w == worst(it, lists[it])
           full == Len(lists[it]) > M_max
           kept == IF full THEN Dropped(lists, it, w) ELSE lists
           erased == Len(kept[newNode]) < Len(mine)
           rest(list) == SubSeq(list, j + 1, Len(list))
       IN  /\ neighbors' = [neighbors EXCEPT ![i] = kept]
           /\ slots' = IF erased
                       THEN kept[newNode] \o SubSeq(slots, Len(mine), Len(slots))
                       ELSE slots
           /\ pruned' = (pruned \/ full)
           /\ shifted' = (shifted \/ rest(slots') # rest(slots))
    /\ j' = j + 1
    /\ UNCHANGED <<graph, deleted_nodes, call, walk, result>>

NextLevel ==
    /\ pc = "connect" /\ j > Len(slots) /\ i > 0
    /\ pc' = "insert" /\ i' = i - 1 /\ slots' = <<>> /\ j' = 0
    /\ UNCHANGED <<graph, neighbors, deleted_nodes, newNode, query, cur, queue, pq, result, history>>

(* Mutant of NewEntry: the entry stays.                                    *)
NewEntryNever == entry

NewEntry == IF level[newNode] > level[entry] THEN newNode ELSE entry

EndInsert ==
    /\ pc = "connect" /\ j > Len(slots) /\ i = 0
    /\ entry' = NewEntry /\ Return
    /\ UNCHANGED <<made, nodes, embedding, level, neighbors, deleted_nodes, result, history>>

---------------------------------------------------------------------------
(* search_knn_hnsw: the result.                                            *)

(* Mutant of Answer: a deleted node counts as a result.                    *)
AnswerWithDeleted ==
    /\ pc = "answer" /\ pq # {} /\ Len(result) < K
    /\ \E n \in Top(pq) : pq' = pq \ {n} /\ result' = Append(result, n)
    /\ UNCHANGED <<graph, neighbors, deleted_nodes, call, cur, i, queue, loop, history>>

Answer ==
    /\ pc = "answer" /\ pq # {} /\ Len(result) < K
    /\ \E n \in Top(pq) :
           /\ pq' = pq \ {n}
           /\ result' = IF n \in deleted_nodes THEN result ELSE Append(result, n)
    /\ UNCHANGED <<graph, neighbors, deleted_nodes, call, cur, i, queue, loop, history>>

EndSearch ==
    /\ pc = "answer" /\ (pq = {} \/ Len(result) >= K)
    /\ Return
    /\ UNCHANGED <<graph, neighbors, deleted_nodes, result, history>>

Step ==
    \/ Hop \/ LevelDown \/ StartVisits \/ Visit \/ EndVisits
    \/ Choose \/ EndChoose \/ Connect \/ NextLevel \/ EndInsert
    \/ Answer \/ EndSearch

Next ==
    \/ \E v \in Vector, l \in 1..m_L : InsertFirst(v, l) \/ insert(v, l)
    \/ \E v \in Vector : search_knn_hnsw(v)
    \/ \E n \in nodes : del(n) \/ restoreDeletedNode(n)
    \/ Restart
    \/ Step

Spec == Init /\ [][Next]_vars /\ WF_vars(Step)
---------------------------------------------------------------------------
(* Properties.                                                             *)

HnswTypeOK ==
    /\ made \in 0..MaxNodes /\ nodes \subseteq 1..made /\ deleted_nodes \subseteq nodes
    /\ embedding \in Seq(Vector) /\ Len(embedding) = made
    /\ level \in Seq(1..m_L) /\ Len(level) = made
    /\ neighbors \in [Level -> [NodeId -> Seq(nodes)]]
    /\ entry \in nodes \cup {Nil} /\ (entry = Nil <=> nodes = {})
    /\ newNode \in nodes \cup {Nil} /\ cur \in nodes \cup {Nil}
    /\ i \in -1..m_L - 1 /\ j \in 0..M + 1
    /\ queue \subseteq nodes /\ pq \subseteq nodes
    /\ slots \in Seq(nodes) /\ result \in Seq(1..made)
    /\ pruned \in BOOLEAN /\ shifted \in BOOLEAN

Joined(l) == {n \in nodes : level[n] > l}

(* A node has at most M_max neighbours on a level, other nodes that reach  *)
(* up to it.                                                               *)
DegreesBounded ==
    \A l \in Level : \A n \in nodes :
        /\ Len(neighbors[l][n]) <= M_max
        /\ ToSet(neighbors[l][n]) \subseteq Joined(l) \ {n}
        /\ neighbors[l][n] # <<>> => n \in Joined(l)

(* No node that is complete is above the entry.                            *)
EntryIsHighest == \A n \in nodes \ {newNode} : level[n] <= level[entry]

(* Links go both ways, and only once.                                      *)
LinksMutual ==
    pc = "idle" /\ ~shifted =>
        \A l \in Level : \A n \in nodes :
            /\ \A m \in ToSet(neighbors[l][n]) : Contains(neighbors[l][m], n)
            /\ Len(neighbors[l][n]) = Cardinality(ToSet(neighbors[l][n]))

(* The graph keeps its shape while links are added and dropped; only the   *)
(* loop that erases from the list it iterates over leaves links one way    *)
(* or twice (HNSW.cpp:130-169).                                            *)
GraphInv == HnswTypeOK /\ DegreesBounded /\ EntryIsHighest /\ LinksMutual

(* As long as no node was full, every level is connected, so that walks,   *)
(* saveToDisk and the destructor reach all nodes ever inserted; dropping   *)
(* links may end that (HNSW.cpp:36-54, 83-167, 304-336).                   *)
UnprunedIsConnected ==
    pc = "idle" /\ ~pruned =>
        /\ nodes = 1..made
        /\ \A l \in Level : \A n \in Joined(l) : Reachable(n, {l}) = Joined(l)

(* The results are distinct nodes that are not deleted, the most similar   *)
(* first; in a connected graph of at most efConstruction nodes they are    *)
(* the best of all, however many are deleted (HNSW.cpp:182-269).           *)
SearchFindsBest ==
    pc = "answer" /\ (pq = {} \/ Len(result) = K) =>
        LET live == nodes \ deleted_nodes
            found == ToSet(result)
        IN  /\ found \subseteq live /\ Cardinality(found) = Len(result)
            /\ \A p, p2 \in DOMAIN result : p < p2 => sim(result[p]) >= sim(result[p2])
            /\ ~pruned /\ Cardinality(nodes) <= efConstruction =>
                   /\ Len(result) < K => found = live
                   /\ \A n \in found, m \in live \ found : sim(n) >= sim(m)

(* Every insertion and every search returns: the descent goes up in        *)
(* similarity, and the visits do not repeat a node (HNSW.cpp:87-127,       *)
(* 196-252).                                                               *)
CallsReturn == pc # "idle" ~> pc = "idle"
---------------------------------------------------------------------------
(* The inductive invariant, part by part.                                  *)

(* Where the calls are, and on which level.                                *)
PlaceOK ==
    /\ pc \in {"idle", "insert", "visit", "choose", "connect", "search", "answer"}
    /\ pc = "idle" => newNode = Nil /\ cur = Nil /\ queue = {} /\ pq = {} /\ slots = <<>>
    /\ pc \in {"insert", "choose", "connect"} => newNode # Nil
    /\ pc \in {"search", "answer"} => newNode = Nil
    /\ pc # "idle" /\ newNode = Nil => query \in {<<v>> : v \in Vector}
    /\ pc # "idle" =>
           /\ entry \in nodes \ {newNode} /\ cur \in nodes \ {newNode}
           /\ i < level[entry] /\ i < level[cur]
           /\ pc # "search" => i >= 0
    /\ pc \in {"visit", "choose", "connect"} /\ newNode # Nil => i < level[newNode]
    /\ pc \in {"visit", "answer"} /\ newNode = Nil => i = 0

(* The heaps hold nodes of the level, first of all the one the descent     *)
(* ended at.                                                               *)
HeapsOK ==
    /\ pc \in {"visit", "choose", "answer"} => queue \cup pq \subseteq Joined(i) \ {newNode}
    /\ pc = "visit" => cur \in queue \cup pq

(* A node has no links before its insertion gets to the level.             *)
Unlinked(l) == l < i \/ (l = i /\ pc \in {"insert", "visit"})

NewOK ==
    /\ \A l \in Level : \A n \in NodeId \ nodes : neighbors[l][n] = <<>>
    /\ newNode # Nil => \A l \in Level :
           /\ Unlinked(l) => neighbors[l][newNode] = <<>>
           /\ Unlinked(l) \/ (l = i /\ pc = "choose") =>
                  \A n \in nodes : newNode \notin ToSet(neighbors[l][n])

(* The list of the new node while it is filled and iterated over.          *)
ListOK ==
    /\ pc = "choose" =>
           Len(mine) <= M /\ IsInjective(mine) /\ pq \cap ToSet(mine) = {}
    /\ pc = "connect" =>
           /\ Len(mine) <= Len(slots) /\ Len(slots) <= M /\ j \in 1..Len(slots) + 1
           /\ ToSet(slots) \subseteq Joined(i) \ {newNode}

(* The neighbours the loop has still to link to the new node.              *)
Pending == {slots[p] : p \in j..Len(slots)}

(* Links are mutual and single, but for those the new node has first.      *)
MutualOK ==
    ~shifted =>
        /\ \A l \in Level : \A n \in nodes :
               /\ IsInjective(neighbors[l][n])
               /\ \A m \in ToSet(neighbors[l][n]) :
                      \/ n \in ToSet(neighbors[l][m])
                      \/ /\ n = newNode /\ l = i
                         /\ (pc = "choose" \/ (pc = "connect" /\ m \in Pending))
        /\ pc = "connect" =>
               /\ \A n \in Pending : n \in ToSet(mine) /\ newNode \notin ToSet(neighbors[i][n])
               /\ \A p, p2 \in j..Len(slots) : slots[p] = slots[p2] => p = p2

(* The nodes of a level that are linked already.                           *)
Old(l) == IF newNode # Nil /\ l <= i THEN Joined(l) \ {newNode} ELSE Joined(l)

Connected(l) ==
    \A S \in SUBSET nodes : Closed(S, {l}) /\ S \cap Old(l) # {} => Old(l) \subseteq S

ConnectedOK ==
    ~pruned =>
        /\ nodes = 1..made
        /\ \A l \in Level : Connected(l)
        /\ pc = "choose" => pq # {} \/ mine # <<>>
        /\ pc = "connect" =>
               /\ slots = mine /\ mine # <<>>
               /\ \A p \in 1..j - 1 : newNode \in ToSet(neighbors[i][slots[p]])

(* A search visits the neighbours of all it has visited, and takes the     *)
(* best first.                                                             *)
AnswerOK ==
    /\ newNode = Nil /\ pc \in {"search", "visit"} => result = <<>>
    /\ newNode = Nil /\ pc = "visit" => \A n \in pq : ToSet(neighbors[0][n]) \subseteq pq \cup queue
    /\ pc = "answer" =>
           /\ Len(result) <= K /\ IsInjective(result)
           /\ ToSet(result) \subseteq nodes \ deleted_nodes
           /\ pq \cap ToSet(result) = {}
           /\ \A p \in DOMAIN result :
                  /\ \A n \in pq : sim(result[p]) >= sim(n)
                  /\ \A p2 \in DOMAIN result : p < p2 => sim(result[p]) >= sim(result[p2])
           /\ ~pruned /\ Cardinality(nodes) <= efConstruction =>
                  nodes \ deleted_nodes \subseteq ToSet(result) \cup pq

HnswInv ==
    /\ HnswTypeOK /\ DegreesBounded /\ EntryIsHighest
    /\ PlaceOK /\ HeapsOK /\ NewOK /\ ListOK /\ MutualOK /\ ConnectedOK /\ AnswerOK
=============================================================================
