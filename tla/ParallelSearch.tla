--------------------------- MODULE ParallelSearch ---------------------------
(***************************************************************************)
(* The parallel search of the HNSW index (src/HNSW.cpp:443-575) on the     *)
(* thread pool of ThreadPool.                                              *)
(*                                                                         *)
(* The search descends the levels, comparing long neighbour lists with one *)
(* task per worker, and then scores the nodes it collects in level 0, each *)
(* task its partition.  The tasks refer to variables of the search and,    *)
(* when they score, put their nodes into `candidates` under                *)
(* candidates_mutex.  Putting the nodes in is a read and a write, so that  *)
(* without the mutex an update could be lost.                              *)
(*                                                                         *)
(* A node is its number, which stands for its key, its vector and its      *)
(* address; `sim` says how similar it is to the query, 0 for a cosine of   *)
(* -1, from which the search of a task starts.                             *)
(***************************************************************************)
EXTENDS ThreadPool, Integers, SequencesExt

CONSTANTS
    Graphs,          \* the indices searched
    SerialUpTo,      \* lists up to this length are compared without the pool
    efConstruction,  \* the number of nodes collected in level 0
    K                \* the number of results asked for

(* An index that has an entry: nodes are not null, and the neighbours of   *)
(* a node are nodes.                                                       *)
ASSUME GraphsAssumption ==
    \A G \in Graphs :
        /\ G.node \subseteq Nat \ {0} /\ G.entry \in G.node
        /\ G.levels \in Nat \ {0}
        /\ \A n \in G.node : G.sim[n] \in Nat
        /\ \A l \in 0..(G.levels - 1), n \in G.node : G.neighbors[l][n] \in Seq(G.node)
ASSUME SearchBoundsAssumption == SerialUpTo \in Nat /\ efConstruction \in Nat /\ K \in Nat

VARIABLES
    g,                \* the index
    pc,               \* where the search is
    cur, curLevel,    \* the node and the level of the descent
    candidate_nodes,  \* the nodes collected, in that order
    bfs_queue,        \* the nodes met in level 0 and not yet collected
    visited,          \* the nodes met in level 0
    unseen,           \* the neighbours still to look at of the last one collected
    lambda,           \* for each task submitted, what it does and its `t`
    round,            \* the number of tasks submitted before this block
    future,           \* for each `t`, the best neighbour of its task, 0 for none
    local,            \* for each worker, its local_candidates
    seen,             \* for each worker, `candidates` as it has read it
    candidates,       \* for each node, how often it is among the candidates
    candidates_mutex, \* the set of the workers that hold it
    step,             \* where each worker is in its task
    result            \* what the search returns

bfs == <<candidate_nodes, bfs_queue, visited, unseen>>
search == <<g, pc, cur, curLevel, bfs, lambda, round, future>>
task == <<local, seen, candidates, candidates_mutex, step>>
searchVars == <<vars, search, task, result>>

NUM_THREADS == Cardinality(Worker)

neighbors == g.neighbors[curLevel][cur]

(* sim > best_sim for one after the other, as the loops do: the first of   *)
(* the most similar nodes seq[i], i \in I, if one is above the floor.      *)
BestOf(seq, I, floor) ==
    LET above == {i \in I : seq[i] # 0 /\ g.sim[seq[i]] > floor}
    IN  IF above = {} THEN 0
        ELSE seq[CHOOSE i \in above : \A j \in above :
                     \/ g.sim[seq[i]] > g.sim[seq[j]]
                     \/ g.sim[seq[i]] = g.sim[seq[j]] /\ i <= j]

(* The neighbours that task t compares: every NUM_THREADS-th from t on.    *)
Stride(t) == {i \in DOMAIN neighbors : (i - 1) % NUM_THREADS = t}

(* The indices that task t scores; the last task takes the rest.           *)
Partition(t) ==
    LET size == Len(candidate_nodes) \div NUM_THREADS
    IN  (t * size + 1)..(IF t = NUM_THREADS - 1 THEN Len(candidate_nodes) ELSE (t + 1) * size)

(* Pairs of similarity and node come out of the heap in this order.        *)
Above(m, n) == g.sim[m] > g.sim[n] \/ (g.sim[m] = g.sim[n] /\ m > n)

SearchInit ==
    /\ Init
    /\ g \in Graphs
    /\ pc = "descend" /\ cur = g.entry /\ curLevel = g.levels - 1
    /\ candidate_nodes = <<>> /\ bfs_queue = <<>> /\ visited = {} /\ unseen = <<>>
    /\ lambda = <<>> /\ round = 0
    /\ future = [t \in 0..(NUM_THREADS - 1) |-> 0]
    /\ local = [w \in Worker |-> <<>>]
    /\ seen = [w \in Worker |-> <<>>]
    /\ candidates = [n \in g.node |-> 0]
    /\ candidates_mutex = {}
    /\ step = [w \in Worker |-> "start"]
    /\ result = <<>>

---------------------------------------------------------------------------
(* The descent.                                                            *)

(* To a better neighbour, or one level down.                               *)
Move(best) ==
    /\ cur' = IF best # 0 THEN best ELSE cur
    /\ curLevel' = IF best # 0 THEN curLevel ELSE curLevel - 1

DescendSerially ==
    /\ pc = "descend" /\ curLevel >= 0 /\ Len(neighbors) <= SerialUpTo
    /\ Move(BestOf(neighbors, DOMAIN neighbors, g.sim[cur]))
    /\ UNCHANGED <<vars, g, pc, bfs, lambda, round, future, task, result>>

DescendInParallel ==
    /\ pc = "descend" /\ curLevel >= 0 /\ Len(neighbors) > SerialUpTo
    /\ pc' = "compare" /\ round' = submitted
    /\ UNCHANGED <<vars, g, cur, curLevel, bfs, lambda, future, task, result>>

StartCollecting ==
    /\ pc = "descend" /\ curLevel < 0
    /\ bfs_queue' = <<cur>> /\ visited' = {cur}
    /\ pc' = "collect"
    /\ UNCHANGED <<vars, g, cur, curLevel, candidate_nodes, unseen, lambda, round, future, task, result>>

---------------------------------------------------------------------------
(* The nodes around the one where the descent ends, in breadth-first order *)
(* in level 0.                                                             *)

CollectNode ==
    /\ pc = "collect" /\ unseen = <<>>
    /\ bfs_queue # <<>> /\ Len(candidate_nodes) < efConstruction
    /\ candidate_nodes' = Append(candidate_nodes, Head(bfs_queue))
    /\ bfs_queue' = Tail(bfs_queue)
    /\ unseen' = g.neighbors[0][Head(bfs_queue)]
    /\ UNCHANGED <<vars, g, pc, cur, curLevel, visited, lambda, round, future, task, result>>

MeetNeighbor ==
    /\ pc = "collect" /\ unseen # <<>>
    /\ bfs_queue' = IF Head(unseen) \in visited THEN bfs_queue ELSE Append(bfs_queue, Head(unseen))
    /\ visited' = visited \cup {Head(unseen)}
    /\ unseen' = Tail(unseen)
    /\ UNCHANGED <<vars, g, pc, cur, curLevel, candidate_nodes, lambda, round, future, task, result>>

Collected ==
    /\ pc = "collect" /\ unseen = <<>>
    /\ bfs_queue = <<>> \/ Len(candidate_nodes) >= efConstruction
    /\ pc' = "score" /\ round' = submitted
    /\ UNCHANGED <<vars, g, cur, curLevel, bfs, lambda, future, task, result>>

---------------------------------------------------------------------------
(* A block with tasks: NUM_THREADS calls of enqueue, then get() or wait()  *)
(* for each future.                                                        *)

EnqueueTask ==
    /\ pc \in {"compare", "score"} /\ submitted < round + NUM_THREADS
    /\ EnqueueLock
    /\ UNCHANGED <<search, task, result>>

EmplaceTask ==
    /\ Emplace
    /\ lambda' = Append(lambda, [kind |-> pc, t |-> submitted - round])
    /\ UNCHANGED <<g, pc, cur, curLevel, bfs, round, future, task, result>>

NotifyWorker ==
    /\ NotifyOne
    /\ UNCHANGED <<search, task, result>>

Enqueued == owner = "idle" /\ submitted = round + NUM_THREADS

Ready == (round + 1)..(round + NUM_THREADS) \subseteq finished

MergeBest ==
    /\ pc = "compare" /\ Enqueued /\ Ready
    /\ LET bests == [i \in 1..NUM_THREADS |-> future[i - 1]]
       IN  Move(BestOf(bests, 1..NUM_THREADS, g.sim[cur]))
    /\ pc' = "descend"
    /\ future' = [t \in DOMAIN future |-> 0]
    /\ UNCHANGED <<vars, g, bfs, lambda, round, task, result>>

(* Mutant of WaitForScores: the block is left when the tasks are enqueued. *)
WaitForNothing ==
    /\ pc = "score" /\ Enqueued
    /\ pc' = "select"
    /\ UNCHANGED <<vars, g, cur, curLevel, bfs, lambda, round, future, task, result>>

WaitForScores ==
    /\ pc = "score" /\ Enqueued /\ Ready
    /\ pc' = "select"
    /\ UNCHANGED <<vars, g, cur, curLevel, bfs, lambda, round, future, task, result>>

---------------------------------------------------------------------------
(* The tasks.                                                              *)

Task(w) == lambda[current[w]]

(* Mutant of FindLocalBest: the task stores its last neighbour.            *)
FindLocalLast(w) ==
    /\ worker[w] = "run" /\ Task(w).kind = "compare"
    /\ LET last == {i \in Stride(Task(w).t) : \A j \in Stride(Task(w).t) : j <= i}
       IN  future' = [future EXCEPT ![Task(w).t] = BestOf(neighbors, last, 0)]
    /\ Run(w)
    /\ UNCHANGED <<g, pc, cur, curLevel, bfs, lambda, round, task, result>>

FindLocalBest(w) ==
    /\ worker[w] = "run" /\ Task(w).kind = "compare"
    /\ future' = [future EXCEPT ![Task(w).t] = BestOf(neighbors, Stride(Task(w).t), 0)]
    /\ Run(w)
    /\ UNCHANGED <<g, pc, cur, curLevel, bfs, lambda, round, task, result>>

(* Mutant of Score: the task does not look at what it was enqueued for.     *)
ScoreAnything(w) ==
    /\ worker[w] = "run" /\ step[w] = "start"
    /\ local' = [local EXCEPT ![w] = SetToSeq({candidate_nodes[i] : i \in Partition(Task(w).t)})]
    /\ step' = [step EXCEPT ![w] = "lock"]
    /\ UNCHANGED <<vars, search, seen, candidates, candidates_mutex, result>>

Score(w) ==
    /\ worker[w] = "run" /\ Task(w).kind = "score" /\ step[w] = "start"
    /\ local' = [local EXCEPT ![w] = SetToSeq({candidate_nodes[i] : i \in Partition(Task(w).t)})]
    /\ step' = [step EXCEPT ![w] = "lock"]
    /\ UNCHANGED <<vars, search, seen, candidates, candidates_mutex, result>>

(* Mutant of LockCandidates: no lock_guard.                                *)
LockNothing(w) ==
    /\ step[w] = "lock"
    /\ step' = [step EXCEPT ![w] = "read"]
    /\ UNCHANGED <<vars, search, local, seen, candidates, candidates_mutex, result>>

LockCandidates(w) ==
    /\ step[w] = "lock" /\ candidates_mutex = {}
    /\ candidates_mutex' = {w}
    /\ step' = [step EXCEPT ![w] = "read"]
    /\ UNCHANGED <<vars, search, local, seen, candidates, result>>

ReadCandidates(w) ==
    /\ step[w] = "read"
    /\ seen' = [seen EXCEPT ![w] = candidates]
    /\ step' = [step EXCEPT ![w] = "push"]
    /\ UNCHANGED <<vars, search, local, candidates, candidates_mutex, result>>

(* The nodes are in, the lock is released, and the task is done.           *)
PushCandidates(w) ==
    /\ step[w] = "push"
    /\ candidates' = [n \in g.node |->
           seen[w][n] + Cardinality({i \in DOMAIN local[w] : local[w][i] = n})]
    /\ local' = [local EXCEPT ![w] = <<>>] /\ seen' = [seen EXCEPT ![w] = <<>>]
    /\ candidates_mutex' = candidates_mutex \ {w}
    /\ step' = [step EXCEPT ![w] = "start"]
    /\ Run(w)
    /\ UNCHANGED <<search, result>>

(* The workers' steps outside the tasks.                                   *)
PoolLoop(w) ==
    /\ Acquire(w) \/ Refuse(w) \/ Wait(w) \/ Exit(w) \/ Take(w)
    /\ UNCHANGED <<search, task, result>>

WakeWorker(w) ==
    /\ WakeSpuriously(w)
    /\ UNCHANGED <<search, task, result>>

---------------------------------------------------------------------------
(* The result, and the destructor of the pool.                             *)

InHeap == {n \in g.node : candidates[n] > 0}

Top(n) == n \in InHeap /\ \A m \in InHeap : m = n \/ Above(n, m)

Live(n) == n \notin g.deleted_nodes

(* One turn of the loop: the top of the heap comes out.                    *)
Pop(n) ==
    /\ pc \in {"select", "pop"} /\ Len(result) < K /\ Top(n)
    /\ candidates' = [candidates EXCEPT ![n] = @ - 1]
    /\ pc' = "pop"
    /\ UNCHANGED <<vars, g, cur, curLevel, bfs, lambda, round, future, local, seen, candidates_mutex, step>>

(* Mutant of Select: a deleted node is a result, too.                      *)
SelectAny ==
    \E n \in g.node : Pop(n) /\ result' = Append(result, n)

Select ==
    \E n \in g.node :
        /\ Pop(n)
        /\ result' = IF Live(n) THEN Append(result, n) ELSE result

SelectEnd ==
    /\ pc \in {"select", "pop"} /\ (Len(result) >= K \/ InHeap = {})
    /\ pc' = "destroy"
    /\ UNCHANGED <<vars, g, cur, curLevel, bfs, lambda, round, future, task, result>>

Destroy ==
    /\ pc = "destroy"
    /\ StopLock \/ SetStop \/ NotifyAll
    /\ UNCHANGED <<search, task, result>>

Return ==
    /\ pc = "destroy" /\ Join
    /\ pc' = "returned"
    /\ UNCHANGED <<g, cur, curLevel, bfs, lambda, round, future, task, result>>

---------------------------------------------------------------------------
OwnerStep ==
    \/ DescendSerially \/ DescendInParallel
    \/ StartCollecting \/ CollectNode \/ MeetNeighbor \/ Collected
    \/ EnqueueTask \/ EmplaceTask \/ NotifyWorker \/ MergeBest \/ WaitForScores
    \/ Select \/ SelectEnd \/ Destroy \/ Return

WorkerStep(w) ==
    \/ PoolLoop(w) \/ FindLocalBest(w) \/ Score(w)
    \/ LockCandidates(w) \/ ReadCandidates(w) \/ PushCandidates(w)

SearchNext == OwnerStep \/ \E w \in Worker : WorkerStep(w) \/ WakeWorker(w)

SearchSpec ==
    /\ SearchInit /\ [][SearchNext]_searchVars
    /\ WF_searchVars(OwnerStep) /\ \A w \in Worker : WF_searchVars(WorkerStep(w))

---------------------------------------------------------------------------
(* Properties.                                                             *)

(* The variables of the search keep their types; a worker is within a      *)
(* scoring task only while it runs one.                                    *)
SearchTypeOK ==
    /\ g \in Graphs
    /\ pc \in {"descend", "compare", "collect", "score", "select", "pop", "destroy", "returned"}
    /\ cur \in g.node /\ curLevel \in (-1)..(g.levels - 1)
    /\ {candidate_nodes, bfs_queue, unseen, result} \subseteq Seq(g.node) /\ visited \subseteq g.node
    /\ Len(lambda) = submitted /\ round \in 0..submitted
    /\ future \in [0..(NUM_THREADS - 1) -> g.node \cup {0}]
    /\ local \in [Worker -> Seq(g.node)] /\ DOMAIN seen = Worker
    /\ candidates \in [g.node -> Nat]
    /\ candidates_mutex \subseteq Worker
    /\ step \in [Worker -> {"start", "lock", "read", "push"}]
    /\ \A w \in Worker : step[w] # "start" => worker[w] = "run" /\ Task(w).kind = "score"

(* A task refers to variables of the block that enqueued it (`neighbors`,  *)
(* `candidate_nodes`, `candidates_mutex`, HNSW.cpp:464, 542): none is      *)
(* queued or running when the search has left that block.                  *)
NothingDangles ==
    \A k \in 1..submitted : k \notin finished => pc = lambda[k].kind /\ k > round

(* Whatever the order of the tasks, every collected node ends up once      *)
(* among the candidates, no other node does (HNSW.cpp:538-566).            *)
EachScoredOnce ==
    pc = "select" =>
        \A n \in g.node : candidates[n] = (IF n \in ToSet(candidate_nodes) THEN 1 ELSE 0)

(* The descent, merged from the tasks' bests, ends where no neighbour in   *)
(* level 0 is more similar, as the serial descent does (HNSW.cpp:488-505). *)
DescentEndsAtPeak ==
    curLevel < 0 => \A n \in ToSet(g.neighbors[0][cur]) : g.sim[n] <= g.sim[cur]

(* The result is the K most similar live nodes among those collected, in   *)
(* order, each once (HNSW.cpp:569-574).                                    *)
ResultIsBest ==
    pc \in {"destroy", "returned"} =>
        LET live == {n \in ToSet(candidate_nodes) : n \notin g.deleted_nodes}
        IN  /\ ToSet(result) \subseteq live
            /\ Len(result) = (IF Cardinality(live) < K THEN Cardinality(live) ELSE K)
            /\ \A i, j \in DOMAIN result : i < j => Above(result[i], result[j])
            /\ \A n \in live \ ToSet(result) : \A i \in DOMAIN result : Above(result[i], n)

(* The search returns: no worker is left asleep and neither mutex blocks   *)
(* for ever (ThreadPool.h, HNSW.cpp:489, 556, 565).                        *)
SearchReturns == <>(pc = "returned")

---------------------------------------------------------------------------
(* The other parts of the inductive invariant of ParallelSearchProofs.     *)

InBlock == pc \in {"compare", "score"}

(* The futures of the block that are ready, by their `t`.                  *)
Done == {k - round - 1 : k \in {k \in finished : k > round}}

(* The tasks of the block are the last ones, numbered from 0 on; those of  *)
(* earlier blocks are finished, and so are all outside of a block.         *)
RoundOK ==
    /\ lambda \in Seq([kind : {"compare", "score"}, t : 0..(NUM_THREADS - 1)])
    /\ 1..(IF InBlock THEN round ELSE submitted) \subseteq finished
    /\ InBlock =>
           /\ submitted <= round + NUM_THREADS
           /\ \A k \in (round + 1)..submitted : lambda[k] = [kind |-> pc, t |-> k - round - 1]
    /\ owner = "emplace" => InBlock /\ submitted < round + NUM_THREADS
    /\ owner = "notify" => InBlock

(* A node is met once, so that it is collected once.                       *)
CollectedOnce ==
    /\ pc \in {"descend", "compare"} => candidate_nodes = <<>> /\ bfs_queue = <<>>
    /\ IsInjective(candidate_nodes) /\ IsInjective(bfs_queue)
    /\ ToSet(candidate_nodes) \cap ToSet(bfs_queue) = {}
    /\ ToSet(candidate_nodes) \cup ToSet(bfs_queue) \subseteq visited

(* A future that is ready holds the best of the part of its task.          *)
FuturesOK ==
    pc = "compare" =>
        /\ curLevel >= 0
        /\ \A t \in Done : future[t] = BestOf(neighbors, Stride(t), 0)

PartOf(t) == {candidate_nodes[i] : i \in Partition(t)}

(* A scoring task has its part in `local`, and while it holds the mutex    *)
(* nobody changes what it has read.                                        *)
StepsOK ==
    /\ \A w \in Worker :
           /\ step[w] # "start" =>
                  /\ IsInjective(local[w]) /\ ToSet(local[w]) = PartOf(Task(w).t)
           /\ step[w] = "push" => seen[w] = candidates
           /\ step[w] \in {"read", "push"} <=> w \in candidates_mutex
    /\ \A v, w \in candidates_mutex : v = w

(* The candidates are the parts of the tasks that are done.                *)
Scored == UNION {PartOf(t) : t \in Done}

CandidatesOK ==
    /\ pc \in {"descend", "compare", "collect"} => candidates = [n \in g.node |-> 0]
    /\ pc = "score" => candidates = [n \in g.node |-> IF n \in Scored THEN 1 ELSE 0]
    /\ EachScoredOnce

(* While nodes come out of the heap: the live ones so far are the result,  *)
(* in order, and above what is left.                                       *)
HeapAndResult ==
    LET live == {n \in ToSet(candidate_nodes) : Live(n)}
    IN  /\ InHeap \subseteq ToSet(candidate_nodes) \ ToSet(result) /\ \A n \in InHeap : candidates[n] = 1
        /\ ToSet(result) \subseteq live /\ live \subseteq InHeap \cup ToSet(result)
        /\ \A i, j \in DOMAIN result : i < j => Above(result[i], result[j])
        /\ \A i \in DOMAIN result : \A n \in InHeap : Above(result[i], n)
        /\ Len(result) <= K

PoppedOK ==
    /\ pc \notin {"pop", "destroy", "returned"} => result = <<>>
    /\ pc = "pop" => HeapAndResult

SearchInv ==
    /\ PoolInv /\ SearchTypeOK
    /\ RoundOK /\ CollectedOnce /\ FuturesOK /\ StepsOK /\ CandidatesOK /\ DescentEndsAtPeak
    /\ PoppedOK /\ ResultIsBest
=============================================================================
