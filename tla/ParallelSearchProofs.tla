------------------------ MODULE ParallelSearchProofs ------------------------
(***************************************************************************)
(* Theorems about ParallelSearch for any indices, any finite set of        *)
(* workers and any number of tasks and of nodes collected.                 *)
(***************************************************************************)
EXTENDS ParallelSearch, ThreadPoolProofs, WellFoundedInduction

(* A finite set of numbers has a largest member.                           *)
LEMMA LargestExists ==
    ASSUME NEW S \in SUBSET Nat, IsFiniteSet(S), S # {}
    PROVE  \E m \in S : \A n \in S : n <= m
<1> DEFINE UpTo(n) == {m \in S : n <= m}
           T     == {UpTo(n) : n \in S}
<1>1. T \subseteq FiniteSubsetsOf(S) /\ T # {}
  <2>1. \A n \in S : UpTo(n) \subseteq S /\ IsFiniteSet(UpTo(n))
    BY FS_Subset
  <2> QED
    BY <2>1 DEF FiniteSubsetsOf
<1>2. PICK U \in T : \A V \in T : ~(<<V, U>> \in StrictSubsetOrdering(S))
  <2> HIDE DEF T
  <2> DEFINE R == StrictSubsetOrdering(S)
             F == FiniteSubsetsOf(S)
  <2>1. IsWellFoundedOn(R, F)
    BY FS_StrictSubsetOrderingWellFounded
  <2>2. T \subseteq F
    BY <1>1
  <2> HIDE DEF R, F
  <2>3. \E U \in T : \A V \in T : ~(<<V, U>> \in R)
    BY <1>1, <2>1, <2>2, WFMin
  <2> QED
    BY <2>3 DEF R
<1>3. PICK m \in S : U = UpTo(m)
  BY <1>2
<1>4. ASSUME NEW n \in S, ~(n <= m) PROVE FALSE
  <2>1. UpTo(n) \subseteq UpTo(m) /\ m \in UpTo(m) /\ m \notin UpTo(n)
    <3>1. \A k \in S : n <= k => m <= k
      <4>1. n \in Nat /\ m \in Nat /\ \A k \in S : k \in Nat
        OBVIOUS
      <4> QED
        BY <1>4, <4>1
    <3>2. m <= m
      OBVIOUS
    <3> QED
      BY <1>4, <3>1, <3>2
  <2>2. <<UpTo(n), UpTo(m)>> \in StrictSubsetOrdering(S)
    BY <2>1 DEF StrictSubsetOrdering
  <2> QED
    BY <1>2, <1>3, <2>2
<1> QED
  BY <1>4

(* SetToSeq lists the elements of a finite set, each once.                 *)
LEMMA SetToSeqLists ==
    ASSUME NEW S, IsFiniteSet(S)
    PROVE  /\ SetToSeq(S) \in Seq(S)
           /\ \A x \in S : \E i \in DOMAIN SetToSeq(S) : SetToSeq(S)[i] = x
           /\ \A i, j \in DOMAIN SetToSeq(S) : SetToSeq(S)[i] = SetToSeq(S)[j] => i = j
<1> DEFINE n == Cardinality(S)
<1>1. n \in Nat /\ ExistsBijection(1..n, S)
  BY FS_CardinalityType
<1>2. \E f \in [1..n -> S] : IsInjective(f)
  BY <1>1 DEF ExistsBijection, Bijection, Injection, IsInjective
<1> DEFINE s == SetToSeq(S)
<1>3. s \in [1..n -> S] /\ IsInjective(s)
  BY <1>2 DEF SetToSeq
<1>4. s \in Injection(1..n, S)
  BY <1>3 DEF Injection
<1>5. IsFiniteSet(1..n) /\ Cardinality(1..n) = n
  BY <1>1, FS_Interval
<1>6. s \in Surjection(1..n, S)
  BY <1>4, <1>5, FS_Injection
<1>7. s \in Seq(S) /\ DOMAIN s = 1..n
  BY <1>1, <1>3
<1> QED
  BY <1>3, <1>6, <1>7 DEF Surjection, IsInjective

LEMMA NumThreads == NUM_THREADS \in Nat \ {0}
<1>1. NUM_THREADS \in Nat /\ (NUM_THREADS = 0 <=> Worker = {})
  BY WorkersAssumption, FS_CardinalityType, FS_EmptySet DEF NUM_THREADS
<1> QED
  BY <1>1, WorkersAssumption

(* What is known of the index searched.                                    *)
LEMMA IndexFacts ==
    ASSUME g \in Graphs
    PROVE  /\ g.node \subseteq Nat \ {0} /\ g.entry \in g.node
           /\ g.levels \in Nat \ {0}
           /\ \A n \in g.node : g.sim[n] \in Nat
           /\ \A l \in 0..(g.levels - 1), n \in g.node : g.neighbors[l][n] \in Seq(g.node)
  BY GraphsAssumption

---------------------------------------------------------------------------
(* The loops that look for the best neighbour.                             *)

(* Of finitely many numbered members one has the largest f, and of those   *)
(* the smallest number.                                                    *)
LEMMA FirstOfLargestExists ==
    ASSUME NEW S \in SUBSET Nat, IsFiniteSet(S), S # {}, NEW f, \A i \in S : f[i] \in Nat
    PROVE  \E i \in S : \A j \in S : f[i] > f[j] \/ (f[i] = f[j] /\ i <= j)
<1> DEFINE h == [i \in S |-> f[i]]
           I == {h[i] : i \in S}
<1>1. IsFiniteSet(I)
  <2>1. h \in Surjection(S, I)
    BY DEF Surjection
  <2> HIDE DEF I, h
  <2> QED
    BY <2>1, FS_Surjection
<1>2. I \in SUBSET Nat /\ I # {}
  OBVIOUS
<1>3. PICK m \in I : \A n \in I : n <= m
  <2> HIDE DEF I
  <2> QED
    BY <1>1, <1>2, LargestExists
<1> DEFINE T == {i \in S : f[i] = m}
           d(i) == i
<1>4. T # {} /\ T \subseteq S /\ \A i \in S : f[i] <= m
  BY <1>3
<1>5. PICK i \in T : \A j \in T : i <= j
  <2>1. PICK x \in T : \A y \in T : ~(<<y, x>> \in OpToRel(<, Nat))
    BY <1>4, NatLessThanWellFounded, WFMin
  <2>2. x \in Nat /\ \A y \in T : y \in Nat
    BY <1>4
  <2>3. \A y \in T : ~(y < x)
    BY <2>1, <2>2 DEF OpToRel
  <2> QED
    BY <2>2, <2>3
<1>6. ASSUME NEW j \in S PROVE f[i] > f[j] \/ (f[i] = f[j] /\ i <= j)
  <2>1. f[i] = m /\ f[j] <= m /\ f[j] \in Nat /\ m \in Nat
    BY <1>2, <1>4, <1>5
  <2>2. CASE f[j] = m
    BY <1>5, <2>1, <2>2
  <2>3. CASE f[j] # m
    BY <2>1, <2>3
  <2> QED
    BY <2>2, <2>3
<1> QED
  BY <1>4, <1>5, <1>6

(* The loop finds one that is above the floor and below none, or none is   *)
(* above the floor.                                                        *)
LEMMA BestOfFacts ==
    ASSUME g \in Graphs, NEW seq, NEW I \in SUBSET Nat, IsFiniteSet(I), NEW floor \in Nat,
           \A i \in I : seq[i] \in g.node \cup {0}, NEW best, best = BestOf(seq, I, floor)
    PROVE  /\ best \in g.node \cup {0}
           /\ best = 0 => \A i \in I : seq[i] # 0 => g.sim[seq[i]] <= floor
           /\ best # 0 => /\ \E i \in I : best = seq[i]
                          /\ \A i \in I : seq[i] # 0 => g.sim[seq[i]] <= g.sim[best]
<1> DEFINE above == {i \in I : seq[i] # 0 /\ g.sim[seq[i]] > floor}
           first(i) == \A j \in above :
                     \/ g.sim[seq[i]] > g.sim[seq[j]]
                     \/ g.sim[seq[i]] = g.sim[seq[j]] /\ i <= j
<1>1. \A i \in I : seq[i] # 0 => seq[i] \in g.node /\ g.sim[seq[i]] \in Nat
  BY IndexFacts
<1>2. CASE above = {}
  <2>1. best = 0
    BY <1>2 DEF BestOf
  <2>2. ASSUME NEW i \in I, seq[i] # 0 PROVE g.sim[seq[i]] <= floor
    <3> DEFINE s == g.sim[seq[i]]
    <3>1. s \in Nat /\ ~(s > floor)
      BY <1>1, <1>2, <2>2
    <3> HIDE DEF s
    <3> QED
      BY <3>1 DEF s
  <2> QED
    BY <2>1, <2>2
<1>3. CASE above # {}
  <2> DEFINE f == [i \in above |-> g.sim[seq[i]]]
  <2>1. above \in SUBSET Nat /\ IsFiniteSet(above)
    <3>1. above \subseteq I
      OBVIOUS
    <3> QED
      BY <3>1, FS_Subset
  <2>2. \A i \in above : f[i] \in Nat
    BY <1>1
  <2>3. \E i \in above : \A j \in above : f[i] > f[j] \/ (f[i] = f[j] /\ i <= j)
    <3> HIDE DEF above, f
    <3> QED
      BY <1>3, <2>1, <2>2, FirstOfLargestExists
  <2>4. \E i \in above : first(i)
    BY <2>3
  <2> DEFINE c == CHOOSE i \in above : first(i)
  <2>5. c \in above /\ first(c)
    <3> HIDE DEF above, first
    <3> QED
      BY <2>4
  <2>6. best = seq[c]
    BY <1>3 DEF BestOf
  <2>7. c \in I /\ best # 0 /\ best \in g.node /\ g.sim[best] \in Nat /\ g.sim[best] > floor
    <3> HIDE DEF c
    <3> QED
      BY <1>1, <2>5, <2>6
  <2>8. ASSUME NEW i \in I, seq[i] # 0 PROVE g.sim[seq[i]] <= g.sim[best]
    <3> HIDE DEF c
    <3> DEFINE s == g.sim[seq[i]]
               b == g.sim[best]
    <3>1. s \in Nat /\ b \in Nat /\ b > floor
      BY <1>1, <2>7, <2>8
    <3>2. CASE i \in above
      <4>1. b > s \/ b = s
        BY <2>5, <2>6, <3>2
      <4> HIDE DEF s, b
      <4> QED
        BY <3>1, <4>1 DEF s, b
    <3>3. CASE i \notin above
      <4>1. ~(s > floor)
        BY <2>8, <3>3
      <4> HIDE DEF s, b
      <4> QED
        BY <3>1, <4>1 DEF s, b
    <3> QED
      BY <3>2, <3>3
  <2> HIDE DEF c, above
  <2> QED
    BY <2>6, <2>7, <2>8
<1> HIDE DEF above
<1> QED
  BY <1>2, <1>3

(* A worker's share of a list consists of positions in the list, and each  *)
(* position is in the share of a worker.                                   *)
LEMMA StrideFacts ==
    ASSUME DOMAIN neighbors = 1..Len(neighbors), Len(neighbors) \in Nat
    PROVE  /\ \A t : Stride(t) \subseteq DOMAIN neighbors
           /\ \A t : Stride(t) \in SUBSET Nat /\ IsFiniteSet(Stride(t))
           /\ \A i \in DOMAIN neighbors : \E t \in 0..(NUM_THREADS - 1) : i \in Stride(t)
<1>1. \A t : Stride(t) \subseteq DOMAIN neighbors
  BY DEF Stride
<1>2. DOMAIN neighbors \in SUBSET Nat /\ IsFiniteSet(DOMAIN neighbors)
  BY FS_Interval
<1>3. ASSUME NEW i \in DOMAIN neighbors PROVE \E t \in 0..(NUM_THREADS - 1) : i \in Stride(t)
  <2>1. i - 1 \in Nat
    <3> DEFINE n == Len(neighbors)
    <3>1. i \in 1..n /\ n \in Nat
      OBVIOUS
    <3> HIDE DEF n
    <3> QED
      BY <3>1
  <2> DEFINE m == i - 1
             t == m % NUM_THREADS
  <2>2. t \in 0..(NUM_THREADS - 1)
    <3> HIDE DEF m
    <3> QED
      BY <2>1, NumThreads DEF m
  <2>3. i \in Stride(t)
    BY DEF Stride
  <2> HIDE DEF t
  <2> QED
    BY <2>2, <2>3
<1> QED
  BY <1>1, <1>2, <1>3, FS_Subset

(* The parts of the collected nodes are disjoint and cover them, also when *)
(* there are fewer nodes than workers.                                     *)
LEMMA PartitionFacts ==
    ASSUME candidate_nodes \in Seq(g.node)
    PROVE  /\ \A t \in 0..(NUM_THREADS - 1) : Partition(t) \subseteq 1..Len(candidate_nodes)
           /\ \A t, u \in 0..(NUM_THREADS - 1) : \A i \in Partition(t) \cap Partition(u) : t = u
           /\ \A i \in 1..Len(candidate_nodes) : \E t \in 0..(NUM_THREADS - 1) : i \in Partition(t)
<1> DEFINE n == Len(candidate_nodes)
           N == NUM_THREADS
           size == n \div N
<1>1. n \in Nat /\ N \in Nat \ {0} /\ size \in Nat /\ N * size <= n
  <2>1. n \in Nat /\ N \in Nat \ {0}
    BY NumThreads
  <2> HIDE DEF n, N
  <2> QED
    BY <2>1
<1>2. \A t : Partition(t) = (t * size + 1)..(IF t = N - 1 THEN n ELSE (t + 1) * size)
  BY DEF Partition
<1> HIDE DEF n, N, size
<1>3. \A t, u \in Nat : t + 1 <= u => (t + 1) * size <= u * size
  BY <1>1
<1>4. \A t \in Nat : (t + 1) * size = t * size + size /\ t * size \in Nat
  BY <1>1
<1>5. ASSUME NEW t \in 0..(N - 1) PROVE Partition(t) \subseteq 1..n
  <2>1. CASE t = N - 1
    <3> DEFINE c == t * size
    <3>1. c \in Nat /\ Partition(t) = (c + 1)..n
      BY <1>1, <1>2, <1>4, <2>1
    <3> HIDE DEF c
    <3> QED
      BY <1>1, <3>1
  <2>2. CASE t # N - 1
    <3>1. t \in Nat /\ t + 1 \in Nat /\ t + 1 <= N
      BY <1>1, <2>2
    <3>2. (t + 1) * size <= N * size
      BY <1>1, <1>3, <3>1
    <3> DEFINE a == (t + 1) * size
               b == N * size
               c == t * size
    <3>3. a \in Nat /\ b \in Nat /\ c \in Nat /\ a <= b /\ b <= n
      BY <1>1, <1>4, <3>1, <3>2
    <3>4. Partition(t) = (c + 1)..a
      BY <1>2, <2>2
    <3> HIDE DEF a, b, c
    <3> QED
      BY <1>1, <3>3, <3>4
  <2> QED
    BY <2>1, <2>2
<1>6. ASSUME NEW t \in 0..(N - 1), NEW u \in 0..(N - 1), t < u, NEW i \in Partition(t) \cap Partition(u)
      PROVE  FALSE
  <2>1. t \in Nat /\ u \in Nat /\ t + 1 <= u /\ t # N - 1
    BY <1>1, <1>6
  <2>2. (t + 1) * size <= u * size
    BY <1>3, <2>1
  <2> DEFINE a == (t + 1) * size
             b == u * size
             c == t * size
  <2>3. a \in Nat /\ b \in Nat /\ c \in Nat /\ a <= b
    BY <1>1, <1>4, <2>1, <2>2
  <2>4. i \in (c + 1)..a
    BY <1>2, <1>6, <2>1
  <2>5. \E e \in {n, (u + 1) * size} : i \in (b + 1)..e
    BY <1>2, <1>6
  <2>6. \E e \in Nat : i \in (b + 1)..e
    <3>1. (u + 1) * size \in Nat
      BY <1>1, <1>4, <2>1
    <3> HIDE DEF b
    <3> QED
      BY <1>1, <2>5, <3>1
  <2> HIDE DEF a, b, c
  <2> QED
    BY <2>3, <2>4, <2>6
<1>7. ASSUME NEW i \in 1..n PROVE \E t \in 0..(N - 1) : i \in Partition(t)
  <2> DEFINE T == {t \in 0..(N - 1) : t * size < i}
  <2>1. T \in SUBSET Nat /\ IsFiniteSet(T) /\ T # {}
    <3>1. 0 \in T
      <4>1. 0 * size = 0
        BY <1>1
      <4>2. 0 \in 0..(N - 1) /\ 0 < i
        BY <1>1
      <4> QED
        BY <4>1, <4>2
    <3>2. IsFiniteSet(0..(N - 1))
      BY <1>1, FS_Interval
    <3>3. T \subseteq 0..(N - 1)
      OBVIOUS
    <3>4. 0..(N - 1) \subseteq Nat
      BY <1>1
    <3> HIDE DEF T
    <3>5. IsFiniteSet(T)
      BY <3>2, <3>3, FS_Subset
    <3> QED
      BY <3>1, <3>3, <3>4, <3>5
  <2>2. PICK t \in T : \A u \in T : u <= t
    <3> HIDE DEF T
    <3> QED
      BY <2>1, LargestExists
  <2>3. t \in Nat /\ t \in 0..(N - 1) /\ t * size < i /\ t * size \in Nat
    BY <1>4, <2>1, <2>2
  <2>4. CASE t = N - 1
    <3> DEFINE c == t * size
    <3>1. Partition(t) = (c + 1)..n
      BY <1>2, <2>4
    <3>2. c \in Nat /\ c < i
      BY <2>3
    <3> HIDE DEF c, T
    <3> QED
      BY <1>1, <2>3, <3>1, <3>2
  <2>5. CASE t # N - 1
    <3> DEFINE c == t * size
               a == (t + 1) * size
    <3>1. Partition(t) = (c + 1)..a
      BY <1>2, <2>5
    <3>2. t + 1 \in 0..(N - 1) /\ t + 1 \notin T
      <4>1. t + 1 \in 0..(N - 1)
        BY <1>1, <2>3, <2>5
      <4>2. ~(t + 1 <= t)
        BY <2>3
      <4> HIDE DEF T
      <4> QED
        BY <2>2, <4>1, <4>2
    <3>3. ~(a < i)
      <4> HIDE DEF a
      <4>1. t + 1 \in T <=> t + 1 \in 0..(N - 1) /\ a < i
        BY DEF a
      <4> HIDE DEF T
      <4> QED
        BY <3>2, <4>1
    <3>4. c \in Nat /\ c < i /\ a \in Nat
      BY <1>1, <1>4, <2>3
    <3> HIDE DEF c, a, T
    <3> QED
      BY <1>1, <2>3, <3>1, <3>3, <3>4
  <2> QED
    BY <2>4, <2>5
<1>8. \A t, u \in 0..(N - 1) : \A i \in Partition(t) \cap Partition(u) : t = u
  <2>1. \A t, u \in 0..(N - 1) : t < u \/ t = u \/ u < t
    BY <1>1
  <2> QED
    BY <1>6, <2>1
<1> QED
  BY <1>5, <1>7, <1>8 DEF n, N

---------------------------------------------------------------------------
(* The steps of the search are steps of the pool, or leave it alone.       *)

LEMMA StepsOfPool == [SearchNext]_searchVars => [Next]_vars
<1> SUFFICES ASSUME [SearchNext]_searchVars PROVE [Next]_vars
  OBVIOUS
<1>1. CASE OwnerStep
  <2>1. CASE \/ DescendSerially \/ DescendInParallel
             \/ StartCollecting \/ CollectNode \/ MeetNeighbor \/ Collected
             \/ MergeBest \/ WaitForScores \/ Select \/ SelectEnd
    BY <2>1 DEF DescendSerially, DescendInParallel, StartCollecting, CollectNode, MeetNeighbor,
                Collected, MergeBest, WaitForScores, Select, Pop, SelectEnd
  <2>2. CASE EnqueueTask \/ EmplaceTask \/ NotifyWorker \/ Destroy \/ Return
    BY <2>2 DEF EnqueueTask, EmplaceTask, NotifyWorker, Destroy, Return, Next, InCall
  <2> QED
    BY <1>1, <2>1, <2>2 DEF OwnerStep
<1>2. ASSUME NEW w \in Worker, WorkerStep(w) PROVE [Next]_vars
  <2>1. CASE PoolLoop(w) \/ FindLocalBest(w) \/ PushCandidates(w)
    BY <2>1 DEF PoolLoop, FindLocalBest, PushCandidates, Next, Loop
  <2>2. CASE Score(w) \/ LockCandidates(w) \/ ReadCandidates(w)
    BY <2>2 DEF Score, LockCandidates, ReadCandidates
  <2> QED
    BY <1>2, <2>1, <2>2 DEF WorkerStep
<1>3. ASSUME NEW w \in Worker, WakeWorker(w) PROVE [Next]_vars
  BY <1>3 DEF WakeWorker, Next
<1>4. CASE UNCHANGED searchVars
  BY <1>4 DEF searchVars
<1> QED
  BY <1>1, <1>2, <1>3, <1>4 DEF SearchNext

(* A task that runs belongs to the block the search is in, is not done and *)
(* refers to its own part.                                                 *)
LEMMA RunningTask ==
    ASSUME PoolInv, SearchTypeOK, RoundOK, NEW w \in Worker, worker[w] = "run"
    PROVE  /\ InBlock /\ current[w] \in (round + 1)..submitted /\ current[w] \notin finished
           /\ Task(w).kind = pc /\ Task(w).t = current[w] - round - 1
           /\ Task(w).t \in 0..(NUM_THREADS - 1) /\ Task(w).t \notin Done
<1>1. /\ submitted \in Nat /\ current[w] \in 1..submitted /\ finished \subseteq 1..submitted
      /\ current[w] \notin finished
  BY PoolBoundsAssumption DEF PoolInv, TypeOK, SeenOK, TasksInOnePlace
<1>2. InBlock /\ round \in Nat /\ current[w] \in (round + 1)..submitted
  <2>1. round \in Nat
    BY <1>1 DEF SearchTypeOK
  <2>2. 1..(IF InBlock THEN round ELSE submitted) \subseteq finished
    BY DEF RoundOK
  <2>3. InBlock
    BY <1>1, <2>2
  <2> QED
    BY <1>1, <2>1, <2>2, <2>3
<1>3. lambda[current[w]] = [kind |-> pc, t |-> current[w] - round - 1] /\ submitted <= round + NUM_THREADS
  BY <1>2 DEF RoundOK
<1>4. Task(w).kind = pc /\ Task(w).t = current[w] - round - 1
  BY <1>3 DEF Task
<1>5. current[w] - round - 1 \in 0..(NUM_THREADS - 1)
  BY <1>1, <1>2, <1>3, NumThreads
<1>6. current[w] - round - 1 \notin Done
  <2> SUFFICES ASSUME NEW k \in finished, k > round, k - round - 1 = current[w] - round - 1 PROVE FALSE
    BY DEF Done
  <2>1. k \in Nat
    BY <1>1
  <2>2. k = current[w]
    <3> DEFINE c == current[w]
    <3>1. c \in Nat /\ k - round - 1 = c - round - 1
      BY <1>1
    <3> HIDE DEF c
    <3>2. k = c
      BY <1>2, <2>1, <3>1
    <3> QED
      BY <3>2 DEF c
  <2> QED
    BY <1>1, <2>2
<1> QED
  BY <1>1, <1>2, <1>4, <1>5, <1>6

(* A block is begun with no task done and left with all done.              *)
LEMMA DoneWhenReady ==
    ASSUME PoolInv, SearchTypeOK, RoundOK, Enqueued, Ready
    PROVE  1..submitted \subseteq finished \/ ~InBlock
<1> SUFFICES ASSUME InBlock, NEW k \in 1..submitted PROVE k \in finished
  OBVIOUS
<1>1. submitted \in Nat /\ round \in Nat
  BY PoolBoundsAssumption DEF PoolInv, TypeOK, SearchTypeOK
<1>2. CASE k <= round
  BY <1>1, <1>2 DEF RoundOK
<1>3. CASE k > round
  <2>1. k \in (round + 1)..(round + NUM_THREADS)
    BY <1>1, <1>3 DEF Enqueued
  <2> QED
    BY <2>1 DEF Ready
<1> QED
  BY <1>1, <1>2, <1>3

LEMMA AllDoneWhenReady ==
    ASSUME PoolInv, SearchTypeOK, Ready
    PROVE  \A t \in 0..(NUM_THREADS - 1) : t \in Done
<1> SUFFICES ASSUME NEW t \in 0..(NUM_THREADS - 1) PROVE t \in Done
  OBVIOUS
<1>1. round \in Nat
  BY PoolBoundsAssumption DEF PoolInv, TypeOK, SearchTypeOK
<1> DEFINE k == round + 1 + t
<1>2. k \in (round + 1)..(round + NUM_THREADS) /\ k > round /\ t = k - round - 1
  BY <1>1, NumThreads
<1>3. k \in finished
  BY <1>2 DEF Ready
<1> HIDE DEF k
<1> QED
  BY <1>2, <1>3 DEF Done

LEMMA NoneDoneAtFirst ==
    ASSUME PoolInv, round' = submitted, finished' = finished
    PROVE  Done' = {}
<1>1. submitted \in Nat /\ \A k \in finished : k \in Nat /\ ~(k > submitted)
  BY PoolBoundsAssumption DEF PoolInv, TypeOK
<1>2. Done' = {k - round' - 1 : k \in {k \in finished' : k > round'}}
  BY DEF Done
<1> QED
  BY <1>1, <1>2

LEMMA OneMoreDone ==
    ASSUME PoolInv, SearchTypeOK, RoundOK, NEW w \in Worker, Run(w), round' = round
    PROVE  Done' = Done \cup {Task(w).t}
<1>1. worker[w] = "run" /\ finished' = finished \cup {current[w]}
  BY DEF Run
<1>2. current[w] \in (round + 1)..submitted /\ Task(w).t = current[w] - round - 1
  BY <1>1, RunningTask
<1>3. round \in Nat /\ submitted \in Nat
  BY PoolBoundsAssumption DEF PoolInv, TypeOK, SearchTypeOK
<1> DEFINE c == current[w]
<1>4. c > round
  <2>1. c \in (round + 1)..submitted
    BY <1>2
  <2> HIDE DEF c
  <2> QED
    BY <1>3, <2>1
<1>5. {k \in finished' : k > round'} = {k \in finished : k > round} \cup {c}
  <2> HIDE DEF c
  <2> QED
    BY <1>1, <1>4 DEF c
<1> HIDE DEF c
<1>6. Done' = {k - round - 1 : k \in {k \in finished' : k > round'}}
  BY DEF Done
<1>7. Done' = {k - round - 1 : k \in {k \in finished : k > round} \cup {c}}
  BY <1>5, <1>6
<1> QED
  BY <1>2, <1>7 DEF Done, c

(* The tasks of a block are numbered as they are enqueued, and the block   *)
(* is left with all of them done (HNSW.cpp:463-486, 541-566).              *)
LEMMA RoundStep ==
    PoolInv /\ PoolInv' /\ SearchTypeOK /\ RoundOK /\ [SearchNext]_searchVars => RoundOK'
<1> SUFFICES ASSUME PoolInv, PoolInv', SearchTypeOK, RoundOK, [SearchNext]_searchVars
             PROVE  RoundOK'
  OBVIOUS
<1> DEFINE Lambda == [kind : {"compare", "score"}, t : 0..(NUM_THREADS - 1)]
<1>t. /\ submitted \in Nat /\ round \in 0..submitted /\ finished \subseteq 1..submitted
      /\ lambda \in Seq(Lambda) /\ Len(lambda) = submitted
  BY PoolBoundsAssumption DEF PoolInv, TypeOK, SearchTypeOK, RoundOK
<1>o. NUM_THREADS' = NUM_THREADS /\ NUM_THREADS \in Nat \ {0}
  BY NumThreads DEF NUM_THREADS
<1>u. ASSUME lambda' = lambda, round' = round, submitted' = submitted, ~InBlock, ~InBlock',
             finished \subseteq finished', owner' = owner \/ owner' \notin {"emplace", "notify"}
      PROVE  RoundOK'
  BY <1>u, <1>o DEF RoundOK
<1>v. ASSUME lambda' = lambda, round' = round, submitted' = submitted, pc' = pc,
             finished \subseteq finished', owner' = owner \/ owner' \notin {"emplace", "notify"}
      PROVE  RoundOK'
  <2>1. InBlock' <=> InBlock
    BY <1>v DEF InBlock
  <2> QED
    BY <1>v, <1>o, <2>1 DEF RoundOK
<1>1. CASE DescendSerially
  <2>1. UNCHANGED <<lambda, round, submitted, pc, finished, owner>>
    BY <1>1 DEF DescendSerially, vars
  <2> QED
    BY <2>1, <1>v
<1>2. CASE DescendInParallel \/ Collected
  <2>1. ~InBlock /\ pc' \in {"compare", "score"} /\ round' = submitted /\ UNCHANGED <<lambda, submitted, finished, owner>>
    BY <1>2 DEF DescendInParallel, Collected, vars, InBlock
  <2>2. 1..submitted \subseteq finished /\ owner \notin {"emplace", "notify"}
    BY <2>1 DEF RoundOK
  <2>3. (round' + 1)..submitted' = {}
    BY <1>t, <2>1
  <2>4. submitted' <= round' + NUM_THREADS
    BY <1>t, <1>o, <2>1
  <2>5. InBlock'
    BY <2>1 DEF InBlock
  <2> QED
    BY <1>t, <1>o, <2>1, <2>2, <2>3, <2>4, <2>5 DEF RoundOK
<1>3. CASE StartCollecting
  BY <1>3, <1>u DEF StartCollecting, vars, InBlock
<1>4. CASE CollectNode \/ MeetNeighbor
  <2>1. UNCHANGED <<lambda, round, submitted, pc, finished, owner>>
    BY <1>4 DEF CollectNode, MeetNeighbor, vars
  <2> QED
    BY <2>1, <1>v
<1>5. CASE EnqueueTask
  <2>1. /\ InBlock /\ submitted < round + NUM_THREADS /\ owner' = "emplace"
        /\ UNCHANGED <<lambda, pc, round, submitted, finished>>
    BY <1>5 DEF EnqueueTask, EnqueueLock, InBlock, search
  <2>2. InBlock'
    BY <2>1 DEF InBlock
  <2> QED
    BY <1>o, <2>1, <2>2 DEF RoundOK
<1>6. CASE EmplaceTask
  <2>1. /\ owner = "emplace" /\ owner' = "notify" /\ submitted' = submitted + 1
        /\ lambda' = Append(lambda, [kind |-> pc, t |-> submitted - round])
        /\ UNCHANGED <<pc, round, finished>>
    BY <1>6 DEF EmplaceTask, Emplace
  <2>2. InBlock /\ InBlock' /\ submitted < round + NUM_THREADS
    BY <2>1 DEF RoundOK, InBlock
  <2> DEFINE new == [kind |-> pc, t |-> submitted - round]
  <2>3. new \in Lambda
    <3>1. pc \in {"compare", "score"} /\ submitted - round \in 0..(NUM_THREADS - 1)
      BY <1>t, <1>o, <2>2 DEF InBlock
    <3> QED
      BY <3>1
  <2> HIDE DEF new, Lambda
  <2>4. /\ lambda' \in Seq(Lambda) /\ \A k \in 1..submitted : lambda'[k] = lambda[k]
        /\ lambda'[submitted + 1] = new
    <3>1. lambda' = Append(lambda, new)
      BY <2>1 DEF new
    <3> QED
      BY <1>t, <2>3, <3>1
  <2>5. ASSUME NEW k \in (round' + 1)..submitted'
        PROVE  lambda'[k] = [kind |-> pc', t |-> k - round' - 1]
    <3>1. CASE k = submitted + 1
      <4>1. k - round' - 1 = submitted - round
        BY <1>t, <2>1, <3>1
      <4> QED
        BY <2>1, <2>4, <3>1, <4>1 DEF new
    <3>2. CASE k # submitted + 1
      <4>1. k \in (round + 1)..submitted /\ k \in 1..submitted
        BY <1>t, <2>1, <3>2
      <4> QED
        BY <2>1, <2>2, <2>4, <4>1 DEF RoundOK
    <3> QED
      BY <3>1, <3>2
  <2>6. submitted' <= round' + NUM_THREADS
    BY <1>t, <1>o, <2>1, <2>2
  <2> QED
    BY <1>o, <2>1, <2>2, <2>4, <2>5, <2>6 DEF RoundOK, Lambda
<1>7. CASE NotifyWorker
  <2>1. UNCHANGED <<lambda, round, submitted, pc, finished>> /\ owner' = "idle"
    BY <1>7 DEF NotifyWorker, NotifyOne, search
  <2> QED
    BY <2>1, <1>v
<1>8. CASE MergeBest \/ WaitForScores
  <2>1. /\ InBlock /\ Enqueued /\ Ready /\ pc' \in {"descend", "select"}
        /\ UNCHANGED <<lambda, round, submitted, finished, owner>>
    BY <1>8 DEF MergeBest, WaitForScores, vars, InBlock
  <2>2. 1..submitted \subseteq finished
    BY <2>1, DoneWhenReady
  <2>3. ~InBlock' /\ owner = "idle"
    BY <2>1 DEF InBlock, Enqueued
  <2> QED
    BY <1>o, <2>1, <2>2, <2>3 DEF RoundOK
<1>9. CASE Select \/ SelectEnd
  BY <1>9, <1>u DEF Select, Pop, SelectEnd, vars, InBlock
<1>10. CASE Destroy
  <2>1. UNCHANGED <<lambda, pc, round, submitted, finished>> /\ owner' \in {"stop", "notify_all", "join"}
    BY <1>10 DEF Destroy, StopLock, SetStop, NotifyAll, search
  <2> QED
    BY <2>1, <1>v
<1>11. CASE Return
  BY <1>11, <1>u DEF Return, Join, InBlock
<1>12. ASSUME NEW w \in Worker, PoolLoop(w) \/ WakeWorker(w) PROVE RoundOK'
  <2>1. UNCHANGED <<lambda, pc, round, submitted, finished, owner>>
    BY <1>12 DEF PoolLoop, WakeWorker, Acquire, Refuse, Wait, Exit, Take, WakeSpuriously, search
  <2> QED
    BY <2>1, <1>v
<1>13. ASSUME NEW w \in Worker, FindLocalBest(w) \/ PushCandidates(w) PROVE RoundOK'
  <2>1. UNCHANGED <<lambda, pc, round, submitted, owner>> /\ finished \subseteq finished'
    BY <1>13 DEF FindLocalBest, PushCandidates, Run, search
  <2> QED
    BY <2>1, <1>v
<1>14. ASSUME NEW w \in Worker, Score(w) \/ LockCandidates(w) \/ ReadCandidates(w) PROVE RoundOK'
  <2>1. UNCHANGED <<lambda, round, submitted, pc, finished, owner>>
    BY <1>14 DEF Score, LockCandidates, ReadCandidates, vars, search
  <2> QED
    BY <2>1, <1>v
<1>15. CASE UNCHANGED searchVars
  <2>1. UNCHANGED <<lambda, round, submitted, pc, finished, owner>>
    BY <1>15 DEF searchVars, vars, search
  <2> QED
    BY <2>1, <1>v
<1> QED
  BY <1>1, <1>2, <1>3, <1>4, <1>5, <1>6, <1>7, <1>8, <1>9, <1>10, <1>11, <1>12, <1>13, <1>14, <1>15
     DEF SearchNext, OwnerStep, WorkerStep

---------------------------------------------------------------------------
(* The breadth-first collection.                                           *)

LEMMA AppendNew ==
    ASSUME NEW S, NEW s \in Seq(S), NEW e \in S, IsInjective(s), e \notin ToSet(s)
    PROVE  IsInjective(Append(s, e)) /\ ToSet(Append(s, e)) = ToSet(s) \cup {e}
<1> DEFINE n == Len(s)
           r == Append(s, e)
<1>1. /\ n \in Nat /\ DOMAIN s = 1..n /\ DOMAIN r = 1..(n + 1)
      /\ r[n + 1] = e /\ \A i \in 1..n : r[i] = s[i]
  OBVIOUS
<1>2. \A i \in 1..(n + 1) : i = n + 1 \/ i \in 1..n
  BY <1>1
<1>3. n + 1 \in 1..(n + 1) /\ \A i \in 1..n : i \in 1..(n + 1)
  BY <1>1
<1>4. ToSet(s) = {s[i] : i \in 1..n} /\ ToSet(r) = {r[i] : i \in 1..(n + 1)}
  BY <1>1 DEF ToSet
<1>5. \A i, j \in 1..n : s[i] = s[j] => i = j
  BY <1>1 DEF IsInjective
<1> HIDE DEF n, r
<1>6. \A i, j \in 1..(n + 1) : r[i] = r[j] => i = j
  BY <1>1, <1>2, <1>4, <1>5
<1>7. ToSet(r) = ToSet(s) \cup {e}
  <2>1. ToSet(r) \subseteq ToSet(s) \cup {e}
    BY <1>1, <1>2, <1>4
  <2>2. ToSet(s) \cup {e} \subseteq ToSet(r)
    BY <1>1, <1>3, <1>4
  <2> QED
    BY <2>1, <2>2
<1> QED
  BY <1>1, <1>6, <1>7 DEF IsInjective, r

LEMMA TailOfInjective ==
    ASSUME NEW S, NEW s \in Seq(S), s # <<>>
    PROVE  /\ Head(s) \in S /\ Tail(s) \in Seq(S) /\ ToSet(s) = ToSet(Tail(s)) \cup {Head(s)}
           /\ IsInjective(s) => IsInjective(Tail(s)) /\ Head(s) \notin ToSet(Tail(s))
<1> DEFINE n == Len(s)
           r == Tail(s)
           h == Head(s)
<1>1. /\ n \in Nat \ {0} /\ DOMAIN s = 1..n /\ DOMAIN r = 1..(n - 1) /\ h = s[1]
      /\ \A i \in 1..(n - 1) : r[i] = s[i + 1]
      /\ h \in S /\ r \in Seq(S)
  OBVIOUS
<1>2. \A i \in 1..n : i = 1 \/ (i - 1 \in 1..(n - 1) /\ i = (i - 1) + 1)
  BY <1>1
<1>3. 1 \in 1..n /\ \A i \in 1..(n - 1) : i + 1 \in 1..n /\ i + 1 # 1
  BY <1>1
<1>4. ToSet(s) = {s[i] : i \in 1..n} /\ ToSet(r) = {r[i] : i \in 1..(n - 1)}
  BY <1>1 DEF ToSet
<1> HIDE DEF n, r, h
<1>5. ToSet(s) = ToSet(r) \cup {h}
  <2>1. ToSet(r) \cup {h} \subseteq ToSet(s)
    BY <1>1, <1>3, <1>4
  <2>2. ASSUME NEW i \in 1..n PROVE s[i] \in ToSet(r) \cup {h}
    <3>1. CASE i = 1
      BY <1>1, <3>1
    <3>2. CASE i # 1
      <4>1. i - 1 \in 1..(n - 1) /\ r[i - 1] = s[i]
        BY <1>1, <1>2, <3>2
      <4> QED
        BY <1>4, <4>1
    <3> QED
      BY <3>1, <3>2
  <2> QED
    BY <1>4, <2>1, <2>2
<1>6. ASSUME IsInjective(s) PROVE IsInjective(r) /\ h \notin ToSet(r)
  <2>1. \A i, j \in 1..n : s[i] = s[j] => i = j
    BY <1>1, <1>6 DEF IsInjective
  <2>2. ASSUME NEW i \in 1..(n - 1), NEW j \in 1..(n - 1), r[i] = r[j] PROVE i = j
    <3>1. i + 1 = j + 1
      BY <1>1, <1>3, <2>1, <2>2
    <3> QED
      BY <1>1, <3>1
  <2>3. \A i \in 1..(n - 1) : r[i] # h
    BY <1>1, <1>3, <2>1
  <2> QED
    BY <1>1, <1>4, <2>2, <2>3 DEF IsInjective
<1> QED
  BY <1>1, <1>5, <1>6 DEF r, h

(* A node goes into the queue when it is met first, and from the queue     *)
(* among the collected (HNSW.cpp:513-535).                                 *)
LEMMA CollectedStep ==
    SearchTypeOK /\ CollectedOnce /\ [SearchNext]_searchVars => CollectedOnce'
<1> SUFFICES ASSUME SearchTypeOK, CollectedOnce, [SearchNext]_searchVars PROVE CollectedOnce'
  OBVIOUS
<1>t. candidate_nodes \in Seq(g.node) /\ bfs_queue \in Seq(g.node) /\ unseen \in Seq(g.node) /\ cur \in g.node
  BY DEF SearchTypeOK
<1>u. ASSUME UNCHANGED bfs, pc' \in {"descend", "compare"} => pc \in {"descend", "compare"}
      PROVE  CollectedOnce'
  BY <1>u DEF CollectedOnce, bfs
<1>1. CASE DescendSerially \/ DescendInParallel \/ Collected \/ MergeBest \/ WaitForScores \/ Select \/ SelectEnd \/ Return
  <2>1. UNCHANGED bfs /\ (pc' \in {"descend", "compare"} => pc \in {"descend", "compare"})
    BY <1>1 DEF DescendSerially, DescendInParallel, Collected, MergeBest, WaitForScores, Select, Pop, SelectEnd, Return
  <2> QED
    BY <2>1, <1>u
<1>2. CASE StartCollecting
  <2>1. /\ candidate_nodes = <<>> /\ candidate_nodes' = <<>> /\ pc' = "collect"
        /\ bfs_queue' = <<cur>> /\ visited' = {cur}
    BY <1>2 DEF StartCollecting, CollectedOnce
  <2>2. DOMAIN candidate_nodes' = {} /\ DOMAIN bfs_queue' = {1} /\ bfs_queue'[1] = cur
    BY <2>1
  <2> QED
    BY <2>1, <2>2 DEF CollectedOnce, IsInjective, ToSet
<1>3. CASE CollectNode
  <2> DEFINE h == Head(bfs_queue)
  <2>1. /\ candidate_nodes' = Append(candidate_nodes, h) /\ bfs_queue' = Tail(bfs_queue)
        /\ visited' = visited /\ bfs_queue # <<>> /\ pc' = "collect"
    BY <1>3 DEF CollectNode
  <2>2. /\ h \in g.node /\ ToSet(bfs_queue) = ToSet(bfs_queue') \cup {h}
        /\ IsInjective(bfs_queue') /\ h \notin ToSet(bfs_queue')
    BY <1>t, <2>1, TailOfInjective DEF CollectedOnce
  <2>3. h \notin ToSet(candidate_nodes)
    BY <2>2 DEF CollectedOnce
  <2> HIDE DEF h
  <2>4. IsInjective(candidate_nodes') /\ ToSet(candidate_nodes') = ToSet(candidate_nodes) \cup {h}
    BY <1>t, <2>1, <2>2, <2>3, AppendNew DEF CollectedOnce
  <2> QED
    BY <2>1, <2>2, <2>4 DEF CollectedOnce
<1>4. CASE MeetNeighbor
  <2> DEFINE h == Head(unseen)
  <2>1. /\ UNCHANGED candidate_nodes /\ visited' = visited \cup {h} /\ unseen # <<>> /\ pc' = "collect"
        /\ bfs_queue' = IF h \in visited THEN bfs_queue ELSE Append(bfs_queue, h)
    BY <1>4 DEF MeetNeighbor
  <2>2. h \in g.node
    BY <1>t, <2>1, TailOfInjective
  <2> HIDE DEF h
  <2>3. CASE h \in visited
    BY <2>1, <2>3 DEF CollectedOnce
  <2>4. CASE h \notin visited
    <3>1. h \notin ToSet(bfs_queue) /\ h \notin ToSet(candidate_nodes)
      BY <2>4 DEF CollectedOnce
    <3>2. IsInjective(bfs_queue') /\ ToSet(bfs_queue') = ToSet(bfs_queue) \cup {h}
      BY <1>t, <2>1, <2>2, <2>4, <3>1, AppendNew DEF CollectedOnce
    <3> QED
      BY <2>1, <3>1, <3>2 DEF CollectedOnce
  <2> QED
    BY <2>3, <2>4
<1>5. CASE EnqueueTask \/ EmplaceTask \/ NotifyWorker \/ Destroy
  <2>1. UNCHANGED <<bfs, pc>>
    BY <1>5 DEF EnqueueTask, EmplaceTask, NotifyWorker, Destroy, search
  <2> QED
    BY <2>1, <1>u
<1>6. ASSUME NEW w \in Worker, WorkerStep(w) \/ WakeWorker(w) PROVE CollectedOnce'
  <2>1. UNCHANGED <<bfs, pc>>
    BY <1>6 DEF WorkerStep, WakeWorker, PoolLoop, FindLocalBest, Score, LockCandidates, ReadCandidates,
                PushCandidates, search
  <2> QED
    BY <2>1, <1>u
<1>7. CASE UNCHANGED searchVars
  <2>1. UNCHANGED <<bfs, pc>>
    BY <1>7 DEF searchVars, search
  <2> QED
    BY <2>1, <1>u
<1> QED
  BY <1>1, <1>2, <1>3, <1>4, <1>5, <1>6, <1>7 DEF SearchNext, OwnerStep

---------------------------------------------------------------------------
(* Types.                                                                  *)

DescentTypes ==
    /\ g \in Graphs
    /\ cur \in g.node /\ curLevel \in (-1)..(g.levels - 1)
    /\ future \in [0..(NUM_THREADS - 1) -> g.node \cup {0}]

ListTypes ==
    /\ pc \in {"descend", "compare", "collect", "score", "select", "pop", "destroy", "returned"}
    /\ candidate_nodes \in Seq(g.node) /\ bfs_queue \in Seq(g.node) /\ unseen \in Seq(g.node)
    /\ visited \subseteq g.node
    /\ Len(lambda) = submitted /\ round \in 0..submitted

TaskTypes ==
    /\ local \in [Worker -> Seq(g.node)] /\ DOMAIN seen = Worker
    /\ candidates \in [g.node -> Nat]
    /\ candidates_mutex \subseteq Worker
    /\ step \in [Worker -> {"start", "lock", "read", "push"}]

InScoring == \A w \in Worker : step[w] # "start" => worker[w] = "run" /\ Task(w).kind = "score"

ResultType == result \in Seq(g.node)

LEMMA TypeParts ==
    /\ SearchTypeOK <=> DescentTypes /\ ListTypes /\ TaskTypes /\ InScoring /\ ResultType
    /\ SearchTypeOK' <=> DescentTypes' /\ ListTypes' /\ TaskTypes' /\ InScoring' /\ ResultType'
<1>1. SearchTypeOK <=> DescentTypes /\ ListTypes /\ TaskTypes /\ InScoring /\ ResultType
  BY DEF SearchTypeOK, DescentTypes, ListTypes, TaskTypes, InScoring, ResultType
<1>2. SearchTypeOK' <=> DescentTypes' /\ ListTypes' /\ TaskTypes' /\ InScoring' /\ ResultType'
  BY DEF SearchTypeOK, DescentTypes, ListTypes, TaskTypes, InScoring, ResultType
<1> QED
  BY <1>1, <1>2

(* The neighbours of the node of the descent.                              *)
LEMMA NeighborsFacts ==
    ASSUME DescentTypes, curLevel >= 0
    PROVE  /\ neighbors \in Seq(g.node) /\ DOMAIN neighbors = 1..Len(neighbors) /\ Len(neighbors) \in Nat
           /\ g.sim[cur] \in Nat
           /\ \A t : BestOf(neighbors, Stride(t), 0) \in g.node \cup {0}
<1>1. curLevel \in 0..(g.levels - 1) /\ cur \in g.node /\ g \in Graphs
  <2>1. g.levels \in Nat
    BY IndexFacts DEF DescentTypes
  <2> DEFINE n == g.levels
  <2>2. n \in Nat /\ curLevel \in (-1)..(n - 1)
    BY <2>1 DEF DescentTypes
  <2> HIDE DEF n
  <2>3. curLevel \in 0..(n - 1)
    BY <2>2
  <2> QED
    BY <2>3 DEF DescentTypes, n
<1>2. neighbors \in Seq(g.node) /\ g.sim[cur] \in Nat
  BY <1>1, IndexFacts DEF neighbors
<1>3. DOMAIN neighbors = 1..Len(neighbors) /\ Len(neighbors) \in Nat
  BY <1>2
<1>4. ASSUME NEW t PROVE BestOf(neighbors, Stride(t), 0) \in g.node \cup {0}
  <2>1. Stride(t) \in SUBSET Nat /\ IsFiniteSet(Stride(t)) /\ Stride(t) \subseteq DOMAIN neighbors
    BY <1>3, StrideFacts
  <2>2. \A i \in Stride(t) : neighbors[i] \in g.node \cup {0}
    BY <1>2, <1>3, <2>1
  <2>3. 0 \in Nat
    OBVIOUS
  <2> QED
    BY <1>1, <2>1, <2>2, <2>3, BestOfFacts
<1> QED
  BY <1>2, <1>3, <1>4

(* The serial loop and the merge of the futures move the descent by the    *)
(* best of a list.                                                         *)
LEMMA MoveTypes ==
    ASSUME DescentTypes, curLevel >= 0, NEW best \in g.node \cup {0}, Move(best), g' = g
    PROVE  cur' \in g'.node /\ curLevel' \in (-1)..(g'.levels - 1)
<1> DEFINE n == g.levels
<1>1. n \in Nat \ {0} /\ curLevel \in (-1)..(n - 1) /\ cur \in g.node
  BY IndexFacts DEF DescentTypes
<1>2. curLevel' = curLevel \/ curLevel' = curLevel - 1
  BY DEF Move
<1>3. curLevel' \in (-1)..(n - 1)
  <2> HIDE DEF n
  <2> QED
    BY <1>1, <1>2
<1>4. cur' \in g.node
  BY <1>1 DEF Move
<1> QED
  BY <1>3, <1>4

(* When the loop finds none, none is above the floor.                      *)
LEMMA BestOfNone ==
    ASSUME g \in Graphs, NEW seq, NEW I \in SUBSET Nat, IsFiniteSet(I), NEW floor \in Nat,
           \A i \in I : seq[i] \in g.node \cup {0}
    PROVE  /\ BestOf(seq, I, floor) \in g.node \cup {0}
           /\ BestOf(seq, I, floor) = 0 => \A i \in I : seq[i] # 0 => g.sim[seq[i]] <= floor
<1> DEFINE best == BestOf(seq, I, floor)
<1>1. best = BestOf(seq, I, floor)
  OBVIOUS
<1> HIDE DEF best
<1>2. /\ best \in g.node \cup {0}
      /\ best = 0 => \A i \in I : seq[i] # 0 => g.sim[seq[i]] <= floor
  BY <1>1, BestOfFacts
<1> QED
  BY <1>2 DEF best

(* What the serial loop chooses.                                           *)
LEMMA SerialBest ==
    ASSUME DescentTypes, curLevel >= 0, NEW best, best = BestOf(neighbors, DOMAIN neighbors, g.sim[cur])
    PROVE  /\ best \in g.node \cup {0}
           /\ best = 0 => \A n \in ToSet(neighbors) : g.sim[n] <= g.sim[cur]
<1>1. /\ neighbors \in Seq(g.node) /\ DOMAIN neighbors = 1..Len(neighbors) /\ Len(neighbors) \in Nat
      /\ g.sim[cur] \in Nat
  BY NeighborsFacts
<1>2. DOMAIN neighbors \in SUBSET Nat /\ IsFiniteSet(DOMAIN neighbors)
  BY <1>1, FS_Interval
<1>3. \A i \in DOMAIN neighbors : neighbors[i] \in g.node \cup {0}
  BY <1>1
<1>4. g \in Graphs
  BY DEF DescentTypes
<1>5. /\ best \in g.node \cup {0}
      /\ best = 0 => \A i \in DOMAIN neighbors : neighbors[i] # 0 => g.sim[neighbors[i]] <= g.sim[cur]
  <2> DEFINE I == DOMAIN neighbors
             list == neighbors
             floor == g.sim[cur]
  <2>1. /\ g \in Graphs /\ I \in SUBSET Nat /\ IsFiniteSet(I) /\ floor \in Nat
        /\ \A i \in I : list[i] \in g.node \cup {0}
    BY <1>1, <1>2, <1>3, <1>4
  <2>2. best = BestOf(list, I, floor)
    OBVIOUS
  <2> HIDE DEF I, list, floor
  <2>3. /\ best \in g.node \cup {0}
        /\ best = 0 => \A i \in I : list[i] # 0 => g.sim[list[i]] <= floor
    BY <2>1, <2>2, BestOfNone
  <2> QED
    BY <2>3 DEF I, list, floor
<1>6. \A i \in DOMAIN neighbors : neighbors[i] # 0
  BY <1>1, <1>4, IndexFacts
<1> QED
  BY <1>5, <1>6 DEF ToSet

(* What the merge of the futures chooses: when all tasks are done and no   *)
(* future is better than the node, no neighbour is (HNSW.cpp:464-487).     *)
LEMMA MergedBest ==
    ASSUME PoolInv, SearchTypeOK, FuturesOK, pc = "compare", Ready,
           NEW bests, \A i \in 1..NUM_THREADS : bests[i] = future[i - 1],
           NEW best, best = BestOf(bests, 1..NUM_THREADS, g.sim[cur])
    PROVE  /\ best \in g.node \cup {0}
           /\ best = 0 => \A n \in ToSet(neighbors) : g.sim[n] <= g.sim[cur]
<1>1. curLevel >= 0 /\ \A t \in 0..(NUM_THREADS - 1) : future[t] = BestOf(neighbors, Stride(t), 0)
  BY AllDoneWhenReady DEF FuturesOK
<1>2. DescentTypes
  BY TypeParts
<1>3. /\ neighbors \in Seq(g.node) /\ DOMAIN neighbors = 1..Len(neighbors) /\ Len(neighbors) \in Nat
      /\ g.sim[cur] \in Nat
  BY <1>1, <1>2, NeighborsFacts
<1>4. NUM_THREADS \in Nat \ {0} /\ 1..NUM_THREADS \in SUBSET Nat /\ IsFiniteSet(1..NUM_THREADS)
  BY NumThreads, FS_Interval
<1>5. \A i \in 1..NUM_THREADS : i - 1 \in 0..(NUM_THREADS - 1) /\ bests[i] = future[i - 1]
  BY <1>4
<1>6. \A i \in 1..NUM_THREADS : bests[i] \in g.node \cup {0}
  BY <1>2, <1>5 DEF DescentTypes
<1>7. g \in Graphs
  BY <1>2 DEF DescentTypes
<1>8. /\ best \in g.node \cup {0}
      /\ best = 0 => \A i \in 1..NUM_THREADS : bests[i] # 0 => g.sim[bests[i]] <= g.sim[cur]
  <2> DEFINE I == 1..NUM_THREADS
             floor == g.sim[cur]
  <2>1. I \in SUBSET Nat /\ IsFiniteSet(I) /\ floor \in Nat /\ \A i \in I : bests[i] \in g.node \cup {0}
    BY <1>3, <1>4, <1>6
  <2>2. best = BestOf(bests, I, floor)
    OBVIOUS
  <2> HIDE DEF I, floor
  <2>3. /\ best \in g.node \cup {0}
        /\ best = 0 => \A i \in I : bests[i] # 0 => g.sim[bests[i]] <= floor
    BY <1>7, <2>1, <2>2, BestOfNone
  <2> QED
    BY <2>3 DEF I, floor
<1>9. ASSUME best = 0, NEW i \in DOMAIN neighbors PROVE g.sim[neighbors[i]] <= g.sim[cur]
  <2>1. PICK t \in 0..(NUM_THREADS - 1) : i \in Stride(t)
    BY <1>3, StrideFacts
  <2> DEFINE b == future[t]
             n == neighbors[i]
  <2>2. n \in g.node /\ n # 0 /\ g.sim[n] \in Nat
    BY <1>3, <1>7, <1>9, IndexFacts
  <2>3. /\ b \in g.node \cup {0}
        /\ b = 0 => g.sim[n] <= 0
        /\ b # 0 => g.sim[n] <= g.sim[b]
    <3>1. Stride(t) \in SUBSET Nat /\ IsFiniteSet(Stride(t)) /\ Stride(t) \subseteq DOMAIN neighbors
      BY <1>3, StrideFacts
    <3>2. \A j \in Stride(t) : neighbors[j] \in g.node \cup {0}
      BY <1>3, <3>1
    <3>3. b = BestOf(neighbors, Stride(t), 0) /\ 0 \in Nat
      BY <1>1
    <3> HIDE DEF b
    <3>4. /\ b \in g.node \cup {0}
          /\ b = 0 => \A j \in Stride(t) : neighbors[j] # 0 => g.sim[neighbors[j]] <= 0
          /\ b # 0 => \A j \in Stride(t) : neighbors[j] # 0 => g.sim[neighbors[j]] <= g.sim[b]
      BY <1>7, <3>1, <3>2, <3>3, BestOfFacts
    <3> QED
      BY <2>1, <2>2, <3>4
  <2>4. b # 0 => g.sim[b] <= g.sim[cur] /\ g.sim[b] \in Nat
    <3>1. t + 1 \in 1..NUM_THREADS /\ bests[t + 1] = b
      <4>1. t + 1 \in 1..NUM_THREADS /\ (t + 1) - 1 = t
        BY <1>4
      <4> QED
        BY <1>5, <4>1
    <3>2. b # 0 => g.sim[b] <= g.sim[cur]
      BY <1>8, <1>9, <3>1
    <3> QED
      BY <1>7, <2>3, <3>2, IndexFacts
  <2> DEFINE sn == g.sim[n]
             sb == g.sim[b]
             sc == g.sim[cur]
  <2>5. sn \in Nat /\ sc \in Nat
    BY <1>3, <2>2
  <2>6. (sn <= 0 \/ (sn <= sb /\ sb <= sc /\ sb \in Nat))
    BY <2>3, <2>4
  <2>7. sn <= sc
    <3> HIDE DEF sn, sb, sc
    <3> QED
      BY <2>5, <2>6
  <2> QED
    BY <2>7
<1> QED
  BY <1>8, <1>9 DEF ToSet

(* A task that runs goes on until it ends itself.                          *)
LEMMA WithinTask ==
    ASSUME PoolInv, SearchTypeOK, RoundOK, [SearchNext]_searchVars,
           NEW w \in Worker, worker[w] = "run"
    PROVE  \/ FindLocalBest(w) \/ PushCandidates(w)
           \/ worker'[w] = "run" /\ Task(w)' = Task(w)
<1>t. worker \in [Worker -> WorkerPlace] /\ current \in [Worker -> 0..submitted]
  BY DEF PoolInv, TypeOK
<1>l. /\ submitted \in Nat /\ current[w] \in 1..submitted /\ Len(lambda) = submitted
      /\ lambda \in Seq([kind : {"compare", "score"}, t : 0..(NUM_THREADS - 1)])
  BY PoolBoundsAssumption DEF PoolInv, TypeOK, SeenOK, SearchTypeOK, RoundOK
<1>u. ASSUME UNCHANGED lambda, worker'[w] = "run", current'[w] = current[w]
      PROVE  worker'[w] = "run" /\ Task(w)' = Task(w)
  BY <1>u DEF Task
<1>1. CASE DescendSerially \/ DescendInParallel \/ StartCollecting \/ CollectNode \/ MeetNeighbor \/ Collected
           \/ MergeBest \/ WaitForScores \/ Select \/ SelectEnd
  <2>1. UNCHANGED <<lambda, worker, current>>
    BY <1>1 DEF DescendSerially, DescendInParallel, StartCollecting, CollectNode, MeetNeighbor, Collected,
                MergeBest, WaitForScores, Select, Pop, SelectEnd, vars
  <2> QED
    BY <2>1, <1>u
<1>2. CASE EnqueueTask \/ Return
  <2>1. UNCHANGED <<lambda, worker, current>>
    BY <1>2 DEF EnqueueTask, EnqueueLock, Return, Join, search
  <2> QED
    BY <2>1, <1>u
<1>3. CASE EmplaceTask
  <2>1. UNCHANGED <<worker, current>> /\ \E e : lambda' = Append(lambda, e)
    BY <1>3 DEF EmplaceTask, Emplace
  <2>2. lambda'[current[w]] = lambda[current[w]]
    BY <1>l, <2>1
  <2> QED
    BY <2>1, <2>2 DEF Task
<1>4. CASE NotifyWorker \/ Destroy
  <2>1. UNCHANGED <<lambda, current>>
    BY <1>4 DEF NotifyWorker, NotifyOne, Destroy, StopLock, SetStop, NotifyAll, search
  <2>2. worker'[w] = worker[w]
    BY <1>4, <1>t DEF NotifyWorker, NotifyOne, notify_one, Waiting, Destroy, StopLock, SetStop, NotifyAll
  <2> QED
    BY <2>1, <2>2, <1>u
<1>5. ASSUME NEW v \in Worker, PoolLoop(v) \/ WakeWorker(v)
      PROVE  worker'[w] = "run" /\ Task(w)' = Task(w)
  <2>1. UNCHANGED lambda
    BY <1>5 DEF PoolLoop, WakeWorker, search
  <2>2. v # w
    BY <1>5 DEF PoolLoop, WakeWorker, Acquire, Refuse, Wait, Exit, Take, WakeSpuriously
  <2>3. worker'[w] = worker[w] /\ current'[w] = current[w]
    BY <1>5, <1>t, <2>2 DEF PoolLoop, WakeWorker, Acquire, Refuse, Wait, Exit, Take, WakeSpuriously
  <2> QED
    BY <2>1, <2>3, <1>u
<1>6. ASSUME NEW v \in Worker, v # w, FindLocalBest(v) \/ PushCandidates(v)
      PROVE  worker'[w] = "run" /\ Task(w)' = Task(w)
  <2>1. UNCHANGED lambda /\ Run(v)
    BY <1>6 DEF FindLocalBest, PushCandidates, search
  <2>2. worker'[w] = worker[w] /\ current'[w] = current[w]
    BY <1>6, <1>t, <2>1 DEF Run
  <2> QED
    BY <2>1, <2>2, <1>u
<1>7. ASSUME NEW v \in Worker, Score(v) \/ LockCandidates(v) \/ ReadCandidates(v)
      PROVE  worker'[w] = "run" /\ Task(w)' = Task(w)
  <2>1. UNCHANGED <<lambda, worker, current>>
    BY <1>7 DEF Score, LockCandidates, ReadCandidates, search, vars
  <2> QED
    BY <2>1, <1>u
<1>8. CASE UNCHANGED searchVars
  <2>1. UNCHANGED <<lambda, worker, current>>
    BY <1>8 DEF searchVars, search, vars
  <2> QED
    BY <2>1, <1>u
<1> QED
  BY <1>1, <1>2, <1>3, <1>4, <1>5, <1>6, <1>7, <1>8 DEF SearchNext, OwnerStep, WorkerStep

LEMMA InScoringStep ==
    PoolInv /\ SearchTypeOK /\ RoundOK /\ [SearchNext]_searchVars => InScoring'
<1> SUFFICES ASSUME PoolInv, SearchTypeOK, RoundOK, [SearchNext]_searchVars,
                    NEW w \in Worker, step'[w] # "start"
             PROVE  worker'[w] = "run" /\ Task(w)'.kind = "score"
  BY DEF InScoring
<1>t. step \in [Worker -> {"start", "lock", "read", "push"}]
  BY DEF SearchTypeOK
<1>1. CASE step[w] # "start"
  <2>1. worker[w] = "run" /\ Task(w).kind = "score"
    BY <1>1 DEF SearchTypeOK
  <2>2. ~FindLocalBest(w) /\ ~PushCandidates(w)
    BY <1>t, <2>1 DEF FindLocalBest, PushCandidates
  <2> QED
    BY <2>1, <2>2, WithinTask
<1>2. CASE step[w] = "start"
  <2>1. Score(w)
    <3>1. CASE OwnerStep \/ UNCHANGED searchVars
      <4>1. UNCHANGED step
        BY <3>1 DEF OwnerStep, DescendSerially, DescendInParallel, StartCollecting, CollectNode, MeetNeighbor,
             Collected, EnqueueTask, EmplaceTask, NotifyWorker, MergeBest, WaitForScores, Select, Pop, SelectEnd, Destroy, Return,
             task, searchVars
      <4> QED
        BY <1>2, <4>1
    <3>2. ASSUME NEW v \in Worker, WorkerStep(v) \/ WakeWorker(v) PROVE Score(w)
      <4>1. CASE PoolLoop(v) \/ WakeWorker(v) \/ FindLocalBest(v)
        <5>1. UNCHANGED step
          BY <4>1 DEF PoolLoop, WakeWorker, FindLocalBest, task
        <5> QED
          BY <1>2, <5>1
      <4>2. CASE Score(v)
        BY <1>2, <1>t, <4>2 DEF Score
      <4>3. CASE LockCandidates(v) \/ ReadCandidates(v) \/ PushCandidates(v)
        BY <1>2, <1>t, <4>3 DEF LockCandidates, ReadCandidates, PushCandidates
      <4> QED
        BY <3>2, <4>1, <4>2, <4>3 DEF WorkerStep
    <3> QED
      BY <3>1, <3>2 DEF SearchNext
  <2> QED
    BY <2>1 DEF Score, Task, vars, search
<1> QED
  BY <1>1, <1>2

LEMMA DescentTypesStep ==
    PoolInv /\ SearchTypeOK /\ RoundOK /\ FuturesOK /\ [SearchNext]_searchVars => DescentTypes'
<1> SUFFICES ASSUME PoolInv, SearchTypeOK, RoundOK, FuturesOK, [SearchNext]_searchVars
             PROVE  DescentTypes'
  OBVIOUS
<1>t. DescentTypes
  BY TypeParts
<1>o. NUM_THREADS' = NUM_THREADS
  BY DEF NUM_THREADS
<1>u. ASSUME UNCHANGED <<g, cur, curLevel, future>> PROVE DescentTypes'
  BY <1>u, <1>t, <1>o DEF DescentTypes
<1>1. CASE DescendSerially
  <2> DEFINE best == BestOf(neighbors, DOMAIN neighbors, g.sim[cur])
  <2>1. curLevel >= 0 /\ Move(best) /\ UNCHANGED <<g, future>>
    BY <1>1 DEF DescendSerially
  <2> HIDE DEF best
  <2>2. best \in g.node \cup {0}
    BY <1>t, <2>1, SerialBest DEF best
  <2>3. cur' \in g'.node /\ curLevel' \in (-1)..(g'.levels - 1)
    BY <1>t, <2>1, <2>2, MoveTypes
  <2> QED
    BY <1>t, <1>o, <2>1, <2>3 DEF DescentTypes
<1>2. CASE MergeBest
  <2> DEFINE bests == [i \in 1..NUM_THREADS |-> future[i - 1]]
             best == BestOf(bests, 1..NUM_THREADS, g.sim[cur])
  <2>1. pc = "compare" /\ Ready /\ Move(best) /\ UNCHANGED g /\ future' = [t \in DOMAIN future |-> 0]
    BY <1>2 DEF MergeBest
  <2>2. \A i \in 1..NUM_THREADS : bests[i] = future[i - 1]
    OBVIOUS
  <2> HIDE DEF bests
  <2>3. best \in g.node \cup {0}
    BY <2>1, <2>2, MergedBest
  <2>4. curLevel >= 0
    BY <2>1 DEF FuturesOK
  <2> HIDE DEF best
  <2>5. cur' \in g'.node /\ curLevel' \in (-1)..(g'.levels - 1)
    BY <1>t, <2>1, <2>3, <2>4, MoveTypes
  <2>6. future' \in [0..(NUM_THREADS - 1) -> g.node \cup {0}]
    BY <1>t, <2>1 DEF DescentTypes
  <2> QED
    BY <1>t, <1>o, <2>1, <2>5, <2>6 DEF DescentTypes
<1>3. CASE \/ DescendInParallel \/ StartCollecting \/ CollectNode \/ MeetNeighbor \/ Collected
           \/ WaitForScores \/ Select \/ SelectEnd
  <2>1. UNCHANGED <<g, cur, curLevel, future>>
    BY <1>3 DEF DescendInParallel, StartCollecting, CollectNode, MeetNeighbor, Collected, WaitForScores, Select, Pop, SelectEnd
  <2> QED
    BY <2>1, <1>u
<1>4. CASE EnqueueTask \/ EmplaceTask \/ NotifyWorker \/ Destroy \/ Return
  <2>1. UNCHANGED <<g, cur, curLevel, future>>
    BY <1>4 DEF EnqueueTask, EmplaceTask, NotifyWorker, Destroy, Return, search
  <2> QED
    BY <2>1, <1>u
<1>5. ASSUME NEW w \in Worker, FindLocalBest(w) PROVE DescentTypes'
  <2> DEFINE t == Task(w).t
             b == BestOf(neighbors, Stride(t), 0)
  <2>1. worker[w] = "run" /\ Task(w).kind = "compare" /\ UNCHANGED <<g, cur, curLevel>> /\ future' = [future EXCEPT ![t] = b]
    BY <1>5 DEF FindLocalBest
  <2>2. pc = "compare" /\ curLevel >= 0
    BY <2>1, RunningTask DEF FuturesOK
  <2>3. b \in g.node \cup {0}
    BY <1>t, <2>2, NeighborsFacts
  <2> HIDE DEF b, t
  <2>4. future' \in [0..(NUM_THREADS - 1) -> g.node \cup {0}]
    BY <1>t, <2>1, <2>3 DEF DescentTypes
  <2> QED
    BY <1>t, <1>o, <2>1, <2>4 DEF DescentTypes
<1>6. ASSUME NEW w \in Worker,
             \/ PoolLoop(w) \/ WakeWorker(w) \/ Score(w) \/ LockCandidates(w) \/ ReadCandidates(w) \/ PushCandidates(w)
      PROVE  DescentTypes'
  <2>1. UNCHANGED <<g, cur, curLevel, future>>
    BY <1>6 DEF PoolLoop, WakeWorker, Score, LockCandidates, ReadCandidates, PushCandidates, search
  <2> QED
    BY <2>1, <1>u
<1>7. CASE UNCHANGED searchVars
  <2>1. UNCHANGED <<g, cur, curLevel, future>>
    BY <1>7 DEF searchVars, search
  <2> QED
    BY <2>1, <1>u
<1> QED
  BY <1>1, <1>2, <1>3, <1>4, <1>5, <1>6, <1>7 DEF SearchNext, OwnerStep, WorkerStep

LEMMA ListTypesStep ==
    PoolInv /\ SearchTypeOK /\ RoundOK /\ [SearchNext]_searchVars => ListTypes'
<1> SUFFICES ASSUME PoolInv, SearchTypeOK, RoundOK, [SearchNext]_searchVars PROVE ListTypes'
  OBVIOUS
<1>t. ListTypes /\ DescentTypes
  BY TypeParts
<1>p. submitted \in Nat /\ lambda \in Seq([kind : {"compare", "score"}, t : 0..(NUM_THREADS - 1)])
  BY PoolBoundsAssumption DEF PoolInv, TypeOK, RoundOK
<1> DEFINE Place == {"descend", "compare", "collect", "score", "select", "pop", "destroy", "returned"}
<1>u. ASSUME UNCHANGED <<g, bfs, lambda, submitted>>, pc' \in Place, round' \in {round, submitted}
      PROVE  ListTypes'
  <2>1. round' \in 0..submitted'
    BY <1>u, <1>t, <1>p DEF ListTypes
  <2> QED
    BY <1>u, <1>t, <2>1 DEF ListTypes, bfs
<1>1. CASE DescendSerially \/ DescendInParallel \/ Collected \/ MergeBest \/ WaitForScores \/ Select \/ SelectEnd \/ Return
  <2>1. UNCHANGED <<g, bfs, lambda, submitted>> /\ pc' \in Place /\ round' \in {round, submitted}
    BY <1>1, <1>t DEF DescendSerially, DescendInParallel, Collected, MergeBest, WaitForScores, Select, Pop, SelectEnd, Return, Join,
                vars, ListTypes
  <2> HIDE DEF Place
  <2> QED
    BY <2>1, <1>u
<1>2. CASE StartCollecting
  <2>1. /\ bfs_queue' = <<cur>> /\ visited' = {cur} /\ pc' = "collect"
        /\ UNCHANGED <<g, candidate_nodes, unseen, lambda, round, submitted>>
    BY <1>2 DEF StartCollecting, vars
  <2>2. cur \in g.node
    BY <1>t DEF DescentTypes
  <2>3. bfs_queue' \in Seq(g'.node) /\ visited' \subseteq g'.node
    <3>1. \A S : \A e \in S : <<e>> \in Seq(S)
      OBVIOUS
    <3> QED
      BY <2>1, <2>2, <3>1
  <2> QED
    BY <2>1, <2>3, <1>t DEF ListTypes
<1>3. CASE CollectNode
  <2>1. /\ candidate_nodes' = Append(candidate_nodes, Head(bfs_queue)) /\ bfs_queue' = Tail(bfs_queue)
        /\ unseen' = g.neighbors[0][Head(bfs_queue)] /\ bfs_queue # <<>>
        /\ UNCHANGED <<g, pc, visited, lambda, round, submitted>>
    BY <1>3 DEF CollectNode, vars
  <2> DEFINE h == Head(bfs_queue)
  <2>2. h \in g.node /\ bfs_queue' \in Seq(g.node)
    BY <1>t, <2>1, TailOfInjective DEF ListTypes
  <2> HIDE DEF h
  <2>3. 0 \in 0..(g.levels - 1) /\ g.neighbors[0][h] \in Seq(g.node)
    <3>1. g \in Graphs
      BY <1>t DEF DescentTypes
    <3>2. 0 \in 0..(g.levels - 1)
      BY <3>1, IndexFacts
    <3> QED
      BY <2>2, <3>1, <3>2, IndexFacts
  <2>4. candidate_nodes' \in Seq(g.node) /\ unseen' \in Seq(g.node)
    BY <1>t, <2>1, <2>2, <2>3 DEF ListTypes, h
  <2> QED
    BY <1>t, <2>1, <2>2, <2>4 DEF ListTypes
<1>4. CASE MeetNeighbor
  <2>1. /\ bfs_queue' = (IF Head(unseen) \in visited THEN bfs_queue ELSE Append(bfs_queue, Head(unseen)))
        /\ visited' = visited \cup {Head(unseen)} /\ unseen' = Tail(unseen) /\ unseen # <<>>
        /\ UNCHANGED <<g, pc, candidate_nodes, lambda, round, submitted>>
    BY <1>4 DEF MeetNeighbor, vars
  <2> DEFINE h == Head(unseen)
  <2>2. h \in g.node /\ unseen' \in Seq(g.node)
    BY <1>t, <2>1, TailOfInjective DEF ListTypes
  <2>3. bfs_queue' \in Seq(g.node) /\ visited' \subseteq g.node
    <3> HIDE DEF h
    <3>1. bfs_queue' = bfs_queue \/ bfs_queue' = Append(bfs_queue, h)
      BY <2>1 DEF h
    <3>2. visited' = visited \cup {h}
      BY <2>1 DEF h
    <3>3. bfs_queue \in Seq(g.node) /\ visited \subseteq g.node
      BY <1>t DEF ListTypes
    <3>4. \A S : \A e \in S, s \in Seq(S) : Append(s, e) \in Seq(S)
      OBVIOUS
    <3>5. Append(bfs_queue, h) \in Seq(g.node)
      BY <2>2, <3>3, <3>4
    <3> QED
      BY <2>2, <3>1, <3>2, <3>3, <3>5
  <2> QED
    BY <1>t, <2>1, <2>2, <2>3 DEF ListTypes
<1>5. CASE EnqueueTask \/ NotifyWorker \/ Destroy
  <2>1. UNCHANGED <<g, bfs, lambda, submitted, pc, round>>
    BY <1>5 DEF EnqueueTask, EnqueueLock, NotifyWorker, NotifyOne, Destroy, StopLock, SetStop, NotifyAll, search
  <2>2. pc' \in Place /\ round' \in {round, submitted}
    BY <1>t, <2>1 DEF ListTypes
  <2> HIDE DEF Place
  <2> QED
    BY <2>1, <2>2, <1>u
<1>6. CASE EmplaceTask
  <2>1. /\ submitted' = submitted + 1 /\ UNCHANGED <<g, bfs, pc, round>>
        /\ \E e : lambda' = Append(lambda, e)
    BY <1>6 DEF EmplaceTask, Emplace
  <2>2. Len(lambda') = submitted'
    BY <1>t, <1>p, <2>1 DEF ListTypes
  <2>3. round' \in 0..submitted'
    BY <1>t, <1>p, <2>1 DEF ListTypes
  <2> QED
    BY <1>t, <2>1, <2>2, <2>3 DEF ListTypes, bfs
<1>7. ASSUME NEW w \in Worker, WorkerStep(w) \/ WakeWorker(w) PROVE ListTypes'
  <2>1. UNCHANGED <<g, bfs, lambda, submitted, pc, round>>
    BY <1>7 DEF WorkerStep, PoolLoop, WakeWorker, FindLocalBest, Score, LockCandidates, ReadCandidates, PushCandidates,
                Acquire, Refuse, Wait, Exit, Take, WakeSpuriously, Run, search, vars
  <2>2. pc' \in Place /\ round' \in {round, submitted}
    BY <1>t, <2>1 DEF ListTypes
  <2> HIDE DEF Place
  <2> QED
    BY <2>1, <2>2, <1>u
<1>8. CASE UNCHANGED searchVars
  <2>1. UNCHANGED <<g, bfs, lambda, submitted, pc, round>>
    BY <1>8 DEF searchVars, search, vars
  <2>2. pc' \in Place /\ round' \in {round, submitted}
    BY <1>t, <2>1 DEF ListTypes
  <2> HIDE DEF Place
  <2> QED
    BY <2>1, <2>2, <1>u
<1> QED
  BY <1>1, <1>2, <1>3, <1>4, <1>5, <1>6, <1>7, <1>8 DEF SearchNext, OwnerStep

(* The part of a task is a finite set of nodes.                            *)
LEMMA PartFacts ==
    ASSUME ListTypes, NEW t \in 0..(NUM_THREADS - 1)
    PROVE  PartOf(t) \subseteq g.node /\ PartOf(t) \subseteq ToSet(candidate_nodes) /\ IsFiniteSet(PartOf(t))
<1>1. candidate_nodes \in Seq(g.node)
  BY DEF ListTypes
<1>2. Partition(t) \subseteq 1..Len(candidate_nodes) /\ DOMAIN candidate_nodes = 1..Len(candidate_nodes)
  BY <1>1, PartitionFacts
<1>3. PartOf(t) \subseteq g.node /\ PartOf(t) \subseteq ToSet(candidate_nodes)
  BY <1>1, <1>2 DEF PartOf, ToSet
<1>4. IsFiniteSet(ToSet(candidate_nodes))
  <2> DEFINE n == Len(candidate_nodes)
             T == ToSet(candidate_nodes)
  <2>1. n \in Nat /\ candidate_nodes \in Surjection(1..n, T)
    BY <1>1, <1>2 DEF Surjection, ToSet
  <2>2. IsFiniteSet(1..n)
    BY <2>1, FS_Interval
  <2> HIDE DEF n, T
  <2>3. IsFiniteSet(T)
    BY <2>1, <2>2, FS_Surjection
  <2> QED
    BY <2>3 DEF T
<1> QED
  BY <1>3, <1>4, FS_Subset

LEMMA ScoreLists ==
    ASSUME PoolInv, SearchTypeOK, RoundOK, NEW w \in Worker, Score(w)
    PROVE  /\ local'[w] \in Seq(g.node) /\ IsInjective(local'[w]) /\ ToSet(local'[w]) = PartOf(Task(w).t)
           /\ local' = [local EXCEPT ![w] = local'[w]]
<1> DEFINE t == Task(w).t
           S == PartOf(t)
<1>1. t \in 0..(NUM_THREADS - 1)
  BY RunningTask DEF Score
<1>2. ListTypes /\ TaskTypes
  BY TypeParts
<1>3. S \subseteq g.node /\ IsFiniteSet(S)
  BY <1>1, <1>2, PartFacts
<1>4. local' = [local EXCEPT ![w] = SetToSeq(S)]
  BY DEF Score, PartOf
<1>5. local'[w] = SetToSeq(S)
  BY <1>2, <1>4 DEF TaskTypes
<1> HIDE DEF S
<1> DEFINE s == SetToSeq(S)
<1>6. /\ s \in Seq(S) /\ \A x \in S : \E i \in DOMAIN s : s[i] = x
      /\ \A i, j \in DOMAIN s : s[i] = s[j] => i = j
  BY <1>3, SetToSeqLists
<1> HIDE DEF s
<1>7. IsInjective(s) /\ ToSet(s) = S /\ s \in Seq(g.node)
  <2>1. \A i \in DOMAIN s : s[i] \in S
    BY <1>6
  <2>2. ToSet(s) = S
    BY <1>6, <2>1 DEF ToSet
  <2>3. Seq(S) \subseteq Seq(g.node)
    BY <1>3
  <2> QED
    BY <1>6, <2>2, <2>3 DEF IsInjective
<1> QED
  BY <1>4, <1>5, <1>7 DEF s, S

LEMMA TaskTypesStep ==
    PoolInv /\ SearchTypeOK /\ RoundOK /\ StepsOK /\ [SearchNext]_searchVars => TaskTypes'
<1> SUFFICES ASSUME PoolInv, SearchTypeOK, RoundOK, StepsOK, [SearchNext]_searchVars PROVE TaskTypes'
  OBVIOUS
<1>t. TaskTypes
  BY TypeParts
<1>u. ASSUME UNCHANGED <<g, task>> PROVE TaskTypes'
  BY <1>u, <1>t DEF TaskTypes, task
<1>1. CASE (OwnerStep /\ ~Select) \/ UNCHANGED searchVars
  <2>1. UNCHANGED <<g, task>>
    BY <1>1 DEF OwnerStep, DescendSerially, DescendInParallel, StartCollecting, CollectNode, MeetNeighbor, Collected,
         EnqueueTask, EmplaceTask, NotifyWorker, MergeBest, WaitForScores, SelectEnd, Destroy, Return, search, searchVars
  <2> QED
    BY <2>1, <1>u
<1>3. CASE Select
  <2>1. PICK n \in g.node : Pop(n)
    BY <1>3 DEF Select
  <2>2. /\ candidates[n] > 0 /\ candidates' = [candidates EXCEPT ![n] = @ - 1]
        /\ UNCHANGED <<g, local, seen, candidates_mutex, step>>
    BY <2>1 DEF Pop, Top, InHeap
  <2>3. candidates[n] - 1 \in Nat
    <3>1. candidates[n] \in Nat
      BY <1>t DEF TaskTypes
    <3> QED
      BY <2>2, <3>1
  <2>4. candidates' \in [g'.node -> Nat]
    BY <1>t, <2>2, <2>3 DEF TaskTypes
  <2> QED
    BY <1>t, <2>2, <2>4 DEF TaskTypes
<1>2. ASSUME NEW w \in Worker, WorkerStep(w) \/ WakeWorker(w) PROVE TaskTypes'
  <2>1. CASE PoolLoop(w) \/ WakeWorker(w) \/ FindLocalBest(w)
    <3>1. UNCHANGED <<g, task>>
      BY <2>1 DEF PoolLoop, WakeWorker, FindLocalBest, search
    <3> QED
      BY <3>1, <1>u
  <2>2. CASE Score(w)
    <3>1. local' \in [Worker -> Seq(g.node)]
      BY <1>t, <2>2, ScoreLists DEF TaskTypes
    <3>2. step' = [step EXCEPT ![w] = "lock"] /\ UNCHANGED <<g, seen, candidates, candidates_mutex>>
      BY <2>2 DEF Score, search
    <3> QED
      BY <1>t, <3>1, <3>2 DEF TaskTypes
  <2>3. CASE LockCandidates(w)
    <3>1. /\ step' = [step EXCEPT ![w] = "read"] /\ UNCHANGED <<g, local, seen, candidates>>
          /\ candidates_mutex' = {w}
      BY <2>3 DEF LockCandidates, search
    <3> QED
      BY <1>t, <3>1 DEF TaskTypes
  <2>4. CASE ReadCandidates(w)
    <3>1. /\ step' = [step EXCEPT ![w] = "push"] /\ UNCHANGED <<g, local, candidates, candidates_mutex>>
          /\ seen' = [seen EXCEPT ![w] = candidates]
      BY <2>4 DEF ReadCandidates, search
    <3> QED
      BY <1>t, <3>1 DEF TaskTypes
  <2>5. CASE PushCandidates(w)
    <3>1. /\ step[w] = "push" /\ step' = [step EXCEPT ![w] = "start"] /\ UNCHANGED g
          /\ local' = [local EXCEPT ![w] = <<>>] /\ seen' = [seen EXCEPT ![w] = <<>>]
          /\ candidates_mutex' = candidates_mutex \ {w}
          /\ candidates' = [n \in g.node |->
                 seen[w][n] + Cardinality({i \in DOMAIN local[w] : local[w][i] = n})]
      BY <2>5 DEF PushCandidates, search
    <3>2. seen[w] = candidates
      BY <3>1 DEF StepsOK
    <3>3. ASSUME NEW n \in g.node PROVE candidates'[n] \in Nat
      <4> DEFINE I == {i \in DOMAIN local[w] : local[w][i] = n}
      <4>1. IsFiniteSet(DOMAIN local[w]) /\ I \subseteq DOMAIN local[w]
        <5>1. local[w] \in Seq(g.node)
          BY <1>t DEF TaskTypes
        <5>2. DOMAIN local[w] = 1..Len(local[w]) /\ Len(local[w]) \in Nat
          BY <5>1
        <5> QED
          BY <5>2, FS_Interval
      <4> HIDE DEF I
      <4>2. Cardinality(I) \in Nat
        BY <4>1, FS_Subset, FS_CardinalityType
      <4>3. candidates'[n] = candidates[n] + Cardinality(I)
        BY <3>1, <3>2, <3>3 DEF I
      <4>4. candidates[n] \in Nat
        BY <1>t, <3>3 DEF TaskTypes
      <4> QED
        BY <4>2, <4>3, <4>4
    <3>4. local' \in [Worker -> Seq(g.node)]
      <4>1. <<>> \in Seq(g.node)
        OBVIOUS
      <4> QED
        BY <1>t, <3>1, <4>1 DEF TaskTypes
    <3>5. DOMAIN seen' = Worker /\ candidates_mutex' \subseteq Worker
      BY <1>t, <3>1 DEF TaskTypes
    <3>6. step' \in [Worker -> {"start", "lock", "read", "push"}]
      BY <1>t, <3>1 DEF TaskTypes
    <3>7. candidates' \in [g'.node -> Nat]
      BY <3>1, <3>3
    <3> QED
      BY <3>1, <3>4, <3>5, <3>6, <3>7 DEF TaskTypes
  <2> QED
    BY <1>2, <2>1, <2>2, <2>3, <2>4, <2>5 DEF WorkerStep
<1> QED
  BY <1>1, <1>2, <1>3 DEF SearchNext

---------------------------------------------------------------------------
(* The descent.                                                            *)

LEMMA BestOfStays ==
    ASSUME UNCHANGED <<g, cur, curLevel>>
    PROVE  \A t : BestOf(neighbors, Stride(t), 0)' = BestOf(neighbors, Stride(t), 0)
<1>1. neighbors' = neighbors
  BY DEF neighbors
<1>2. NUM_THREADS' = NUM_THREADS
  BY DEF NUM_THREADS
<1>3. \A t : Stride(t)' = Stride(t)
  BY <1>1, <1>2 DEF Stride
<1>4. \A s, I : BestOf(s, I, 0)' = BestOf(s, I, 0)
  BY DEF BestOf
<1> QED
  BY <1>1, <1>3, <1>4

(* A task of the descent stores the best of its share, and nobody else     *)
(* touches its future until all are merged (HNSW.cpp:464-487).             *)
LEMMA FuturesStep ==
    PoolInv /\ SearchTypeOK /\ RoundOK /\ FuturesOK /\ [SearchNext]_searchVars => FuturesOK'
<1> SUFFICES ASSUME PoolInv, SearchTypeOK, RoundOK, FuturesOK, [SearchNext]_searchVars PROVE FuturesOK'
  OBVIOUS
<1>u. ASSUME UNCHANGED <<g, pc, cur, curLevel, round, future, finished>> PROVE FuturesOK'
  <2>1. Done' = Done
    BY <1>u DEF Done
  <2>2. \A t : BestOf(neighbors, Stride(t), 0)' = BestOf(neighbors, Stride(t), 0)
    BY <1>u, BestOfStays
  <2> QED
    BY <1>u, <2>1, <2>2 DEF FuturesOK
<1>v. ASSUME pc' # "compare" PROVE FuturesOK'
  BY <1>v DEF FuturesOK
<1>1. CASE DescendSerially
  BY <1>1, <1>v DEF DescendSerially
<1>2. CASE DescendInParallel
  <2>1. curLevel' >= 0 /\ round' = submitted /\ finished' = finished
    BY <1>2 DEF DescendInParallel, vars
  <2>2. Done' = {}
    BY <2>1, NoneDoneAtFirst
  <2> QED
    BY <2>1, <2>2 DEF FuturesOK
<1>3. CASE StartCollecting \/ CollectNode \/ MeetNeighbor \/ Collected \/ MergeBest \/ WaitForScores \/ Select \/ SelectEnd \/ Return
  <2>1. pc' # "compare"
    BY <1>3 DEF StartCollecting, CollectNode, MeetNeighbor, Collected, MergeBest, WaitForScores, Select, Pop, SelectEnd, Return
  <2> QED
    BY <2>1, <1>v
<1>4. CASE EnqueueTask \/ EmplaceTask \/ NotifyWorker \/ Destroy
  <2>1. UNCHANGED <<g, pc, cur, curLevel, round, future, finished>>
    BY <1>4 DEF EnqueueTask, EmplaceTask, NotifyWorker, Destroy, EnqueueLock, Emplace, NotifyOne, StopLock, SetStop,
                NotifyAll, search
  <2> QED
    BY <2>1, <1>u
<1>5. ASSUME NEW w \in Worker, FindLocalBest(w) PROVE FuturesOK'
  <2>1. /\ worker[w] = "run" /\ Task(w).kind = "compare" /\ UNCHANGED <<g, pc, cur, curLevel, round>>
        /\ Run(w) /\ future' = [future EXCEPT ![Task(w).t] = BestOf(neighbors, Stride(Task(w).t), 0)]
    BY <1>5 DEF FindLocalBest
  <2>2. pc = "compare" /\ Task(w).t \in 0..(NUM_THREADS - 1) /\ Task(w).t \notin Done
    BY <2>1, RunningTask
  <2>3. Done' = Done \cup {Task(w).t}
    BY <2>1, OneMoreDone
  <2>4. \A t : BestOf(neighbors, Stride(t), 0)' = BestOf(neighbors, Stride(t), 0)
    BY <2>1, BestOfStays
  <2>5. curLevel' >= 0 /\ \A t \in Done : future[t] = BestOf(neighbors, Stride(t), 0)
    BY <2>1, <2>2 DEF FuturesOK
  <2>6. DOMAIN future = 0..(NUM_THREADS - 1)
    BY DEF SearchTypeOK
  <2> DEFINE u == Task(w).t
             F(t) == BestOf(neighbors, Stride(t), 0)
  <2>7. /\ future' = [future EXCEPT ![u] = F(u)] /\ u \in DOMAIN future /\ u \notin Done
        /\ Done' = Done \cup {u} /\ \A t \in Done : future[t] = F(t)
    BY <2>1, <2>2, <2>3, <2>5, <2>6
  <2> HIDE DEF u, F
  <2>8. ASSUME NEW t \in Done' PROVE future'[t] = F(t)
    <3>1. CASE t = u
      BY <2>7, <3>1
    <3>2. CASE t # u
      <4>1. t \in Done /\ future'[t] = future[t]
        BY <2>7, <2>8, <3>2
      <4> QED
        BY <2>7, <4>1
    <3> QED
      BY <3>1, <3>2
  <2>9. \A t \in Done' : future'[t] = BestOf(neighbors, Stride(t), 0)'
    BY <2>4, <2>8 DEF F
  <2> QED
    BY <2>5, <2>9 DEF FuturesOK
<1>6. ASSUME NEW w \in Worker, PushCandidates(w) PROVE FuturesOK'
  <2>1. step[w] = "push" /\ pc' = pc
    BY <1>6 DEF PushCandidates, search
  <2>2. worker[w] = "run" /\ Task(w).kind = "score"
    BY <2>1 DEF SearchTypeOK
  <2>3. pc = "score"
    BY <2>2, RunningTask
  <2> QED
    BY <2>1, <2>3, <1>v
<1>7. ASSUME NEW w \in Worker,
             PoolLoop(w) \/ WakeWorker(w) \/ Score(w) \/ LockCandidates(w) \/ ReadCandidates(w)
      PROVE  FuturesOK'
  <2>1. UNCHANGED <<g, pc, cur, curLevel, round, future, finished>>
    BY <1>7 DEF PoolLoop, WakeWorker, Score, LockCandidates, ReadCandidates, Acquire, Refuse, Wait, Exit, Take,
                WakeSpuriously, search, vars
  <2> QED
    BY <2>1, <1>u
<1>8. CASE UNCHANGED searchVars
  <2>1. UNCHANGED <<g, pc, cur, curLevel, round, future, finished>>
    BY <1>8 DEF searchVars, search, vars
  <2> QED
    BY <2>1, <1>u
<1> QED
  BY <1>1, <1>2, <1>3, <1>4, <1>5, <1>6, <1>7, <1>8 DEF SearchNext, OwnerStep, WorkerStep

(* The descent leaves a level when no neighbour is better.                 *)
LEMMA MoveEndsAtPeak ==
    ASSUME DescentTypes, curLevel >= 0, g' = g, NEW best \in g.node \cup {0}, Move(best),
           best = 0 => \A n \in ToSet(neighbors) : g.sim[n] <= g.sim[cur]
    PROVE  DescentEndsAtPeak'
<1> SUFFICES ASSUME curLevel' < 0 PROVE \A n \in ToSet(g'.neighbors[0][cur']) : g'.sim[n] <= g'.sim[cur']
  BY DEF DescentEndsAtPeak
<1> DEFINE m == g.levels
<1>1. m \in Nat /\ curLevel \in (-1)..(m - 1)
  BY IndexFacts DEF DescentTypes
<1> HIDE DEF m
<1>2. best = 0 /\ cur' = cur /\ curLevel' = curLevel - 1
  <2>1. ~(curLevel < 0)
    BY <1>1
  <2> QED
    BY <2>1 DEF Move
<1>3. curLevel = 0
  BY <1>1, <1>2
<1> QED
  BY <1>2, <1>3 DEF neighbors

LEMMA PeakStep ==
    PoolInv /\ SearchTypeOK /\ FuturesOK /\ DescentEndsAtPeak /\ [SearchNext]_searchVars => DescentEndsAtPeak'
<1> SUFFICES ASSUME PoolInv, SearchTypeOK, FuturesOK, DescentEndsAtPeak, [SearchNext]_searchVars
             PROVE  DescentEndsAtPeak'
  OBVIOUS
<1>t. DescentTypes
  BY TypeParts
<1>u. ASSUME UNCHANGED <<g, cur, curLevel>> PROVE DescentEndsAtPeak'
  BY <1>u DEF DescentEndsAtPeak
<1>1. CASE DescendSerially
  <2> DEFINE best == BestOf(neighbors, DOMAIN neighbors, g.sim[cur])
  <2>1. curLevel >= 0 /\ Move(best) /\ g' = g
    BY <1>1 DEF DescendSerially
  <2> HIDE DEF best
  <2>2. best \in g.node \cup {0} /\ (best = 0 => \A n \in ToSet(neighbors) : g.sim[n] <= g.sim[cur])
    BY <1>t, <2>1, SerialBest DEF best
  <2> QED
    BY <1>t, <2>1, <2>2, MoveEndsAtPeak
<1>2. CASE MergeBest
  <2> DEFINE bests == [i \in 1..NUM_THREADS |-> future[i - 1]]
             best == BestOf(bests, 1..NUM_THREADS, g.sim[cur])
  <2>1. pc = "compare" /\ Ready /\ Move(best) /\ g' = g
    BY <1>2 DEF MergeBest
  <2>2. \A i \in 1..NUM_THREADS : bests[i] = future[i - 1]
    OBVIOUS
  <2> HIDE DEF bests
  <2>3. best \in g.node \cup {0} /\ (best = 0 => \A n \in ToSet(neighbors) : g.sim[n] <= g.sim[cur])
    BY <2>1, <2>2, MergedBest
  <2>4. curLevel >= 0
    BY <2>1 DEF FuturesOK
  <2> HIDE DEF best
  <2> QED
    BY <1>t, <2>1, <2>3, <2>4, MoveEndsAtPeak
<1>3. CASE \/ DescendInParallel \/ StartCollecting \/ CollectNode \/ MeetNeighbor \/ Collected
           \/ WaitForScores \/ Select \/ SelectEnd
  <2>1. UNCHANGED <<g, cur, curLevel>>
    BY <1>3 DEF DescendInParallel, StartCollecting, CollectNode, MeetNeighbor, Collected, WaitForScores, Select, Pop, SelectEnd
  <2> QED
    BY <2>1, <1>u
<1>4. CASE EnqueueTask \/ EmplaceTask \/ NotifyWorker \/ Destroy \/ Return
  <2>1. UNCHANGED <<g, cur, curLevel>>
    BY <1>4 DEF EnqueueTask, EmplaceTask, NotifyWorker, Destroy, Return, search
  <2> QED
    BY <2>1, <1>u
<1>5. ASSUME NEW w \in Worker, WorkerStep(w) \/ WakeWorker(w) PROVE DescentEndsAtPeak'
  <2>1. UNCHANGED <<g, cur, curLevel>>
    BY <1>5 DEF WorkerStep, PoolLoop, WakeWorker, FindLocalBest, Score, LockCandidates, ReadCandidates, PushCandidates,
                search
  <2> QED
    BY <2>1, <1>u
<1>6. CASE UNCHANGED searchVars
  <2>1. UNCHANGED <<g, cur, curLevel>>
    BY <1>6 DEF searchVars, search
  <2> QED
    BY <2>1, <1>u
<1> QED
  BY <1>1, <1>2, <1>3, <1>4, <1>5, <1>6 DEF SearchNext, OwnerStep

---------------------------------------------------------------------------
(* The scores.                                                             *)

LEMMA PartOfStays ==
    ASSUME candidate_nodes' = candidate_nodes
    PROVE  \A t : PartOf(t)' = PartOf(t)
<1>1. NUM_THREADS' = NUM_THREADS
  BY DEF NUM_THREADS
<1>2. \A t : Partition(t)' = Partition(t)
  BY <1>1 DEF Partition
<1> QED
  BY <1>2 DEF PartOf

(* A worker that is past the start of a task is in the scoring block.      *)
LEMMA ScoringTask ==
    ASSUME PoolInv, SearchTypeOK, RoundOK, NEW w \in Worker, step[w] # "start"
    PROVE  /\ pc = "score" /\ worker[w] = "run" /\ ~FindLocalBest(w)
           /\ Task(w).t \in 0..(NUM_THREADS - 1) /\ Task(w).t \notin Done
<1>1. worker[w] = "run" /\ Task(w).kind = "score"
  BY DEF SearchTypeOK
<1> QED
  BY <1>1, RunningTask DEF FindLocalBest

(* The lists of the tasks stay their parts, and candidates_mutex keeps     *)
(* what a task has read from changing (HNSW.cpp:543-561).                  *)
LEMMA StepsStep ==
    PoolInv /\ SearchTypeOK /\ RoundOK /\ StepsOK /\ [SearchNext]_searchVars => StepsOK'
<1> SUFFICES ASSUME PoolInv, SearchTypeOK, RoundOK, StepsOK, [SearchNext]_searchVars PROVE StepsOK'
  OBVIOUS
<1>t. /\ step \in [Worker -> {"start", "lock", "read", "push"}] /\ candidates_mutex \subseteq Worker
      /\ local \in [Worker -> Seq(g.node)] /\ DOMAIN seen = Worker
  BY DEF SearchTypeOK
<1>w. ASSUME NEW w \in Worker, step[w] # "start", ~PushCandidates(w) PROVE Task(w)' = Task(w)
  BY <1>w, ScoringTask, WithinTask
<1>u. ASSUME UNCHANGED <<task, candidate_nodes>> PROVE StepsOK'
  <2>1. \A t : PartOf(t)' = PartOf(t)
    BY <1>u, PartOfStays
  <2>2. UNCHANGED <<local, seen, candidates, candidates_mutex, step>>
    BY <1>u DEF task
  <2>3. ASSUME NEW w \in Worker, step[w] # "start" PROVE Task(w)' = Task(w)
    <3>1. ~PushCandidates(w)
      BY <1>t, <2>2, <2>3 DEF PushCandidates
    <3> QED
      BY <1>w, <2>3, <3>1
  <2>4. ASSUME NEW w \in Worker, step'[w] # "start" PROVE ToSet(local'[w]) = PartOf(Task(w).t)'
    <3>1. PartOf(Task(w).t)' = PartOf(Task(w).t)
      BY <2>1, <2>2, <2>3, <2>4
    <3> QED
      BY <2>2, <2>4, <3>1 DEF StepsOK
  <2> QED
    BY <2>2, <2>4 DEF StepsOK
<1>1. CASE \/ DescendSerially \/ DescendInParallel \/ StartCollecting \/ MeetNeighbor \/ Collected
           \/ MergeBest \/ WaitForScores \/ SelectEnd \/ Return
  <2>1. UNCHANGED <<task, candidate_nodes>>
    BY <1>1 DEF DescendSerially, DescendInParallel, StartCollecting, MeetNeighbor, Collected, MergeBest,
                WaitForScores, SelectEnd, Return, bfs
  <2> QED
    BY <2>1, <1>u
<1>2. CASE CollectNode
  <2>1. pc = "collect" /\ UNCHANGED <<local, seen, candidates, candidates_mutex, step>>
    BY <1>2 DEF CollectNode, task
  <2>2. \A w \in Worker : step[w] = "start"
    BY <2>1, ScoringTask
  <2> QED
    BY <2>1, <2>2 DEF StepsOK
<1>11. CASE Select
  <2>1. pc # "score" /\ UNCHANGED <<local, seen, candidates_mutex, step>>
    BY <1>11 DEF Select, Pop
  <2>2. \A w \in Worker : step[w] = "start"
    BY <2>1, ScoringTask
  <2> QED
    BY <2>1, <2>2 DEF StepsOK
<1>3. CASE EnqueueTask \/ EmplaceTask \/ NotifyWorker \/ Destroy
  <2>1. UNCHANGED <<task, candidate_nodes>>
    BY <1>3 DEF EnqueueTask, EmplaceTask, NotifyWorker, Destroy, search, bfs
  <2> QED
    BY <2>1, <1>u
<1>4. CASE UNCHANGED searchVars
  <2>1. UNCHANGED <<task, candidate_nodes>>
    BY <1>4 DEF searchVars, search, bfs
  <2> QED
    BY <2>1, <1>u
<1>5. ASSUME NEW w \in Worker, PoolLoop(w) \/ WakeWorker(w) \/ FindLocalBest(w) PROVE StepsOK'
  <2>1. UNCHANGED <<task, candidate_nodes>>
    BY <1>5 DEF PoolLoop, WakeWorker, FindLocalBest, search, bfs
  <2> QED
    BY <2>1, <1>u
<1>6. ASSUME NEW w \in Worker, Score(w) \/ LockCandidates(w) \/ ReadCandidates(w) \/ PushCandidates(w),
             NEW v \in Worker, v # w, step'[v] # "start"
      PROVE  /\ local'[v] = local[v] /\ step'[v] = step[v] /\ seen'[v] = seen[v]
             /\ IsInjective(local'[v]) /\ ToSet(local'[v]) = PartOf(Task(v).t)'
  <2>1. /\ candidate_nodes' = candidate_nodes
        /\ local'[v] = local[v] /\ step'[v] = step[v] /\ seen'[v] = seen[v]
    BY <1>6, <1>t DEF Score, LockCandidates, ReadCandidates, PushCandidates, search, bfs
  <2>2. ~PushCandidates(v)
    BY <1>t, <1>6, <2>1 DEF PushCandidates
  <2>3. Task(v)' = Task(v)
    BY <1>6, <1>w, <2>1, <2>2
  <2>4. PartOf(Task(v).t)' = PartOf(Task(v).t)
    BY <2>1, <2>3, PartOfStays
  <2> QED
    BY <1>6, <2>1, <2>4 DEF StepsOK
<1>7. ASSUME NEW w \in Worker, Score(w) PROVE StepsOK'
  <2>1. /\ IsInjective(local'[w]) /\ ToSet(local'[w]) = PartOf(Task(w).t)
    BY <1>7, ScoreLists
  <2>2. UNCHANGED <<lambda, current, candidate_nodes, candidates, candidates_mutex>> /\ step' = [step EXCEPT ![w] = "lock"]
    BY <1>7 DEF Score, search, bfs, vars
  <2>3. Task(w)' = Task(w)
    BY <2>2 DEF Task
  <2>4. PartOf(Task(w).t)' = PartOf(Task(w).t)
    BY <2>2, <2>3, PartOfStays
  <2>5. step'[w] = "lock" /\ step[w] = "start"
    BY <1>7, <1>t, <2>2 DEF Score
  <2>6. ASSUME NEW v \in Worker, v # w
        PROVE  /\ step'[v] # "start" => IsInjective(local'[v]) /\ ToSet(local'[v]) = PartOf(Task(v).t)'
               /\ step'[v] = "push" => seen'[v] = candidates'
               /\ step'[v] \in {"read", "push"} <=> v \in candidates_mutex'
    <3>1. step'[v] = step[v]
      BY <1>t, <2>2, <2>6
    <3> QED
      BY <1>6, <1>7, <2>2, <2>6, <3>1 DEF StepsOK
  <2>7. \A v, u \in candidates_mutex' : v = u
    BY <2>2 DEF StepsOK
  <2>8. w \notin candidates_mutex'
    BY <2>2, <2>5 DEF StepsOK
  <2> QED
    BY <2>1, <2>4, <2>5, <2>6, <2>7, <2>8 DEF StepsOK
<1>8. ASSUME NEW w \in Worker, LockCandidates(w) PROVE StepsOK'
  <2>1. /\ step[w] = "lock" /\ candidates_mutex = {} /\ candidates_mutex' = {w}
        /\ step' = [step EXCEPT ![w] = "read"]
        /\ UNCHANGED <<lambda, current, candidate_nodes, local, seen, candidates>>
    BY <1>8 DEF LockCandidates, search, bfs, vars
  <2>2. PartOf(Task(w).t)' = PartOf(Task(w).t)
    <3>1. Task(w)' = Task(w)
      BY <2>1 DEF Task
    <3> QED
      BY <2>1, <3>1, PartOfStays
  <2>3. step'[w] = "read" /\ IsInjective(local'[w]) /\ ToSet(local'[w]) = PartOf(Task(w).t)'
    BY <1>t, <2>1, <2>2 DEF StepsOK
  <2>4. ASSUME NEW v \in Worker, v # w
        PROVE  /\ step'[v] # "start" => IsInjective(local'[v]) /\ ToSet(local'[v]) = PartOf(Task(v).t)'
               /\ step'[v] = "push" => seen'[v] = candidates'
               /\ step'[v] \in {"read", "push"} <=> v \in candidates_mutex'
    <3>1. step'[v] = step[v] /\ step[v] \notin {"read", "push"}
      BY <1>t, <2>1, <2>4 DEF StepsOK
    <3> QED
      BY <1>6, <1>8, <2>1, <2>4, <3>1
  <2> QED
    BY <2>1, <2>3, <2>4 DEF StepsOK
<1>9. ASSUME NEW w \in Worker, ReadCandidates(w) PROVE StepsOK'
  <2>1. /\ step[w] = "read" /\ seen' = [seen EXCEPT ![w] = candidates]
        /\ step' = [step EXCEPT ![w] = "push"]
        /\ UNCHANGED <<lambda, current, candidate_nodes, local, candidates, candidates_mutex>>
    BY <1>9 DEF ReadCandidates, search, bfs, vars
  <2>2. PartOf(Task(w).t)' = PartOf(Task(w).t)
    <3>1. Task(w)' = Task(w)
      BY <2>1 DEF Task
    <3> QED
      BY <2>1, <3>1, PartOfStays
  <2>3. /\ step'[w] = "push" /\ seen'[w] = candidates' /\ w \in candidates_mutex'
        /\ IsInjective(local'[w]) /\ ToSet(local'[w]) = PartOf(Task(w).t)'
    BY <1>t, <2>1, <2>2 DEF StepsOK
  <2>4. ASSUME NEW v \in Worker, v # w
        PROVE  /\ step'[v] # "start" => IsInjective(local'[v]) /\ ToSet(local'[v]) = PartOf(Task(v).t)'
               /\ step'[v] = "push" => seen'[v] = candidates'
               /\ step'[v] \in {"read", "push"} <=> v \in candidates_mutex'
    <3>1. step'[v] = step[v] /\ step[v] \notin {"read", "push"} /\ v \notin candidates_mutex'
      BY <1>t, <2>1, <2>4 DEF StepsOK
    <3> QED
      BY <1>6, <1>9, <2>4, <3>1
  <2>5. \A v, u \in candidates_mutex' : v = u
    BY <2>1 DEF StepsOK
  <2> QED
    BY <2>3, <2>4, <2>5 DEF StepsOK
<1>10. ASSUME NEW w \in Worker, PushCandidates(w) PROVE StepsOK'
  <2>1. /\ step[w] = "push" /\ step' = [step EXCEPT ![w] = "start"]
        /\ candidates_mutex' = candidates_mutex \ {w}
    BY <1>10 DEF PushCandidates
  <2>2. w \in candidates_mutex
    BY <2>1 DEF StepsOK
  <2>3. candidates_mutex' = {} /\ step'[w] = "start"
    BY <1>t, <2>1, <2>2 DEF StepsOK
  <2>4. ASSUME NEW v \in Worker, v # w
        PROVE  /\ step'[v] # "start" => IsInjective(local'[v]) /\ ToSet(local'[v]) = PartOf(Task(v).t)'
               /\ step'[v] \notin {"read", "push"}
    <3>1. step'[v] = step[v] /\ step[v] \notin {"read", "push"}
      BY <1>t, <2>1, <2>2, <2>4 DEF StepsOK
    <3> QED
      BY <1>6, <1>10, <2>4, <3>1
  <2> QED
    BY <2>3, <2>4 DEF StepsOK
<1> QED
  BY <1>1, <1>2, <1>3, <1>4, <1>5, <1>7, <1>8, <1>9, <1>10, <1>11 DEF SearchNext, OwnerStep, WorkerStep

LEMMA DoneRange ==
    ASSUME PoolInv, SearchTypeOK, RoundOK, InBlock
    PROVE  Done \subseteq 0..(NUM_THREADS - 1)
<1> SUFFICES ASSUME NEW k \in finished, k > round PROVE k - round - 1 \in 0..(NUM_THREADS - 1)
  BY DEF Done
<1>1. submitted \in Nat /\ round \in Nat /\ k \in 1..submitted
  BY PoolBoundsAssumption DEF PoolInv, TypeOK, SearchTypeOK
<1>2. submitted <= round + NUM_THREADS
  BY DEF RoundOK
<1> QED
  BY <1>1, <1>2, NumThreads

(* When all tasks are done, every collected node has been put in.          *)
LEMMA ScoredIsCollected ==
    ASSUME PoolInv, SearchTypeOK, RoundOK, InBlock, Ready
    PROVE  Scored = ToSet(candidate_nodes)
<1>1. ListTypes
  BY TypeParts
<1>2. candidate_nodes \in Seq(g.node) /\ DOMAIN candidate_nodes = 1..Len(candidate_nodes)
  BY <1>1 DEF ListTypes
<1>3. Scored \subseteq ToSet(candidate_nodes)
  BY <1>1, DoneRange, PartFacts DEF Scored
<1>4. ASSUME NEW i \in DOMAIN candidate_nodes PROVE candidate_nodes[i] \in Scored
  <2>1. PICK t \in 0..(NUM_THREADS - 1) : i \in Partition(t)
    BY <1>2, PartitionFacts
  <2>2. t \in Done
    BY AllDoneWhenReady
  <2> QED
    BY <2>1, <2>2 DEF Scored, PartOf
<1> QED
  BY <1>3, <1>4 DEF ToSet

(* The part of a task is disjoint from those of others.                    *)
LEMMA PartIsNew ==
    ASSUME PoolInv, SearchTypeOK, RoundOK, CollectedOnce, InBlock,
           NEW t \in 0..(NUM_THREADS - 1), t \notin Done
    PROVE  PartOf(t) \cap Scored = {}
<1> SUFFICES ASSUME NEW i \in Partition(t), NEW u \in Done, NEW j \in Partition(u),
                    candidate_nodes[i] = candidate_nodes[j]
             PROVE  FALSE
  BY DEF Scored, PartOf
<1>1. candidate_nodes \in Seq(g.node) /\ DOMAIN candidate_nodes = 1..Len(candidate_nodes)
  BY DEF SearchTypeOK
<1>2. u \in 0..(NUM_THREADS - 1)
  BY DoneRange
<1>3. i \in DOMAIN candidate_nodes /\ j \in DOMAIN candidate_nodes
  BY <1>1, <1>2, PartitionFacts
<1>4. i = j
  BY <1>3 DEF CollectedOnce, IsInjective
<1>5. t = u
  BY <1>1, <1>2, <1>4, PartitionFacts
<1> QED
  BY <1>5

(* What a task puts in: each node of its part once more.                   *)
LEMMA PushedOnce ==
    ASSUME PoolInv, SearchTypeOK, RoundOK, StepsOK, NEW w \in Worker, PushCandidates(w)
    PROVE  candidates' = [n \in g.node |-> candidates[n] + IF n \in PartOf(Task(w).t) THEN 1 ELSE 0]
<1> DEFINE I(n) == {i \in DOMAIN local[w] : local[w][i] = n}
<1>1. /\ step[w] = "push" /\ candidates' = [n \in g.node |-> seen[w][n] + Cardinality(I(n))]
  BY DEF PushCandidates
<1>2. seen[w] = candidates /\ IsInjective(local[w]) /\ ToSet(local[w]) = PartOf(Task(w).t)
  BY <1>1 DEF StepsOK
<1>3. ASSUME NEW n \in g.node
      PROVE  Cardinality(I(n)) = IF n \in PartOf(Task(w).t) THEN 1 ELSE 0
  <2>1. CASE n \in ToSet(local[w])
    <3>1. PICK i \in DOMAIN local[w] : local[w][i] = n
      BY <2>1 DEF ToSet
    <3>2. I(n) = {i}
      BY <1>2, <3>1 DEF IsInjective
    <3> HIDE DEF I
    <3>3. Cardinality(I(n)) = 1
      BY <3>2, FS_Singleton
    <3> QED
      BY <1>2, <2>1, <3>3
  <2>2. CASE n \notin ToSet(local[w])
    <3>1. I(n) = {}
      BY <2>2 DEF ToSet
    <3> HIDE DEF I
    <3>2. Cardinality(I(n)) = 0
      BY <3>1, FS_EmptySet
    <3> QED
      BY <1>2, <2>2, <3>2
  <2> QED
    BY <2>1, <2>2
<1> HIDE DEF I
<1> QED
  BY <1>1, <1>2, <1>3

(* The candidates are at every moment the parts of the tasks that are      *)
(* done, each node once (HNSW.cpp:541-567).                                *)
LEMMA CandidatesStep ==
    PoolInv /\ SearchTypeOK /\ RoundOK /\ CollectedOnce /\ StepsOK /\ CandidatesOK /\ [SearchNext]_searchVars
        => CandidatesOK'
<1> SUFFICES ASSUME PoolInv, SearchTypeOK, RoundOK, CollectedOnce, StepsOK, CandidatesOK, [SearchNext]_searchVars
             PROVE  CandidatesOK'
  OBVIOUS
<1>u. ASSUME UNCHANGED <<g, pc, candidates, candidate_nodes, round, finished>> PROVE CandidatesOK'
  <2>1. Done' = Done
    BY <1>u DEF Done
  <2>2. Scored' = Scored
    BY <1>u, <2>1, PartOfStays DEF Scored
  <2> QED
    BY <1>u, <2>2 DEF CandidatesOK, EachScoredOnce
<1> DEFINE Early == {"descend", "compare", "collect"}
<1>v. ASSUME pc \in Early, pc' \in Early, UNCHANGED <<g, candidates>> PROVE CandidatesOK'
  BY <1>v DEF CandidatesOK, EachScoredOnce
<1>1. CASE \/ DescendSerially \/ DescendInParallel \/ StartCollecting \/ CollectNode \/ MeetNeighbor \/ MergeBest
  <2>1. pc \in Early /\ pc' \in Early /\ UNCHANGED <<g, candidates>>
    BY <1>1 DEF DescendSerially, DescendInParallel, StartCollecting, CollectNode, MeetNeighbor, MergeBest, task
  <2> HIDE DEF Early
  <2> QED
    BY <2>1, <1>v
<1>2. CASE Collected
  <2>1. pc = "collect" /\ pc' = "score" /\ round' = submitted /\ UNCHANGED <<g, candidates, finished>>
    BY <1>2 DEF Collected, task, vars
  <2>2. Done' = {}
    BY <2>1, NoneDoneAtFirst
  <2>3. Scored' = {}
    BY <2>2 DEF Scored
  <2>4. candidates' = [n \in g.node |-> 0]
    BY <2>1 DEF CandidatesOK
  <2> QED
    BY <2>1, <2>3, <2>4 DEF CandidatesOK, EachScoredOnce
<1>3. CASE WaitForScores
  <2>1. pc = "score" /\ pc' = "select" /\ Ready /\ UNCHANGED <<g, candidates, candidate_nodes>>
    BY <1>3 DEF WaitForScores, task, bfs
  <2>2. Scored = ToSet(candidate_nodes)
    BY <2>1, ScoredIsCollected DEF InBlock
  <2>3. candidates = [n \in g.node |-> IF n \in Scored THEN 1 ELSE 0]
    BY <2>1 DEF CandidatesOK
  <2>4. \A n \in g.node : candidates[n] = IF n \in ToSet(candidate_nodes) THEN 1 ELSE 0
    BY <2>2, <2>3
  <2> QED
    BY <2>1, <2>4 DEF CandidatesOK, EachScoredOnce
<1>4. CASE Select \/ SelectEnd \/ Destroy \/ Return
  <2>1. pc' \in {"pop", "destroy", "returned"}
    BY <1>4 DEF Select, Pop, SelectEnd, Destroy, Return, search
  <2> QED
    BY <2>1 DEF CandidatesOK, EachScoredOnce
<1>5. CASE EnqueueTask \/ EmplaceTask \/ NotifyWorker
  <2>1. UNCHANGED <<g, pc, candidates, candidate_nodes, round, finished>>
    BY <1>5 DEF EnqueueTask, EmplaceTask, NotifyWorker, EnqueueLock, Emplace, NotifyOne, search, bfs, task
  <2> QED
    BY <2>1, <1>u
<1>6. CASE UNCHANGED searchVars
  <2>1. UNCHANGED <<g, pc, candidates, candidate_nodes, round, finished>>
    BY <1>6 DEF searchVars, search, bfs, task, vars
  <2> QED
    BY <2>1, <1>u
<1>7. ASSUME NEW w \in Worker,
             PoolLoop(w) \/ WakeWorker(w) \/ Score(w) \/ LockCandidates(w) \/ ReadCandidates(w)
      PROVE  CandidatesOK'
  <2>1. UNCHANGED <<g, pc, candidates, candidate_nodes, round, finished>>
    BY <1>7 DEF PoolLoop, WakeWorker, Score, LockCandidates, ReadCandidates, Acquire, Refuse, Wait, Exit, Take,
                WakeSpuriously, search, bfs, task, vars
  <2> QED
    BY <2>1, <1>u
<1>8. ASSUME NEW w \in Worker, FindLocalBest(w) PROVE CandidatesOK'
  <2>1. worker[w] = "run" /\ Task(w).kind = "compare" /\ UNCHANGED <<g, pc, candidates>>
    BY <1>8 DEF FindLocalBest, task
  <2>2. pc = "compare"
    BY <2>1, RunningTask
  <2> QED
    BY <2>1, <2>2, <1>v
<1>9. ASSUME NEW w \in Worker, PushCandidates(w) PROVE CandidatesOK'
  <2> DEFINE t == Task(w).t
             P == PartOf(t)
  <2>1. step[w] = "push" /\ Run(w) /\ UNCHANGED <<g, pc, candidate_nodes, round>>
    BY <1>9 DEF PushCandidates, search, bfs
  <2>2. pc = "score" /\ InBlock /\ t \in 0..(NUM_THREADS - 1) /\ t \notin Done
    BY <2>1, ScoringTask DEF InBlock
  <2>3. Done' = Done \cup {t}
    BY <2>1, OneMoreDone
  <2>4. Scored' = Scored \cup P
    <3> HIDE DEF t
    <3>1. \A u : PartOf(u)' = PartOf(u)
      BY <2>1, PartOfStays
    <3>2. Scored' = UNION {PartOf(u) : u \in Done'}
      BY <3>1 DEF Scored
    <3> QED
      BY <2>3, <3>2 DEF Scored
  <2>5. P \cap Scored = {}
    BY <2>2, PartIsNew
  <2>6. candidates = [n \in g.node |-> IF n \in Scored THEN 1 ELSE 0]
    BY <2>2 DEF CandidatesOK
  <2>7. candidates' = [n \in g.node |-> candidates[n] + IF n \in P THEN 1 ELSE 0]
    BY <1>9, PushedOnce
  <2> HIDE DEF t, P
  <2>8. ASSUME NEW n \in g.node
        PROVE  candidates[n] + (IF n \in P THEN 1 ELSE 0) = IF n \in Scored' THEN 1 ELSE 0
    BY <2>4, <2>5, <2>6, <2>8
  <2>9. candidates' = [n \in g.node |-> IF n \in Scored' THEN 1 ELSE 0]
    BY <2>7, <2>8
  <2> QED
    BY <2>1, <2>2, <2>9 DEF CandidatesOK, EachScoredOnce
<1> QED
  BY <1>1, <1>2, <1>3, <1>4, <1>5, <1>6, <1>7, <1>8, <1>9 DEF SearchNext, OwnerStep, WorkerStep

---------------------------------------------------------------------------
(* The result.                                                             *)

LEMMA ResultTypeStep ==
    SearchTypeOK /\ [SearchNext]_searchVars => ResultType'
<1> SUFFICES ASSUME SearchTypeOK, [SearchNext]_searchVars PROVE ResultType'
  OBVIOUS
<1>t. result \in Seq(g.node)
  BY TypeParts DEF ResultType
<1>1. CASE Select
  <2>1. PICK n \in g.node : g' = g /\ result' = (IF Live(n) THEN Append(result, n) ELSE result)
    BY <1>1 DEF Select, Pop
  <2>2. Append(result, n) \in Seq(g.node)
    BY <1>t, <2>1
  <2> QED
    BY <1>t, <2>1, <2>2 DEF ResultType
<1>2. CASE OwnerStep /\ ~Select
  <2>1. UNCHANGED <<g, result>>
    BY <1>2 DEF OwnerStep, DescendSerially, DescendInParallel, StartCollecting, CollectNode, MeetNeighbor, Collected,
         EnqueueTask, EmplaceTask, NotifyWorker, MergeBest, WaitForScores, SelectEnd, Destroy, Return, search
  <2> QED
    BY <1>t, <2>1 DEF ResultType
<1>3. ASSUME NEW w \in Worker, WorkerStep(w) \/ WakeWorker(w) PROVE ResultType'
  <2>1. UNCHANGED <<g, result>>
    BY <1>3 DEF WorkerStep, PoolLoop, WakeWorker, FindLocalBest, Score, LockCandidates, ReadCandidates,
                PushCandidates, search
  <2> QED
    BY <1>t, <2>1 DEF ResultType
<1>4. CASE UNCHANGED searchVars
  BY <1>4, <1>t DEF searchVars, search, ResultType
<1> QED
  BY <1>1, <1>2, <1>3, <1>4 DEF SearchNext

(* Above orders the nodes strictly.                                        *)
LEMMA AboveIsOrder ==
    ASSUME g \in Graphs, NEW m \in g.node, NEW n \in g.node
    PROVE  /\ ~Above(m, m) /\ (Above(m, n) => ~Above(n, m) /\ m # n)
           /\ \A k \in g.node : Above(m, n) /\ Above(n, k) => Above(m, k)
<1>1. m \in Nat /\ n \in Nat /\ g.sim[m] \in Nat /\ g.sim[n] \in Nat
  BY IndexFacts
<1>2. ASSUME NEW k \in g.node PROVE Above(m, n) /\ Above(n, k) => Above(m, k)
  <2>1. k \in Nat /\ g.sim[k] \in Nat
    BY IndexFacts
  <2> QED
    BY <1>1, <2>1 DEF Above
<1> QED
  BY <1>1, <1>2 DEF Above

(* The members of a sequence to which an element is appended.              *)
LEMMA AppendedMembers ==
    ASSUME NEW S, NEW s \in Seq(S), NEW e \in S
    PROVE  /\ ToSet(Append(s, e)) = ToSet(s) \cup {e}
           /\ DOMAIN Append(s, e) = DOMAIN s \cup {Len(s) + 1} /\ DOMAIN s = 1..Len(s) /\ Len(s) \in Nat
           /\ \A i \in DOMAIN s : Append(s, e)[i] = s[i]
           /\ Append(s, e)[Len(s) + 1] = e /\ Len(Append(s, e)) = Len(s) + 1
<1>1. /\ DOMAIN s = 1..Len(s) /\ Len(s) \in Nat /\ Len(Append(s, e)) = Len(s) + 1
      /\ DOMAIN Append(s, e) = 1..(Len(s) + 1)
      /\ \A i \in DOMAIN s : Append(s, e)[i] = s[i]
      /\ Append(s, e)[Len(s) + 1] = e
  OBVIOUS
<1> DEFINE n == Len(s)
           a == Append(s, e)
<1>2. 1..(n + 1) = 1..n \cup {n + 1}
  <2> HIDE DEF n
  <2>1. n \in Nat
    BY <1>1 DEF n
  <2> QED
    BY <2>1
<1>3. DOMAIN a = DOMAIN s \cup {n + 1}
  BY <1>1, <1>2
<1>4. /\ \A i \in DOMAIN s : a[i] = s[i]
      /\ a[n + 1] = e
  BY <1>1
<1> HIDE DEF a, n
<1>5. ToSet(a) = ToSet(s) \cup {e}
  BY <1>3, <1>4 DEF ToSet
<1> QED
  BY <1>1, <1>3, <1>5 DEF a, n

(* When the selection begins nothing has come out, and every node          *)
(* collected is in the heap once.                                          *)
LEMMA SelectionBegins ==
    ASSUME SearchTypeOK, CandidatesOK, PoppedOK, pc \in {"select", "pop"}
    PROVE  HeapAndResult
<1>1. CASE pc = "select"
  <2>1. result = <<>>
    BY <1>1 DEF PoppedOK
  <2>2. \A n \in g.node : candidates[n] = (IF n \in ToSet(candidate_nodes) THEN 1 ELSE 0)
    BY <1>1 DEF CandidatesOK, EachScoredOnce
  <2>3. ToSet(candidate_nodes) \subseteq g.node
    BY TypeParts DEF ListTypes, ToSet
  <2>4. DOMAIN result = {} /\ Len(result) = 0 /\ ToSet(result) = {}
    BY <2>1 DEF ToSet
  <2>5. InHeap = ToSet(candidate_nodes)
    BY <2>2, <2>3 DEF InHeap
  <2>6. 0 <= K
    BY SearchBoundsAssumption
  <2> QED
    BY <2>2, <2>3, <2>4, <2>5, <2>6 DEF HeapAndResult
<1>2. CASE pc = "pop"
  BY <1>2 DEF PoppedOK
<1> QED
  BY <1>1, <1>2

(* The top of the heap comes out.                                          *)
LEMMA TopComesOut ==
    ASSUME SearchTypeOK, HeapAndResult, Select
    PROVE  HeapAndResult'
<1> DEFINE C    == ToSet(candidate_nodes)
           live == {n \in C : Live(n)}
           H    == InHeap
           r    == result
           R    == ToSet(result)
<1>1. PICK n \in g.node : Pop(n) /\ result' = (IF Live(n) THEN Append(result, n) ELSE result)
  BY DEF Select
<1>2. /\ Len(r) < K /\ n \in H /\ \A m \in H : m = n \/ Above(n, m)
      /\ candidates' = [candidates EXCEPT ![n] = @ - 1] /\ UNCHANGED <<g, candidate_nodes>>
  BY <1>1 DEF Pop, Top, bfs
<1>3. C' = C /\ live' = live
  BY <1>2 DEF Live
<1>4. /\ H \subseteq C \ R /\ R \subseteq live /\ live \subseteq H \cup R /\ \A m \in H : candidates[m] = 1
      /\ \A i, j \in DOMAIN r : i < j => Above(r[i], r[j])
      /\ \A i \in DOMAIN r : \A m \in H : Above(r[i], m)
  BY DEF HeapAndResult
<1>5. InHeap' = H \ {n} /\ \A m \in InHeap' : candidates'[m] = 1
  <2>1. ASSUME NEW m \in g.node, m # n PROVE candidates'[m] = candidates[m]
    BY <1>2, <2>1
  <2>2. n \in DOMAIN candidates
    BY TypeParts DEF TaskTypes
  <2>3. candidates'[n] = 0
    BY <1>2, <1>4, <2>2
  <2> QED
    BY <1>2, <1>4, <2>1, <2>3 DEF InHeap
<1>6. r \in Seq(g.node)
  BY TypeParts DEF ResultType
<1>7. H \subseteq g.node /\ Len(r) \in Nat /\ DOMAIN r = 1..Len(r)
  BY <1>6 DEF InHeap
<1>q. ASSUME /\ InHeap' \subseteq C \ R' /\ R' \subseteq live /\ live \subseteq InHeap' \cup R'
             /\ \A i, j \in DOMAIN r' : i < j => Above(r'[i], r'[j])
             /\ \A i \in DOMAIN r' : \A m \in InHeap' : Above(r'[i], m)
             /\ Len(r') <= K
      PROVE  HeapAndResult'
  BY <1>q, <1>2, <1>3, <1>5 DEF HeapAndResult, Above
<1>8. CASE ~Live(n)
  <2>1. r' = r /\ R' = R /\ n \notin live
    BY <1>1, <1>8
  <2>2. live \subseteq InHeap' \cup R /\ InHeap' \subseteq C \ R
    BY <1>4, <1>5, <2>1
  <2>3. Len(r) <= K
    BY <1>2, <1>7, SearchBoundsAssumption
  <2> HIDE DEF C, live, H, r, R
  <2> QED
    BY <1>4, <1>5, <2>1, <2>2, <2>3, <1>q
<1>9. CASE Live(n)
  <2>1. r' = Append(r, n) /\ n \in live /\ n \in H
    BY <1>1, <1>2, <1>4, <1>9
  <2> DEFINE l == Len(r) + 1
  <2>2. /\ R' = R \cup {n} /\ DOMAIN r' = DOMAIN r \cup {l} /\ Len(r') = l
        /\ \A i \in DOMAIN r : r'[i] = r[i]
        /\ r'[l] = n
    BY <1>6, <2>1, AppendedMembers
  <2>3. l <= K
    BY <1>2, <1>7, SearchBoundsAssumption
  <2>4. \A i \in DOMAIN r' : ~(l < i)
    BY <1>7, <2>2
  <2>7. l \in Nat /\ ~(l < l)
    BY <1>7
  <2> HIDE DEF C, live, H, r, R, l
  <2>5. ASSUME NEW i \in DOMAIN r', NEW j \in DOMAIN r', i < j PROVE Above(r'[i], r'[j])
    <3>1. i \in DOMAIN r /\ r'[i] = r[i]
      BY <2>2, <2>4, <2>5, <2>7
    <3>2. CASE j \in DOMAIN r
      BY <1>4, <2>2, <2>5, <3>1, <3>2
    <3>3. CASE j = l
      BY <1>4, <2>1, <2>2, <3>1, <3>3
    <3> QED
      BY <2>2, <3>2, <3>3
  <2>6. ASSUME NEW i \in DOMAIN r', NEW m \in InHeap' PROVE Above(r'[i], m)
    <3>1. m \in H /\ m # n
      BY <1>5
    <3>2. CASE i \in DOMAIN r
      BY <1>4, <2>2, <3>1, <3>2
    <3>3. CASE i = l
      BY <1>2, <2>2, <3>1, <3>3
    <3> QED
      BY <2>2, <3>2, <3>3
  <2>8. /\ InHeap' \subseteq C \ R' /\ R' \subseteq live /\ live \subseteq InHeap' \cup R'
    BY <1>4, <1>5, <2>1, <2>2
  <2> QED
    BY <2>2, <2>3, <2>5, <2>6, <2>8, <1>q
<1> QED
  BY <1>8, <1>9

(* What has come out is the result when enough has or the heap is empty.   *)
LEMMA EnoughIsBest ==
    ASSUME SearchTypeOK, HeapAndResult, Len(result) >= K \/ InHeap = {}
    PROVE  LET live == {n \in ToSet(candidate_nodes) : n \notin g.deleted_nodes}
           IN  /\ ToSet(result) \subseteq live
               /\ Len(result) = (IF Cardinality(live) < K THEN Cardinality(live) ELSE K)
               /\ \A i, j \in DOMAIN result : i < j => Above(result[i], result[j])
               /\ \A n \in live \ ToSet(result) : \A i \in DOMAIN result : Above(result[i], n)
<1> DEFINE live == {n \in ToSet(candidate_nodes) : n \notin g.deleted_nodes}
           r    == result
           R    == ToSet(result)
           len  == Len(result)
<1>1. /\ R \subseteq live /\ live \subseteq InHeap \cup R /\ len <= K
      /\ \A i, j \in DOMAIN r : i < j => Above(r[i], r[j])
      /\ \A i \in DOMAIN r : \A n \in InHeap : Above(r[i], n)
  BY DEF HeapAndResult, Live
<1>2. r \in Seq(g.node) /\ candidate_nodes \in Seq(g.node) /\ g \in Graphs
  BY TypeParts DEF ResultType, ListTypes, DescentTypes
<1>3. len \in Nat /\ DOMAIN r = 1..len /\ \A i \in DOMAIN r : r[i] \in R /\ r[i] \in g.node
  BY <1>2 DEF ToSet
<1>4. ASSUME NEW i \in DOMAIN r, NEW j \in DOMAIN r, i # j PROVE r[i] # r[j]
  <2>1. i < j \/ j < i
    BY <1>3, <1>4
  <2>2. Above(r[i], r[j]) \/ Above(r[j], r[i])
    BY <1>1, <2>1
  <2>3. ~Above(r[i], r[i])
    BY <1>2, <1>3, AboveIsOrder
  <2> QED
    BY <2>2, <2>3
<1>5. IsFiniteSet(1..len) /\ Cardinality(1..len) = len
  BY <1>3, FS_Interval
<1>6. IsFiniteSet(R) /\ Cardinality(R) = len
  <2>1. r \in [1..len -> R]
    BY <1>2, <1>3
  <2>2. \A y \in R : \E i \in 1..len : r[i] = y
    BY <1>3 DEF ToSet
  <2>5. \A i, j \in 1..len : r[i] = r[j] => i = j
    BY <1>3, <1>4
  <2> HIDE DEF r, R, len
  <2>6. r \in Injection(1..len, R)
    BY <2>1, <2>5 DEF Injection, IsInjective
  <2>7. r \in Surjection(1..len, R)
    BY <2>1, <2>2 DEF Surjection
  <2>3. r \in Bijection(1..len, R)
    BY <2>6, <2>7 DEF Bijection
  <2>4. ExistsBijection(1..len, R)
    BY <2>3 DEF ExistsBijection
  <2> QED
    BY <1>5, <2>4, FS_Bijection
<1>7. IsFiniteSet(live)
  <2> DEFINE l == Len(candidate_nodes)
  <2>1. l \in Nat /\ DOMAIN candidate_nodes = 1..l
    BY <1>2
  <2>2. IsFiniteSet(1..l)
    BY <2>1, FS_Interval
  <2>3. candidate_nodes \in Surjection(1..l, ToSet(candidate_nodes))
    BY <1>2, <2>1 DEF Surjection, ToSet
  <2>4. IsFiniteSet(ToSet(candidate_nodes))
    BY <2>2, <2>3, FS_Surjection
  <2> QED
    BY <2>4, FS_Subset
<1>8. Cardinality(live) \in Nat /\ len <= Cardinality(live)
  <2> HIDE DEF live, R, len
  <2> QED
    BY <1>1, <1>6, <1>7, FS_CardinalityType, FS_Subset
<1>9. len = (IF Cardinality(live) < K THEN Cardinality(live) ELSE K)
  <2>1. CASE len >= K
    <3> DEFINE c == Cardinality(live)
    <3> HIDE DEF c, len
    <3> QED
      BY <1>1, <1>3, <1>8, <2>1, SearchBoundsAssumption DEF c
  <2>2. CASE InHeap = {}
    <3>1. live = R
      BY <1>1, <2>2
    <3>2. Cardinality(live) = len
      BY <1>6, <3>1
    <3> HIDE DEF len, live
    <3> QED
      BY <1>1, <1>3, <3>2, SearchBoundsAssumption
  <2> QED
    BY <2>1, <2>2
<1>10. \A n \in live \ R : \A i \in DOMAIN r : Above(r[i], n)
  BY <1>1
<1> QED
  BY <1>1, <1>9, <1>10

(* The steps that leave the result, the heap and what is in it alone.      *)
LEMMA PoppedStays ==
    ASSUME PoppedOK, ResultIsBest, UNCHANGED <<g, candidate_nodes, candidates, result>>,
           pc' = pc \/ {pc, pc'} \cap {"pop", "destroy", "returned"} = {}
    PROVE  PoppedOK' /\ ResultIsBest'
<1>1. (HeapAndResult' <=> HeapAndResult) /\ \A x, y : Above(x, y)' = Above(x, y)
  BY DEF HeapAndResult, InHeap, Live, Above
<1>2. CASE pc' = pc
  <2>1. PoppedOK'
    BY <1>1, <1>2 DEF PoppedOK
  <2>2. ResultIsBest'
    BY <1>1, <1>2 DEF ResultIsBest
  <2> QED
    BY <2>1, <2>2
<1>3. CASE {pc, pc'} \cap {"pop", "destroy", "returned"} = {}
  <2>1. pc \notin {"pop", "destroy", "returned"} /\ pc' \notin {"pop", "destroy", "returned"}
    BY <1>3
  <2> QED
    BY <2>1 DEF PoppedOK, ResultIsBest
<1> QED
  BY <1>2, <1>3

LEMMA ResultStep ==
    PoolInv /\ SearchTypeOK /\ RoundOK /\ CandidatesOK /\ PoppedOK /\ ResultIsBest /\ [SearchNext]_searchVars
        => PoppedOK' /\ ResultIsBest'
<1> SUFFICES ASSUME PoolInv, SearchTypeOK, RoundOK, CandidatesOK, PoppedOK, ResultIsBest, [SearchNext]_searchVars
             PROVE  PoppedOK' /\ ResultIsBest'
  OBVIOUS
<1>1. CASE Select
  <2>1. pc \in {"select", "pop"} /\ pc' = "pop"
    BY <1>1 DEF Select, Pop
  <2>2. HeapAndResult'
    BY <1>1, <2>1, SelectionBegins, TopComesOut
  <2> QED
    BY <2>1, <2>2 DEF PoppedOK, ResultIsBest
<1>2. CASE SelectEnd
  <2>1. /\ pc \in {"select", "pop"} /\ (Len(result) >= K \/ InHeap = {}) /\ pc' = "destroy"
        /\ UNCHANGED <<g, candidate_nodes, result>>
    BY <1>2 DEF SelectEnd, bfs
  <2>2. \A x, y : Above(x, y)' = Above(x, y)
    BY <2>1 DEF Above
  <2>3. ResultIsBest'
    BY <2>1, <2>2, SelectionBegins, EnoughIsBest DEF ResultIsBest
  <2> QED
    BY <2>1, <2>3 DEF PoppedOK
<1>3. CASE Return
  <2>1. /\ pc = "destroy" /\ pc' = "returned" /\ UNCHANGED <<g, candidate_nodes, result>>
    BY <1>3 DEF Return, bfs
  <2>2. \A x, y : Above(x, y)' = Above(x, y)
    BY <2>1 DEF Above
  <2> QED
    BY <2>1, <2>2 DEF PoppedOK, ResultIsBest
<1>4. CASE \/ DescendSerially \/ DescendInParallel \/ StartCollecting \/ CollectNode \/ MeetNeighbor \/ Collected
           \/ MergeBest \/ WaitForScores
  <2>1. /\ pc \notin {"pop", "destroy", "returned"} /\ pc' \notin {"pop", "destroy", "returned"} /\ result' = result
    BY <1>4 DEF DescendSerially, DescendInParallel, StartCollecting, CollectNode, MeetNeighbor, Collected,
                MergeBest, WaitForScores
  <2> QED
    BY <2>1 DEF PoppedOK, ResultIsBest
<1>5. CASE EnqueueTask \/ EmplaceTask \/ NotifyWorker \/ Destroy \/ UNCHANGED searchVars
  <2>1. UNCHANGED <<g, candidate_nodes, candidates, result, pc>>
    BY <1>5 DEF EnqueueTask, EmplaceTask, NotifyWorker, Destroy, searchVars, search, bfs, task
  <2> QED
    BY <2>1, PoppedStays
<1>6. ASSUME NEW w \in Worker, WorkerStep(w) \/ WakeWorker(w) PROVE PoppedOK' /\ ResultIsBest'
  <2>1. CASE PushCandidates(w)
    <3>1. step[w] = "push" /\ UNCHANGED <<pc, result>>
      BY <2>1 DEF PushCandidates, search
    <3>2. pc = "score"
      BY <3>1, ScoringTask
    <3> QED
      BY <3>1, <3>2 DEF PoppedOK, ResultIsBest
  <2>2. CASE ~PushCandidates(w)
    <3>1. UNCHANGED <<g, candidate_nodes, candidates, result, pc>>
      BY <1>6, <2>2 DEF WorkerStep, PoolLoop, WakeWorker, FindLocalBest, Score, LockCandidates, ReadCandidates,
                        search, bfs, task
    <3> QED
      BY <3>1, PoppedStays
  <2> QED
    BY <2>1, <2>2
<1> QED
  BY <1>1, <1>2, <1>3, <1>4, <1>5, <1>6 DEF SearchNext, OwnerStep

---------------------------------------------------------------------------
(* The theorems.                                                           *)

LEMMA SearchInvStep == SearchInv /\ [SearchNext]_searchVars => SearchInv'
<1> SUFFICES ASSUME SearchInv, [SearchNext]_searchVars PROVE SearchInv'
  OBVIOUS
<1>1. PoolInv'
  BY StepsOfPool, PoolInvStep DEF SearchInv
<1>2. DescentTypes' /\ ListTypes' /\ TaskTypes' /\ InScoring' /\ ResultType'
  BY DescentTypesStep, ListTypesStep, TaskTypesStep, InScoringStep, ResultTypeStep DEF SearchInv
<1>3. SearchTypeOK'
  BY <1>2, TypeParts
<1>4. RoundOK'
  BY <1>1, RoundStep DEF SearchInv
<1>5. CollectedOnce' /\ FuturesOK' /\ StepsOK' /\ CandidatesOK' /\ DescentEndsAtPeak' /\ PoppedOK' /\ ResultIsBest'
  BY ResultStep, CollectedStep, FuturesStep, StepsStep, CandidatesStep, PeakStep DEF SearchInv
<1> QED
  BY <1>1, <1>3, <1>4, <1>5 DEF SearchInv

LEMMA SearchInvInit == SearchInit => SearchInv
<1> SUFFICES ASSUME SearchInit PROVE SearchInv
  OBVIOUS
<1>1. PoolInv
  BY InitPoolInv DEF SearchInit
<1>2. g \in Graphs /\ submitted = 0 /\ finished = {} /\ owner = "idle"
  BY DEF SearchInit, Init
<1>3. DescentTypes
  <2>1. g.levels \in Nat \ {0} /\ curLevel = g.levels - 1
    BY <1>2, IndexFacts DEF SearchInit
  <2> DEFINE m == g.levels
  <2>2. m - 1 \in (-1)..(m - 1)
    <3> HIDE DEF m
    <3> QED
      BY <2>1 DEF m
  <2>3. cur \in g.node
    BY <1>2, IndexFacts DEF SearchInit
  <2> QED
    BY <1>2, <2>1, <2>2, <2>3 DEF DescentTypes, SearchInit
<1>4. ListTypes
  <2>1. \A S : <<>> \in Seq(S)
    OBVIOUS
  <2>2. candidate_nodes \in Seq(g.node) /\ bfs_queue \in Seq(g.node) /\ unseen \in Seq(g.node)
    BY <2>1 DEF SearchInit
  <2>3. Len(lambda) = submitted /\ round \in 0..submitted
    BY <1>2 DEF SearchInit
  <2> QED
    BY <2>2, <2>3 DEF ListTypes, SearchInit
<1>5. TaskTypes
  <2>1. \A S : <<>> \in Seq(S)
    OBVIOUS
  <2> QED
    BY <2>1 DEF TaskTypes, SearchInit
<1>6. InScoring
  BY DEF InScoring, SearchInit
<1>12. ResultType
  <2>1. \A S : <<>> \in Seq(S)
    OBVIOUS
  <2> QED
    BY <2>1 DEF ResultType, SearchInit
<1>13. PoppedOK /\ ResultIsBest
  BY DEF PoppedOK, ResultIsBest, SearchInit
<1>7. SearchTypeOK
  BY <1>3, <1>4, <1>5, <1>6, <1>12, TypeParts
<1>8. RoundOK
  <2>1. pc = "descend" /\ lambda = <<>>
    BY DEF SearchInit
  <2>2. 1..submitted = {}
    BY <1>2
  <2> QED
    BY <1>2, <2>1, <2>2 DEF RoundOK, InBlock
<1>9. CollectedOnce
  <2>1. candidate_nodes = <<>> /\ bfs_queue = <<>> /\ DOMAIN <<>> = {}
    BY DEF SearchInit
  <2> QED
    BY <2>1 DEF CollectedOnce, IsInjective, ToSet
<1>10. FuturesOK /\ StepsOK /\ CandidatesOK
  BY DEF SearchInit, FuturesOK, StepsOK, CandidatesOK, EachScoredOnce
<1>11. DescentEndsAtPeak
  <2> DEFINE m == g.levels
  <2>1. m \in Nat \ {0} /\ curLevel = m - 1
    BY <1>2, IndexFacts DEF SearchInit
  <2> HIDE DEF m
  <2>2. ~(curLevel < 0)
    BY <2>1
  <2> QED
    BY <2>2 DEF DescentEndsAtPeak
<1> QED
  BY <1>1, <1>7, <1>8, <1>9, <1>10, <1>11, <1>13 DEF SearchInv

(* The inductive invariant of the search holds always.                     *)
THEOREM SearchInvHolds == SearchSpec => []SearchInv
<1>1. SearchInit => SearchInv
  BY SearchInvInit
<1>2. SearchInv /\ [SearchNext]_searchVars => SearchInv'
  BY SearchInvStep
<1> QED
  BY <1>1, <1>2, PTL DEF SearchSpec

(* The variables of the search keep their types, and a worker is within a  *)
(* scoring task only while it runs one.                                    *)
THEOREM SearchTyped == SearchSpec => []SearchTypeOK
<1>1. SearchInv => SearchTypeOK
  BY DEF SearchInv
<1> QED
  BY <1>1, SearchInvHolds, PTL

(* No task is queued or running when the search has left the block whose   *)
(* variables it refers to, whatever the order of the tasks                 *)
(* (HNSW.cpp:464, 484, 542, 565).                                          *)
THEOREM TasksNeverDangle == SearchSpec => []NothingDangles
<1>1. SearchInv => NothingDangles
  <2> SUFFICES ASSUME SearchInv, NEW k \in 1..submitted, k \notin finished
               PROVE  pc = lambda[k].kind /\ k > round
    BY DEF NothingDangles
  <2>1. submitted \in Nat /\ round \in 0..submitted
    BY PoolBoundsAssumption DEF SearchInv, PoolInv, TypeOK, SearchTypeOK
  <2>2. InBlock /\ ~(k \in 1..round)
    BY DEF SearchInv, RoundOK
  <2>3. k > round /\ k \in (round + 1)..submitted
    BY <2>1, <2>2
  <2>4. lambda[k] = [kind |-> pc, t |-> k - round - 1]
    BY <2>2, <2>3 DEF SearchInv, RoundOK
  <2> QED
    BY <2>3, <2>4
<1> QED
  BY <1>1, SearchInvHolds, PTL

(* Each collected node is once among the candidates when the search        *)
(* selects: none is lost to another worker's update, none is scored twice  *)
(* (HNSW.cpp:538-567).                                                     *)
THEOREM CollectedAreScored == SearchSpec => []EachScoredOnce
<1>1. SearchInv => EachScoredOnce
  BY DEF SearchInv, CandidatesOK
<1> QED
  BY <1>1, SearchInvHolds, PTL

(* The descent ends at a node that no neighbour in level 0 beats, however  *)
(* the comparisons were shared out (HNSW.cpp:453-505).                     *)
THEOREM DescentFindsPeak == SearchSpec => []DescentEndsAtPeak
<1>1. SearchInv => DescentEndsAtPeak
  BY DEF SearchInv
<1> QED
  BY <1>1, SearchInvHolds, PTL

(* The search returns the K most similar live nodes of those it collected, *)
(* all of them when they are fewer, in order and each once, whatever order *)
(* the tasks put them in (HNSW.cpp:538-575).                               *)
THEOREM ResultIsBestOfCollected == SearchSpec => []ResultIsBest
<1>1. SearchInv => ResultIsBest
  BY DEF SearchInv
<1> QED
  BY <1>1, SearchInvHolds, PTL
=============================================================================
