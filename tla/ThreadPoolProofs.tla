-------------------------- MODULE ThreadPoolProofs --------------------------
(***************************************************************************)
(* Theorems about ThreadPool for any finite set of workers, any number of  *)
(* tasks and any number of spurious wake-ups.                              *)
(***************************************************************************)
EXTENDS ThreadPool, FiniteSetTheorems, TLAPS

(* The pool starts in the inductive invariant.                             *)
LEMMA InitPoolInv == Init => PoolInv
<1> SUFFICES ASSUME Init PROVE PoolInv
  OBVIOUS
<1>1. TypeOK
  <2>1. tasks \in Seq(1..submitted) /\ Len(tasks) <= submitted
    <3>1. (\A S : <<>> \in Seq(S)) /\ Len(<<>>) = 0
      OBVIOUS
    <3> QED
      BY <3>1 DEF Init
  <2>2. submitted \in 0..MaxTasks /\ spurious \in 0..MaxSpurious
    BY PoolBoundsAssumption DEF Init
  <2>3. /\ stop \in BOOLEAN
        /\ queue_mutex \subseteq Worker \cup {Owner}
        /\ finished \subseteq 1..submitted
    BY DEF Init
  <2>4. worker \in [Worker -> WorkerPlace] /\ owner \in OwnerPlace
    BY DEF Init, WorkerPlace, OwnerPlace
  <2>5. current \in [Worker -> 0..submitted]
    BY DEF Init
  <2> QED
    BY <2>1, <2>2, <2>3, <2>4, <2>5 DEF TypeOK
<1>2. MutexOK /\ SeenOK /\ StopWakes
  BY WorkersAssumption DEF Init, MutexOK, SeenOK, StopWakes, Waiting
<1>3. TasksInOnePlace
  BY DEF Init, TasksInOnePlace, Started
<1> QED
  BY <1>1, <1>2, <1>3 DEF PoolInv

(* Every step keeps the types.                                             *)
LEMMA TypeStep == PoolInv /\ [Next]_vars => TypeOK'
<1> SUFFICES ASSUME PoolInv, [Next]_vars PROVE TypeOK'
  OBVIOUS
<1> USE WorkersAssumption, PoolBoundsAssumption DEF PoolInv, TypeOK, WorkerPlace, OwnerPlace
<1>1. ASSUME NEW w \in Worker, Acquire(w) PROVE TypeOK'
  BY <1>1 DEF Acquire, Lock
<1>2. ASSUME NEW w \in Worker, Refuse(w) PROVE TypeOK'
  BY <1>2 DEF Refuse
<1>3. ASSUME NEW w \in Worker, Wait(w) PROVE TypeOK'
  BY <1>3 DEF Wait
<1>4. ASSUME NEW w \in Worker, WakeSpuriously(w) PROVE TypeOK'
  BY <1>4 DEF WakeSpuriously
<1>5. ASSUME NEW w \in Worker, Exit(w) PROVE TypeOK'
  BY <1>5 DEF Exit
<1>6. ASSUME NEW w \in Worker, Take(w) PROVE TypeOK'
  <2>1. Head(tasks) \in 1..submitted /\ Tail(tasks) \in Seq(1..submitted)
    BY <1>6 DEF Take
  <2>2. Len(Tail(tasks)) <= submitted
    BY <1>6 DEF Take
  <2> QED
    BY <1>6, <2>1, <2>2 DEF Take
<1>7. ASSUME NEW w \in Worker, Run(w) PROVE TypeOK'
  <2>1. current[w] \in 1..submitted
    <3>1. current[w] \in 0..submitted
      OBVIOUS
    <3>2. current[w] # 0
      BY <1>7 DEF Run, SeenOK
    <3> QED
      BY <3>1, <3>2
  <2> QED
    <3>1. finished' \subseteq 1..submitted'
      BY <1>7, <2>1 DEF Run
    <3>2. current' \in [Worker -> 0..submitted']
      BY <1>7 DEF Run
    <3>3. worker' \in [Worker -> WorkerPlace]
      BY <1>7 DEF Run
    <3> QED
      BY <1>7, <3>1, <3>2, <3>3 DEF Run
<1>8. CASE EnqueueLock
  BY <1>8 DEF EnqueueLock, Lock
<1>9. CASE Emplace
  <2>1. submitted + 1 \in 0..MaxTasks
    BY <1>9 DEF Emplace, SeenOK
  <2> QED
    BY <1>9, <2>1 DEF Emplace
<1>10. CASE NotifyOne
  BY <1>10 DEF NotifyOne, notify_one, Waiting
<1>11. CASE StopLock
  BY <1>11 DEF StopLock, Lock
<1>12. CASE SetStop
  BY <1>12 DEF SetStop
<1>13. CASE NotifyAll
  BY <1>13 DEF NotifyAll
<1>14. CASE Join
  BY <1>14 DEF Join
<1>15. CASE UNCHANGED vars
  BY <1>15 DEF vars
<1> QED
  BY <1>1, <1>2, <1>3, <1>4, <1>5, <1>6, <1>7, <1>8, <1>9, <1>10, <1>11,
     <1>12, <1>13, <1>14, <1>15 DEF Next, Loop, InCall

(* Every step keeps the mutex where the code holds it.                     *)
LEMMA MutexStep == PoolInv /\ [Next]_vars => MutexOK'
<1> SUFFICES ASSUME PoolInv, [Next]_vars PROVE MutexOK'
  OBVIOUS
<1> USE WorkersAssumption DEF PoolInv, TypeOK, MutexOK
<1>1. ASSUME NEW w \in Worker, Acquire(w) PROVE MutexOK'
  BY <1>1 DEF Acquire, Lock
<1>2. ASSUME NEW w \in Worker, Refuse(w) PROVE MutexOK'
  BY <1>2 DEF Refuse
<1>3. ASSUME NEW w \in Worker, Wait(w) PROVE MutexOK'
  BY <1>3 DEF Wait
<1>4. ASSUME NEW w \in Worker, WakeSpuriously(w) PROVE MutexOK'
  BY <1>4 DEF WakeSpuriously
<1>5. ASSUME NEW w \in Worker, Exit(w) PROVE MutexOK'
  BY <1>5 DEF Exit
<1>6. ASSUME NEW w \in Worker, Take(w) PROVE MutexOK'
  BY <1>6 DEF Take
<1>7. ASSUME NEW w \in Worker, Run(w) PROVE MutexOK'
  BY <1>7 DEF Run
<1>8. CASE EnqueueLock
  BY <1>8 DEF EnqueueLock, Lock
<1>9. CASE Emplace
  BY <1>9 DEF Emplace
<1>10. CASE NotifyOne
  BY <1>10 DEF NotifyOne, notify_one, Waiting
<1>11. CASE StopLock
  BY <1>11 DEF StopLock, Lock
<1>12. CASE SetStop
  BY <1>12 DEF SetStop
<1>13. CASE NotifyAll
  BY <1>13 DEF NotifyAll
<1>14. CASE Join
  BY <1>14 DEF Join
<1>15. CASE UNCHANGED vars
  BY <1>15 DEF vars
<1> QED
  BY <1>1, <1>2, <1>3, <1>4, <1>5, <1>6, <1>7, <1>8,
     <1>9, <1>10, <1>11, <1>12, <1>13, <1>14, <1>15 DEF Next, Loop, InCall

(* What has been seen under the mutex outlives the steps of the others.    *)
LEMMA SeenStep == PoolInv /\ [Next]_vars => SeenOK'
<1> SUFFICES ASSUME PoolInv, [Next]_vars PROVE SeenOK'
  OBVIOUS
<1> USE WorkersAssumption DEF PoolInv, TypeOK, MutexOK, SeenOK
<1>1. ASSUME NEW w \in Worker, Acquire(w) PROVE SeenOK'
  BY <1>1 DEF Acquire, Lock
<1>2. ASSUME NEW w \in Worker, Refuse(w) PROVE SeenOK'
  BY <1>2 DEF Refuse
<1>3. ASSUME NEW w \in Worker, Wait(w) PROVE SeenOK'
  BY <1>3 DEF Wait
<1>4. ASSUME NEW w \in Worker, WakeSpuriously(w) PROVE SeenOK'
  BY <1>4 DEF WakeSpuriously
<1>5. ASSUME NEW w \in Worker, Exit(w) PROVE SeenOK'
  BY <1>5 DEF Exit
<1>6. ASSUME NEW w \in Worker, Take(w) PROVE SeenOK'
  BY <1>6 DEF Take
<1>7. ASSUME NEW w \in Worker, Run(w) PROVE SeenOK'
  BY <1>7 DEF Run
<1>8. CASE EnqueueLock
  BY <1>8 DEF EnqueueLock, Lock
<1>9. CASE Emplace
  BY <1>9 DEF Emplace
<1>10. CASE NotifyOne
  BY <1>10 DEF NotifyOne, notify_one, Waiting
<1>11. CASE StopLock
  BY <1>11 DEF StopLock, Lock
<1>12. CASE SetStop
  BY <1>12 DEF SetStop
<1>13. CASE NotifyAll
  BY <1>13 DEF NotifyAll
<1>14. CASE Join
  BY <1>14 DEF Join
<1>15. CASE UNCHANGED vars
  BY <1>15 DEF vars
<1> QED
  BY <1>1, <1>2, <1>3, <1>4, <1>5, <1>6, <1>7, <1>8,
     <1>9, <1>10, <1>11, <1>12, <1>13, <1>14, <1>15 DEF Next, Loop, InCall

(* Nobody goes to sleep once the destructor has set `stop`.                *)
LEMMA StopWakesStep == PoolInv /\ [Next]_vars => StopWakes'
<1> SUFFICES ASSUME PoolInv, [Next]_vars PROVE StopWakes'
  OBVIOUS
<1> USE WorkersAssumption DEF PoolInv, TypeOK, SeenOK, StopWakes, Waiting
<1>1. ASSUME NEW w \in Worker, Acquire(w) PROVE StopWakes'
  BY <1>1 DEF Acquire, Lock
<1>2. ASSUME NEW w \in Worker, Refuse(w) PROVE StopWakes'
  BY <1>2 DEF Refuse
<1>3. ASSUME NEW w \in Worker, Wait(w) PROVE StopWakes'
  BY <1>3 DEF Wait
<1>4. ASSUME NEW w \in Worker, WakeSpuriously(w) PROVE StopWakes'
  BY <1>4 DEF WakeSpuriously
<1>5. ASSUME NEW w \in Worker, Exit(w) PROVE StopWakes'
  BY <1>5 DEF Exit
<1>6. ASSUME NEW w \in Worker, Take(w) PROVE StopWakes'
  BY <1>6 DEF Take
<1>7. ASSUME NEW w \in Worker, Run(w) PROVE StopWakes'
  BY <1>7 DEF Run
<1>8. CASE EnqueueLock
  BY <1>8 DEF EnqueueLock, Lock
<1>9. CASE Emplace
  BY <1>9 DEF Emplace
<1>10. CASE NotifyOne
  BY <1>10 DEF NotifyOne, notify_one
<1>11. CASE StopLock
  BY <1>11 DEF StopLock, Lock
<1>12. CASE SetStop
  BY <1>12 DEF SetStop
<1>13. CASE NotifyAll
  BY <1>13 DEF NotifyAll
<1>14. CASE Join
  BY <1>14 DEF Join
<1>15. CASE UNCHANGED vars
  BY <1>15 DEF vars
<1> QED
  BY <1>1, <1>2, <1>3, <1>4, <1>5, <1>6, <1>7, <1>8,
     <1>9, <1>10, <1>11, <1>12, <1>13, <1>14, <1>15 DEF Next, Loop, InCall
(* Every step keeps each task in one place.                                *)
LEMMA PlacesStep == PoolInv /\ [Next]_vars => TasksInOnePlace'
<1> SUFFICES ASSUME PoolInv, [Next]_vars PROVE TasksInOnePlace'
  OBVIOUS
<1> USE PoolBoundsAssumption DEF PoolInv, TypeOK, SeenOK, TasksInOnePlace
<1>1. ASSUME NEW w \in Worker, Acquire(w) PROVE TasksInOnePlace'
  <2>1. UNCHANGED <<tasks, current, submitted, finished>>
    BY <1>1 DEF Acquire, Lock
  <2> QED
    BY <2>1 DEF Started
<1>2. ASSUME NEW w \in Worker, Refuse(w) PROVE TasksInOnePlace'
  <2>1. UNCHANGED <<tasks, current, submitted, finished>>
    BY <1>2 DEF Refuse
  <2> QED
    BY <2>1 DEF Started
<1>3. ASSUME NEW w \in Worker, Wait(w) PROVE TasksInOnePlace'
  <2>1. UNCHANGED <<tasks, current, submitted, finished>>
    BY <1>3 DEF Wait
  <2> QED
    BY <2>1 DEF Started
<1>4. ASSUME NEW w \in Worker, WakeSpuriously(w) PROVE TasksInOnePlace'
  <2>1. UNCHANGED <<tasks, current, submitted, finished>>
    BY <1>4 DEF WakeSpuriously
  <2> QED
    BY <2>1 DEF Started
<1>5. ASSUME NEW w \in Worker, Exit(w) PROVE TasksInOnePlace'
  <2>1. UNCHANGED <<tasks, current, submitted, finished>>
    BY <1>5 DEF Exit
  <2> QED
    BY <2>1 DEF Started
<1>6. ASSUME NEW w \in Worker, Take(w) PROVE TasksInOnePlace'
  <2> DEFINE t == Head(tasks)
  <2>1. tasks # <<>> /\ t = Started + 1 /\ current[w] = 0
    <3>1. tasks # <<>> /\ Len(tasks) \in Nat /\ Len(tasks) >= 1 /\ t = tasks[1]
      BY <1>6 DEF Take
    <3>2. worker[w] # "run"
      BY <1>6 DEF Take
    <3> QED
      BY <3>1, <3>2
  <2>2. submitted' = submitted /\ finished' = finished /\ Started' = Started + 1
    BY <1>6, <2>1 DEF Take, Started
  <2>3. Started \in Nat /\ Started' <= submitted
    BY <1>6 DEF Take, Started
  <2>4. \A v \in Worker : current'[v] = IF v = w THEN t ELSE current[v]
    BY <1>6 DEF Take
  <2>5. \A i \in 1..Len(tasks') : tasks'[i] = Started' + i
    <3> SUFFICES ASSUME NEW i \in 1..Len(tasks') PROVE tasks'[i] = Started' + i
      OBVIOUS
    <3>1. i + 1 \in 1..Len(tasks) /\ tasks'[i] = tasks[i + 1] /\ i \in Nat
      BY <1>6 DEF Take
    <3> QED
      BY <3>1, <2>2, <2>3
  <2>6. \A v \in Worker : current'[v] # 0 => current'[v] <= Started' /\ current'[v] \notin finished'
    <3>1. t \notin finished
      BY <2>1, <2>3
    <3>2. \A v \in Worker : current[v] # 0 => current[v] <= Started'
      BY <2>2, <2>3
    <3> QED
      BY <2>1, <2>2, <2>3, <2>4, <3>1, <3>2
  <2>7. \A u, v \in Worker : current'[u] = current'[v] /\ current'[u] # 0 => u = v
    <3>1. \A v \in Worker : current[v] # t
      BY <2>1, <2>3
    <3> QED
      BY <2>4, <3>1
  <2>8. \A k \in 1..submitted' :
            k <= Started' <=> k \in finished' \/ \E v \in Worker : current'[v] = k
    <3> SUFFICES ASSUME NEW k \in 1..submitted
                 PROVE  k <= Started' <=> k \in finished \/ \E v \in Worker : current'[v] = k
      BY <2>2
    <3>1. k <= Started' <=> k <= Started \/ k = t
      BY <2>1, <2>2, <2>3
    <3>2. (\E v \in Worker : current'[v] = k) <=> (\E v \in Worker : current[v] = k) \/ k = t
      BY <2>1, <2>4
    <3> QED
      BY <3>1, <3>2
  <2> QED
    BY <2>5, <2>6, <2>7, <2>8
<1>7. ASSUME NEW w \in Worker, Run(w) PROVE TasksInOnePlace'
  <2>1. Started' = Started /\ submitted' = submitted /\ tasks' = tasks
    BY <1>7 DEF Run, Started
  <2>2. current[w] # 0 /\ finished' = finished \cup {current[w]}
    BY <1>7 DEF Run
  <2>3. \A v \in Worker : current'[v] = IF v = w THEN 0 ELSE current[v]
    BY <1>7 DEF Run
  <2>4. \A v \in Worker : current'[v] # 0 => current'[v] <= Started' /\ current'[v] \notin finished'
    BY <2>1, <2>2, <2>3
  <2>5. \A u, v \in Worker : current'[u] = current'[v] /\ current'[u] # 0 => u = v
    BY <2>3
  <2>6. \A k \in 1..submitted' :
            k <= Started' <=> k \in finished' \/ \E v \in Worker : current'[v] = k
    <3> SUFFICES ASSUME NEW k \in 1..submitted
                 PROVE  k \in finished \/ (\E v \in Worker : current[v] = k) <=>
                        k \in finished' \/ (\E v \in Worker : current'[v] = k)
      BY <2>1
    <3> QED
      BY <2>2, <2>3
  <2> QED
    BY <2>1, <2>4, <2>5, <2>6
<1>8. CASE EnqueueLock
  <2>1. UNCHANGED <<tasks, current, submitted, finished>>
    BY <1>8 DEF EnqueueLock, Lock
  <2> QED
    BY <2>1 DEF Started
<1>9. CASE Emplace
  <2>1. /\ submitted' = submitted + 1 /\ tasks' = Append(tasks, submitted + 1)
        /\ UNCHANGED <<current, finished>>
    BY <1>9 DEF Emplace
  <2>2. Len(tasks') = Len(tasks) + 1 /\ Started' = Started /\ Started \in Nat
    BY <2>1 DEF Started
  <2>3. \A i \in 1..Len(tasks') : tasks'[i] = Started' + i
    <3> SUFFICES ASSUME NEW i \in 1..Len(tasks') PROVE tasks'[i] = Started' + i
      OBVIOUS
    <3>1. CASE i \in 1..Len(tasks)
      BY <3>1, <2>1, <2>2
    <3>2. CASE i = Len(tasks) + 1
      BY <3>2, <2>1, <2>2 DEF Started
    <3> QED
      BY <3>1, <3>2, <2>2
  <2>4. \A k \in 1..submitted' :
            k <= Started' <=> k \in finished' \/ \E v \in Worker : current'[v] = k
    <3>1. CASE Started < submitted + 1
      <4>1. submitted + 1 \notin finished /\ \A v \in Worker : current[v] # submitted + 1
        OBVIOUS
      <4> QED
        BY <3>1, <4>1, <2>1, <2>2
    <3> QED
      BY <3>1 DEF Started
  <2> QED
    BY <2>1, <2>2, <2>3, <2>4
<1>10. CASE NotifyOne
  <2>1. UNCHANGED <<tasks, current, submitted, finished>>
    BY <1>10 DEF NotifyOne
  <2> QED
    BY <2>1 DEF Started
<1>11. CASE StopLock
  <2>1. UNCHANGED <<tasks, current, submitted, finished>>
    BY <1>11 DEF StopLock, Lock
  <2> QED
    BY <2>1 DEF Started
<1>12. CASE SetStop
  <2>1. UNCHANGED <<tasks, current, submitted, finished>>
    BY <1>12 DEF SetStop
  <2> QED
    BY <2>1 DEF Started
<1>13. CASE NotifyAll
  <2>1. UNCHANGED <<tasks, current, submitted, finished>>
    BY <1>13 DEF NotifyAll
  <2> QED
    BY <2>1 DEF Started
<1>14. CASE Join
  <2>1. UNCHANGED <<tasks, current, submitted, finished>>
    BY <1>14 DEF Join
  <2> QED
    BY <2>1 DEF Started
<1>15. CASE UNCHANGED vars
  BY <1>15 DEF vars, Started
<1> QED
  BY <1>1, <1>2, <1>3, <1>4, <1>5, <1>6, <1>7, <1>8,
     <1>9, <1>10, <1>11, <1>12, <1>13, <1>14, <1>15 DEF Next, Loop, InCall

(* The inductive invariant is one.                                         *)
LEMMA PoolInvStep == PoolInv /\ [Next]_vars => PoolInv'
  BY TypeStep, MutexStep, SeenStep, StopWakesStep, PlacesStep DEF PoolInv

(* The inductive invariant holds always: the mutex is where the code holds *)
(* it, what was seen under it still holds, tasks are in one place          *)
(* (ThreadPool.h:27-54, 87-99, 113-129).                                   *)
THEOREM PoolInvHolds == Spec => []PoolInv
<1>1. Init => PoolInv
  BY InitPoolInv
<1>2. PoolInv /\ [Next]_vars => PoolInv'
  BY PoolInvStep
<1> QED
  BY <1>1, <1>2, PTL DEF Spec

(* The variables of the pool keep their types.                             *)
THEOREM PoolTypeCorrect == Spec => []TypeOK
<1>1. PoolInv => TypeOK
  BY DEF PoolInv
<1> QED
  BY <1>1, PoolInvHolds, PTL

(* A submitted task is queued, or with one worker, or done, never two of   *)
(* these (ThreadPool.h:45-53, 98).                                         *)
THEOREM EachTaskOnce == Spec => []TasksInOnePlace
<1>1. PoolInv => TasksInOnePlace
  BY DEF PoolInv
<1> QED
  BY <1>1, PoolInvHolds, PTL

---------------------------------------------------------------------------
(* Once every worker has left, every task has run.                         *)
LEMMA AllExited ==
    ASSUME PoolInv, \A w \in Worker : worker[w] = "exited"
    PROVE  stop /\ tasks = <<>> /\ finished = 1..submitted
<1>1. PICK w \in Worker : worker[w] = "exited"
  BY WorkersAssumption
<1>2. stop /\ tasks = <<>>
  BY <1>1 DEF PoolInv, SeenOK
<1>3. Started = submitted
  BY <1>2 DEF PoolInv, TypeOK, Started
<1>4. \A v \in Worker : current[v] = 0
  BY DEF PoolInv, SeenOK
<1>5. \A t \in 1..submitted : t \in finished
  BY <1>3, <1>4 DEF PoolInv, TypeOK, TasksInOnePlace
<1> QED
  BY <1>2, <1>5 DEF PoolInv, TypeOK

(* The destructor returns with an empty queue, all tasks run and all the   *)
(* workers gone (ThreadPool.h:41, 125-129).                                *)
THEOREM DestructorDrains == Spec => []DrainedAtEnd
<1>1. PoolInv => DrainedAtEnd
  BY AllExited DEF PoolInv, SeenOK, DrainedAtEnd
<1> QED
  BY <1>1, PoolInvHolds, PTL

---------------------------------------------------------------------------
(* The workers on their way to the queue are a finite set.                 *)
LEMMA AwakeFinite ==
    /\ IsFiniteSet(Awake) /\ Cardinality(Awake) \in Nat
    /\ IsFiniteSet(Awake') /\ Cardinality(Awake') \in Nat
<1>1. Awake \subseteq Worker /\ Awake' \subseteq Worker
  BY DEF Awake
<1>2. IsFiniteSet(Awake) /\ IsFiniteSet(Awake')
  BY <1>1, WorkersAssumption, FS_Subset
<1> QED
  BY <1>2, FS_CardinalityType

(* The part of NobodyOversleeps that is not StopWakes.                     *)
EnoughAwake ==
    Waiting # {} => Len(tasks) <= Cardinality(Awake) + (IF owner = "notify" THEN 1 ELSE 0)

(* A worker leaves its way to the queue with a task or because there is    *)
(* none; a task is announced to a sleeper, if there is one.                *)
LEMMA EnoughAwakeStep == PoolInv /\ EnoughAwake /\ [Next]_vars => EnoughAwake'
<1> SUFFICES ASSUME PoolInv, EnoughAwake, [Next]_vars PROVE EnoughAwake'
  OBVIOUS
<1> USE PoolBoundsAssumption DEF PoolInv, TypeOK
<1>1. ASSUME NEW w \in Worker, Acquire(w) PROVE EnoughAwake'
  <2>1. Awake' = Awake /\ Waiting' = Waiting
    BY <1>1 DEF Awake, Waiting, Acquire, Lock
  <2> QED
    BY <1>1, <2>1, AwakeFinite DEF Acquire, Lock, EnoughAwake
<1>2. ASSUME NEW w \in Worker, Refuse(w) PROVE EnoughAwake'
  <2>1. Len(tasks') = 0
    BY <1>2 DEF Refuse
  <2> QED
    BY <2>1, AwakeFinite DEF EnoughAwake
<1>3. ASSUME NEW w \in Worker, Wait(w) PROVE EnoughAwake'
  <2>1. Len(tasks') = 0
    BY <1>3 DEF Wait, SeenOK
  <2> QED
    BY <2>1, AwakeFinite DEF EnoughAwake
<1>4. ASSUME NEW w \in Worker, WakeSpuriously(w) PROVE EnoughAwake'
  <2>1. Awake' = Awake \cup {w} /\ w \notin Awake /\ Waiting' \subseteq Waiting
    BY <1>4 DEF Awake, Waiting, WakeSpuriously
  <2>2. Cardinality(Awake') = Cardinality(Awake) + 1
    BY <2>1, AwakeFinite, FS_AddElement
  <2>3. Len(tasks') = Len(tasks) /\ owner' = owner
    BY <1>4 DEF WakeSpuriously
  <2> QED
    BY <2>1, <2>2, <2>3, AwakeFinite DEF EnoughAwake
<1>5. ASSUME NEW w \in Worker, Exit(w) PROVE EnoughAwake'
  <2>1. Len(tasks') = 0
    BY <1>5 DEF Exit
  <2> QED
    BY <2>1, AwakeFinite DEF EnoughAwake
<1>6. ASSUME NEW w \in Worker, Take(w) PROVE EnoughAwake'
  <2>1. Awake' = Awake \ {w} /\ w \in Awake /\ Waiting' = Waiting
    BY <1>6 DEF Awake, Waiting, Take
  <2>2. Cardinality(Awake') = Cardinality(Awake) - 1
    BY <2>1, AwakeFinite, FS_RemoveElement
  <2>3. Len(tasks') = Len(tasks) - 1 /\ owner' = owner
    BY <1>6 DEF Take
  <2> QED
    BY <2>1, <2>2, <2>3, AwakeFinite DEF EnoughAwake
<1>7. ASSUME NEW w \in Worker, Run(w) PROVE EnoughAwake'
  <2>1. Awake' = Awake \cup {w} /\ w \notin Awake /\ Waiting' \subseteq Waiting
    BY <1>7 DEF Awake, Waiting, Run
  <2>2. Cardinality(Awake') = Cardinality(Awake) + 1
    BY <2>1, AwakeFinite, FS_AddElement
  <2>3. Len(tasks') = Len(tasks) /\ owner' = owner
    BY <1>7 DEF Run
  <2> QED
    BY <2>1, <2>2, <2>3, AwakeFinite DEF EnoughAwake
<1>8. CASE EnqueueLock
  <2>1. Awake' = Awake /\ Waiting' = Waiting
    BY <1>8 DEF Awake, Waiting, EnqueueLock, Lock
  <2> QED
    BY <1>8, <2>1, AwakeFinite DEF EnqueueLock, Lock, EnoughAwake
<1>9. CASE Emplace
  <2>1. Awake' = Awake /\ Waiting' = Waiting
    BY <1>9 DEF Awake, Waiting, Emplace
  <2> QED
    BY <1>9, <2>1, AwakeFinite DEF Emplace, EnoughAwake
<1>10. CASE NotifyOne
  <2>1. Len(tasks') = Len(tasks) /\ owner = "notify" /\ owner' = "idle"
    BY <1>10 DEF NotifyOne
  <2>2. CASE Waiting = {} /\ UNCHANGED worker
    BY <2>2 DEF EnoughAwake, Waiting
  <2>3. CASE \E w \in Waiting : worker' = [worker EXCEPT ![w] = "lock"]
    <3>1. PICK w \in Waiting : worker' = [worker EXCEPT ![w] = "lock"]
      BY <2>3
    <3>2. Awake' = Awake \cup {w} /\ w \notin Awake
      BY <3>1 DEF Awake, Waiting
    <3>3. Cardinality(Awake') = Cardinality(Awake) + 1
      BY <3>2, AwakeFinite, FS_AddElement
    <3> QED
      BY <2>1, <3>1, <3>3, AwakeFinite DEF EnoughAwake
  <2> QED
    BY <1>10, <2>2, <2>3 DEF NotifyOne, notify_one
<1>11. CASE StopLock
  <2>1. Awake' = Awake /\ Waiting' = Waiting
    BY <1>11 DEF Awake, Waiting, StopLock, Lock
  <2> QED
    BY <1>11, <2>1, AwakeFinite DEF StopLock, Lock, EnoughAwake
<1>12. CASE SetStop
  <2>1. Awake' = Awake /\ Waiting' = Waiting
    BY <1>12 DEF Awake, Waiting, SetStop
  <2> QED
    BY <1>12, <2>1, AwakeFinite DEF SetStop, EnoughAwake
<1>13. CASE NotifyAll
  <2>1. Waiting' = {}
    BY <1>13 DEF NotifyAll, Waiting
  <2> QED
    BY <2>1 DEF EnoughAwake
<1>14. CASE Join
  <2>1. Awake' = Awake /\ Waiting' = Waiting
    BY <1>14 DEF Awake, Waiting, Join
  <2> QED
    BY <1>14, <2>1, AwakeFinite DEF Join, EnoughAwake
<1>15. CASE UNCHANGED vars
  BY <1>15 DEF vars, EnoughAwake, Awake, Waiting
<1> QED
  BY <1>1, <1>2, <1>3, <1>4, <1>5, <1>6, <1>7, <1>8,
     <1>9, <1>10, <1>11, <1>12, <1>13, <1>14, <1>15 DEF Next, Loop, InCall

(* No lost wake-up: a task never waits beside a sleeping worker that       *)
(* nobody is about to wake (ThreadPool.h:37, 103, 118-123).                *)
THEOREM NoLostWakeUp == Spec => []NobodyOversleeps
<1>1. Init => EnoughAwake
  BY DEF Init, EnoughAwake, Waiting
<1>2. PoolInv /\ EnoughAwake /\ [Next]_vars => EnoughAwake'
  BY EnoughAwakeStep
<1>3. PoolInv /\ EnoughAwake => NobodyOversleeps
  BY DEF PoolInv, StopWakes, EnoughAwake, NobodyOversleeps
<1> QED
  BY <1>1, <1>2, <1>3, PoolInvHolds, PTL DEF Spec

---------------------------------------------------------------------------
(* A step of the pool is a step of TaskPool or none.                       *)
LEMMA PoolStepSimulates == PoolInv /\ PoolInv' /\ [Next]_vars => [Pool!Next]_Pool!vars
<1> SUFFICES ASSUME PoolInv, PoolInv', [Next]_vars PROVE [Pool!Next]_Pool!vars
  OBVIOUS
<1> USE DEF PoolInv
<1>1. ASSUME NEW w \in Worker, Acquire(w) PROVE [Pool!Next]_Pool!vars
  <2>1. UNCHANGED <<tasks, submitted, finished, stop>> /\ (owner = "gone" <=> owner' = "gone")
    BY <1>1 DEF Acquire, Lock
  <2> QED
    BY <2>1 DEF Pool!vars, Started
<1>2. ASSUME NEW w \in Worker, Refuse(w) PROVE [Pool!Next]_Pool!vars
  <2>1. UNCHANGED <<tasks, submitted, finished, stop>> /\ (owner = "gone" <=> owner' = "gone")
    BY <1>2 DEF Refuse
  <2> QED
    BY <2>1 DEF Pool!vars, Started
<1>3. ASSUME NEW w \in Worker, Wait(w) PROVE [Pool!Next]_Pool!vars
  <2>1. UNCHANGED <<tasks, submitted, finished, stop>> /\ (owner = "gone" <=> owner' = "gone")
    BY <1>3 DEF Wait
  <2> QED
    BY <2>1 DEF Pool!vars, Started
<1>4. ASSUME NEW w \in Worker, WakeSpuriously(w) PROVE [Pool!Next]_Pool!vars
  <2>1. UNCHANGED <<tasks, submitted, finished, stop>> /\ (owner = "gone" <=> owner' = "gone")
    BY <1>4 DEF WakeSpuriously
  <2> QED
    BY <2>1 DEF Pool!vars, Started
<1>5. ASSUME NEW w \in Worker, Exit(w) PROVE [Pool!Next]_Pool!vars
  <2>1. UNCHANGED <<tasks, submitted, finished, stop>> /\ (owner = "gone" <=> owner' = "gone")
    BY <1>5 DEF Exit
  <2> QED
    BY <2>1 DEF Pool!vars, Started
<1>6. ASSUME NEW w \in Worker, Take(w) PROVE [Pool!Next]_Pool!vars
  <2>1. submitted' = submitted /\ finished' = finished /\ UNCHANGED <<stop, owner>>
    BY <1>6 DEF Take
  <2>2. tasks # <<>> /\ Started' = Started + 1 /\ Started < submitted
    BY <1>6 DEF Take, TypeOK, Started
  <2>3. Pool!Start
    BY <2>1, <2>2 DEF Pool!Start
  <2> QED
    BY <2>3 DEF Pool!Next
<1>7. ASSUME NEW w \in Worker, Run(w) PROVE [Pool!Next]_Pool!vars
  <2>1. UNCHANGED <<submitted, stop, owner, tasks>> /\ Started' = Started
    BY <1>7 DEF Run, Started
  <2>2. current[w] \in (1..Started) \ finished
    <3>1. current[w] # 0 /\ current[w] \in 0..submitted
      BY <1>7 DEF Run, SeenOK, TypeOK
    <3>2. current[w] <= Started /\ current[w] \notin finished
      BY <3>1 DEF TasksInOnePlace
    <3> QED
      BY <3>1, <3>2 DEF TypeOK, Started
  <2>3. finished' = finished \cup {current[w]}
    BY <1>7 DEF Run
  <2>4. Pool!Finish
    BY <2>1, <2>2, <2>3 DEF Pool!Finish
  <2> QED
    BY <2>4 DEF Pool!Next
<1>8. CASE EnqueueLock
  <2>1. UNCHANGED <<tasks, submitted, finished, stop>> /\ (owner = "gone" <=> owner' = "gone")
    BY <1>8 DEF EnqueueLock, Lock
  <2> QED
    BY <2>1 DEF Pool!vars, Started
<1>9. CASE Emplace
  <2>1. owner # "gone" /\ owner' # "gone" /\ ~stop /\ ~stop' /\ finished' = finished
    BY <1>9 DEF Emplace
  <2>2. submitted' = submitted + 1 /\ Started' = Started
    BY <1>9 DEF Emplace, TypeOK, Started
  <2>3. Pool!Submit
    BY <2>1, <2>2 DEF Pool!Submit
  <2> QED
    BY <2>3 DEF Pool!Next
<1>10. CASE NotifyOne
  <2>1. UNCHANGED <<tasks, submitted, finished, stop>> /\ (owner = "gone" <=> owner' = "gone")
    BY <1>10 DEF NotifyOne
  <2> QED
    BY <2>1 DEF Pool!vars, Started
<1>11. CASE StopLock
  <2>1. UNCHANGED <<tasks, submitted, finished, stop>> /\ (owner = "gone" <=> owner' = "gone")
    BY <1>11 DEF StopLock, Lock
  <2> QED
    BY <2>1 DEF Pool!vars, Started
<1>12. CASE SetStop
  <2>1. owner # "gone" /\ owner' # "gone" /\ stop' /\ UNCHANGED <<tasks, submitted, finished>>
    BY <1>12 DEF SetStop
  <2>2. ~stop
    BY <1>12 DEF SetStop, SeenOK
  <2>3. Pool!Close
    BY <2>1, <2>2 DEF Pool!Close, Started
  <2> QED
    BY <2>3 DEF Pool!Next
<1>13. CASE NotifyAll
  <2>1. UNCHANGED <<tasks, submitted, finished, stop>> /\ (owner = "gone" <=> owner' = "gone")
    BY <1>13 DEF NotifyAll
  <2> QED
    BY <2>1 DEF Pool!vars, Started
<1>14. CASE Join
  <2>1. \A w \in Worker : worker[w] = "exited"
    BY <1>14 DEF Join
  <2>2. owner # "gone" /\ owner' = "gone" /\ UNCHANGED <<tasks, stop, submitted, finished>>
    BY <1>14 DEF Join
  <2>3. stop /\ finished = 1..submitted
    BY <2>1, AllExited
  <2>4. Pool!Closed
    BY <2>2, <2>3 DEF Pool!Closed, Started
  <2> QED
    BY <2>4 DEF Pool!Next
<1>15. CASE UNCHANGED vars
  BY <1>15 DEF vars, Pool!vars, Started
<1> QED
  BY <1>1, <1>2, <1>3, <1>4, <1>5, <1>6, <1>7, <1>8,
     <1>9, <1>10, <1>11, <1>12, <1>13, <1>14, <1>15 DEF Next, Loop, InCall

(* What the pool promises and how it works agree, safety: it starts tasks  *)
(* once and in order, and its destructor returns when all are finished.    *)
THEOREM PoolIsTaskPool == Spec => Pool!Spec
<1>1. Init => Pool!Init
  <2> SUFFICES ASSUME Init PROVE Pool!Init
    OBVIOUS
  <2>1. Len(tasks) = 0 /\ submitted = 0 /\ finished = {}
    BY DEF Init
  <2>2. ~stop /\ owner # "gone"
    BY DEF Init
  <2> QED
    BY <2>1, <2>2 DEF Pool!Init, Started
<1>2. PoolInv /\ PoolInv' /\ [Next]_vars => [Pool!Next]_Pool!vars
  BY PoolStepSimulates
<1> QED
  BY <1>1, <1>2, PoolInvHolds, PTL DEF Spec, Pool!Spec
=============================================================================
