----------------------------- MODULE ThreadPool -----------------------------
(***************************************************************************)
(* The thread pool of src/ThreadPool.h: workers that share a queue of      *)
(* tasks under queue_mutex and sleep on a condition variable, one owner    *)
(* that submits tasks and at the end destroys the pool, as the parallel    *)
(* search does (src/HNSW.cpp:443-575).                                     *)
(*                                                                         *)
(* Taking the mutex, what is done under it, and the notification after it  *)
(* are steps of their own.  Waiting on the condition variable releases the *)
(* mutex and sleeps in one step, as C++ guarantees; a sleeping worker may  *)
(* also wake without a notification.  A worker that has not run yet and a  *)
(* worker that waits for the mutex are in the same place, "lock".          *)
(***************************************************************************)
EXTENDS Naturals, Sequences, FiniteSets

CONSTANTS
    Worker,       \* the worker threads
    Owner,        \* the thread that made the pool
    MaxTasks,     \* bound: the tasks submitted
    MaxSpurious   \* bound: the wake-ups without a notification

ASSUME WorkersAssumption == IsFiniteSet(Worker) /\ Worker # {} /\ Owner \notin Worker
ASSUME PoolBoundsAssumption == MaxTasks \in Nat /\ MaxSpurious \in Nat

VARIABLES
    tasks,        \* the queue; a task is its number in the order of submission
    stop,         \* set by the destructor
    queue_mutex,  \* the set of the threads that hold it: none or one
    worker,       \* where each worker is in its loop
    current,      \* the task each worker has taken, 0 for none
    owner,        \* where the owner is
    submitted,    \* the number of tasks put into the queue so far
    finished,     \* the tasks whose futures are ready
    spurious      \* the wake-ups without a notification so far

vars == <<tasks, stop, queue_mutex, worker, current, owner, submitted, finished, spurious>>

WorkerPlace == {"lock", "test", "sleep", "wait", "run", "exited"}
OwnerPlace  == {"idle", "emplace", "notify", "stop", "notify_all", "join", "gone"}

Waiting == {w \in Worker : worker[w] = "wait"}

(* Workers that will look at the queue before they sleep.                  *)
Awake == {w \in Worker : worker[w] \in {"lock", "test"}}

Lock(t) == queue_mutex = {} /\ queue_mutex' = {t}

Init ==
    /\ tasks = <<>> /\ stop = FALSE
    /\ queue_mutex = {}
    /\ worker = [w \in Worker |-> "lock"]
    /\ current = [w \in Worker |-> 0]
    /\ owner = "idle"
    /\ submitted = 0 /\ finished = {}
    /\ spurious = 0

---------------------------------------------------------------------------
(* The worker's loop.                                                      *)

Acquire(w) ==
    /\ worker[w] = "lock"
    /\ Lock(w)
    /\ worker' = [worker EXCEPT ![w] = "test"]
    /\ UNCHANGED <<tasks, stop, current, owner, submitted, finished, spurious>>

(* The predicate of the wait is false: go to sleep, still with the mutex.  *)
Refuse(w) ==
    /\ worker[w] = "test" /\ ~stop /\ tasks = <<>>
    /\ worker' = [worker EXCEPT ![w] = "sleep"]
    /\ UNCHANGED <<tasks, stop, queue_mutex, current, owner, submitted, finished, spurious>>

Wait(w) ==
    /\ worker[w] = "sleep"
    /\ worker' = [worker EXCEPT ![w] = "wait"]
    /\ queue_mutex' = {}
    /\ UNCHANGED <<tasks, stop, current, owner, submitted, finished, spurious>>

WakeSpuriously(w) ==
    /\ worker[w] = "wait" /\ spurious < MaxSpurious
    /\ worker' = [worker EXCEPT ![w] = "lock"]
    /\ spurious' = spurious + 1
    /\ UNCHANGED <<tasks, stop, queue_mutex, current, owner, submitted, finished>>

(* Mutant of Exit: a worker leaves as soon as it sees `stop`.              *)
ExitAtOnce(w) ==
    /\ worker[w] = "test" /\ stop
    /\ worker' = [worker EXCEPT ![w] = "exited"]
    /\ queue_mutex' = {}
    /\ UNCHANGED <<tasks, stop, current, owner, submitted, finished, spurious>>

Exit(w) ==
    /\ worker[w] = "test" /\ stop /\ tasks = <<>>
    /\ worker' = [worker EXCEPT ![w] = "exited"]
    /\ queue_mutex' = {}
    /\ UNCHANGED <<tasks, stop, current, owner, submitted, finished, spurious>>

(* Mutant of Take: front() without pop().                                  *)
TakeWithoutPop(w) ==
    /\ worker[w] = "test" /\ tasks # <<>>
    /\ current' = [current EXCEPT ![w] = Head(tasks)]
    /\ worker' = [worker EXCEPT ![w] = "run"]
    /\ queue_mutex' = {}
    /\ UNCHANGED <<tasks, stop, owner, submitted, finished, spurious>>

Take(w) ==
    /\ worker[w] = "test" /\ tasks # <<>>
    /\ current' = [current EXCEPT ![w] = Head(tasks)]
    /\ tasks' = Tail(tasks)
    /\ worker' = [worker EXCEPT ![w] = "run"]
    /\ queue_mutex' = {}
    /\ UNCHANGED <<stop, owner, submitted, finished, spurious>>

(* task() has run, outside the mutex, and its future is ready.             *)
Run(w) ==
    /\ worker[w] = "run"
    /\ finished' = finished \cup {current[w]}
    /\ current' = [current EXCEPT ![w] = 0]
    /\ worker' = [worker EXCEPT ![w] = "lock"]
    /\ UNCHANGED <<tasks, stop, queue_mutex, owner, submitted, spurious>>

---------------------------------------------------------------------------
(* enqueue: under the mutex the task is put into the queue, after it one   *)
(* worker is notified, if any sleeps.  The owner is the only caller, so    *)
(* that the test of `stop` never throws.                                   *)

EnqueueLock ==
    /\ owner = "idle" /\ submitted < MaxTasks
    /\ Lock(Owner)
    /\ owner' = "emplace"
    /\ UNCHANGED <<tasks, stop, worker, current, submitted, finished, spurious>>

(* Mutant of Emplace: the task is put into the queue twice.                *)
EmplaceTwice ==
    /\ owner = "emplace" /\ ~stop
    /\ tasks' = tasks \o <<submitted + 1, submitted + 2>>
    /\ submitted' = submitted + 1
    /\ queue_mutex' = {}
    /\ owner' = "notify"
    /\ UNCHANGED <<stop, worker, current, finished, spurious>>

Emplace ==
    /\ owner = "emplace" /\ ~stop
    /\ tasks' = Append(tasks, submitted + 1)
    /\ submitted' = submitted + 1
    /\ queue_mutex' = {}
    /\ owner' = "notify"
    /\ UNCHANGED <<stop, worker, current, finished, spurious>>

(* Mutant of notify_one: only the first task of the queue is announced.    *)
notify_first ==
    \/ (Waiting = {} \/ Len(tasks) > 1) /\ UNCHANGED worker
    \/ \E w \in Waiting : Len(tasks) <= 1 /\ worker' = [worker EXCEPT ![w] = "lock"]

notify_one ==
    \/ Waiting = {} /\ UNCHANGED worker
    \/ \E w \in Waiting : worker' = [worker EXCEPT ![w] = "lock"]

NotifyOne ==
    /\ owner = "notify"
    /\ notify_one
    /\ owner' = "idle"
    /\ UNCHANGED <<tasks, stop, queue_mutex, current, submitted, finished, spurious>>

---------------------------------------------------------------------------
(* The destructor.                                                         *)

(* Mutant of StopLock: `stop` is set without the mutex.                    *)
StopUnlocked ==
    /\ owner = "idle"
    /\ stop' = TRUE
    /\ owner' = "notify_all"
    /\ UNCHANGED <<tasks, queue_mutex, worker, current, submitted, finished, spurious>>

StopLock ==
    /\ owner = "idle"
    /\ Lock(Owner)
    /\ owner' = "stop"
    /\ UNCHANGED <<tasks, stop, worker, current, submitted, finished, spurious>>

SetStop ==
    /\ owner = "stop"
    /\ stop' = TRUE
    /\ queue_mutex' = {}
    /\ owner' = "notify_all"
    /\ UNCHANGED <<tasks, worker, current, submitted, finished, spurious>>

NotifyAll ==
    /\ owner = "notify_all"
    /\ worker' = [w \in Worker |-> IF worker[w] = "wait" THEN "lock" ELSE worker[w]]
    /\ owner' = "join"
    /\ UNCHANGED <<tasks, stop, queue_mutex, current, submitted, finished, spurious>>

(* join() of every worker.                                                 *)
Join ==
    /\ owner = "join" /\ \A w \in Worker : worker[w] = "exited"
    /\ owner' = "gone"
    /\ UNCHANGED <<tasks, stop, queue_mutex, worker, current, submitted, finished, spurious>>

---------------------------------------------------------------------------
Loop(w) == Acquire(w) \/ Refuse(w) \/ Wait(w) \/ Exit(w) \/ Take(w) \/ Run(w)

(* The owner in a call, once it has the mutex or needs it no more.         *)
InCall == Emplace \/ NotifyOne \/ SetStop \/ NotifyAll \/ Join

Next ==
    \/ \E w \in Worker : Loop(w) \/ WakeSpuriously(w)
    \/ EnqueueLock \/ StopLock \/ InCall

Spec == Init /\ [][Next]_vars

(* Threads run.  Waking without a notification is never obliged, and the   *)
(* owner decides freely whether to submit, to destroy or to do nothing.    *)
FairSpec == Spec /\ WF_vars(InCall) /\ \A w \in Worker : WF_vars(Loop(w))

---------------------------------------------------------------------------
(* Properties.                                                             *)

Started == submitted - Len(tasks)

(* The variables keep their types; tasks that are queued, taken or done    *)
(* have been submitted.                                                    *)
TypeOK ==
    /\ submitted \in 0..MaxTasks /\ spurious \in 0..MaxSpurious
    /\ tasks \in Seq(1..submitted) /\ Len(tasks) <= submitted
    /\ stop \in BOOLEAN
    /\ queue_mutex \subseteq Worker \cup {Owner}
    /\ worker \in [Worker -> WorkerPlace]
    /\ current \in [Worker -> 0..submitted]
    /\ owner \in OwnerPlace
    /\ finished \subseteq 1..submitted

(* Every submitted task is in exactly one place: in the queue, which is in *)
(* the order of submission, with one worker, or finished.  None is lost    *)
(* between pop() and task() (ThreadPool.h:45-53), none runs twice.         *)
TasksInOnePlace ==
    /\ \A i \in 1..Len(tasks) : tasks[i] = Started + i
    /\ \A w \in Worker : current[w] # 0 => current[w] <= Started /\ current[w] \notin finished
    /\ \A v, w \in Worker : current[v] = current[w] /\ current[v] # 0 => v = w
    /\ \A t \in 1..submitted :
           t <= Started <=> t \in finished \/ \E w \in Worker : current[w] = t

(* No lost wake-up: while a worker sleeps, there are at least as many      *)
(* workers on their way to the queue as tasks in it, counting the one that *)
(* enqueue is about to notify (ThreadPool.h:103), so that no task waits    *)
(* for a busy worker beside a sleeping one; and once the destructor has    *)
(* notified, nobody sleeps (ThreadPool.h:118-123).                         *)
NobodyOversleeps ==
    Waiting # {} =>
        /\ Len(tasks) <= Cardinality(Awake) + (IF owner = "notify" THEN 1 ELSE 0)
        /\ stop => owner = "notify_all"

(* When the destructor has returned every submitted task has run and no    *)
(* worker can touch the pool any more (ThreadPool.h:125-129, 41).          *)
DrainedAtEnd ==
    owner = "gone" =>
        /\ tasks = <<>> /\ finished = 1..submitted
        /\ \A w \in Worker : worker[w] = "exited"

(* The pool is the TaskPool of its promise: tasks start once and in order, *)
(* each one is finished in the end, and the destructor returns.            *)
Pool == INSTANCE TaskPool WITH
    started <- Started,
    status  <- IF owner = "gone" THEN "closed" ELSE IF stop THEN "closing" ELSE "open"

ImplementsPool == Pool!FairSpec

---------------------------------------------------------------------------
(* The other parts of the inductive invariant of ThreadPoolProofs.         *)

(* The mutex is held exactly where the code holds it.                      *)
MutexOK ==
    /\ \A w \in Worker : worker[w] \in {"test", "sleep"} <=> queue_mutex = {w}
    /\ owner \in {"emplace", "stop"} <=> queue_mutex = {Owner}
    /\ queue_mutex = {} \/ \E t \in Worker \cup {Owner} : queue_mutex = {t}

(* What a thread has seen under the mutex still holds at its next step.    *)
SeenOK ==
    /\ stop <=> owner \in {"notify_all", "join", "gone"}
    /\ \A w \in Worker : worker[w] = "sleep" => ~stop /\ tasks = <<>>
    /\ \A w \in Worker : worker[w] = "run" <=> current[w] # 0
    /\ \A w \in Worker : worker[w] = "exited" => stop /\ tasks = <<>>
    /\ owner = "gone" => \A w \in Worker : worker[w] = "exited"
    /\ owner = "emplace" => submitted < MaxTasks

(* Sleepers are left behind by the destructor's lock only until notify_all *)
(* (ThreadPool.h:113-123).                                                 *)
StopWakes == stop /\ Waiting # {} => owner = "notify_all"

(* The inductive invariant.  A worker that has tested `stop` and the queue *)
(* under the mutex (ThreadPool.h:37, 41) may rely on what it saw.          *)
PoolInv == TypeOK /\ MutexOK /\ SeenOK /\ StopWakes /\ TasksInOnePlace
=============================================================================
