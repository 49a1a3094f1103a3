----------------------------- MODULE ThreadPool -----------------------------
(***************************************************************************)
(* The thread pool of src/threads/thread_pool.c: one pool, its task queue, *)
(* the tasks, the worker threads that run process_task and the client      *)
(* threads that call the API.                                              *)
(*                                                                         *)
(* This module holds the operations only.  Which calls a client makes, and *)
(* when, is the business of the modules that extend this one (PoolClient,  *)
(* MainProgram, HeaderClient).                                             *)
(*                                                                         *)
(* An operation takes one step per access that another thread can observe: *)
(* acquiring or releasing queue_mtx, each read or write of the volatile    *)
(* task flags, creating or joining a thread.  A thread whose next access   *)
(* would touch freed memory or leave the queue array takes no further      *)
(* step, because C gives it no behaviour; MemorySafe says that no thread   *)
(* is ever in that position.                                               *)
(***************************************************************************)
EXTENDS Integers, FiniteSets

CONSTANTS
  Clients,          \* threads that call the API
  Tasks,            \* thread_task objects, one per successful malloc
  NULL,             \* no task, no mutex owner
  threads_size,     \* max_thread_count given to thread_pool_new
  TPOOL_MAX_TASKS,  \* length of the queue array (100000 in the header)
  ITERATION_LIMIT   \* loops after which a worker exits (1000000000)

Workers == 0 .. threads_size - 1   \* indices into tp->threads
Slots == 0 .. TPOOL_MAX_TASKS - 1  \* indices into tp->queue

\* thread_pool_new refuses more than TPOOL_MAX_THREADS = 20 threads and the
\* array has TPOOL_MAX_TASKS = 100000 slots, so threads_size + 1 is smaller.
ASSUME PoolAssumption ==
  /\ threads_size \in Nat \ {0}
  /\ TPOOL_MAX_TASKS \in Nat
  /\ threads_size + 1 < TPOOL_MAX_TASKS
  /\ ITERATION_LIMIT \in Nat \ {0}
  /\ NULL \notin Tasks \cup Clients \cup Workers
  /\ Clients \cap Workers = {}

VARIABLES
  pool,          \* memory of the thread_pool: "none", "live" or "freed"
  thread_count,
  queue,         \* the array of task pointers
  queue_head,
  queue_tail,
  queue_count,
  queue_mtx,     \* the thread that holds the mutex, or NULL
  allocated,     \* tasks whose memory is allocated
  is_finished,   \* tasks whose is_finished flag is set
  is_running,    \* tasks whose is_running flag is set
  ret,           \* the result cell task->ret points to
  wpc,           \* where each worker is in process_task
  wtask,         \* its local variable task
  counter,       \* its local variable counter
  cpc,           \* where each client is in the call it makes
  carg,          \* the task it passed
  loop_i         \* variable i of the loops of execute and pool_join

queueVars == <<queue, queue_head, queue_tail, queue_count>>
taskVars == <<allocated, is_finished, is_running, ret>>
workerVars == <<wpc, wtask, counter>>
clientVars == <<cpc, carg, loop_i>>
poolMem == <<pool, thread_count>>
sharedVars == <<poolMem, queueVars, queue_mtx>>
poolVars == <<sharedVars, taskVars, workerVars, clientVars>>

CallPcs == {"idle", "push_lock", "push_write", "push_unlock",
            "join_finished", "join_running", "join_result",
            "execute", "execute_free", "pool_join"}
WorkerPcs == {"none", "lock", "take", "call", "finish", "stop", "unlock",
              "exited"}

PoolInit ==
  /\ pool = "none" /\ thread_count = 0 /\ queue_mtx = NULL
  /\ queue = [i \in Slots |-> NULL]
  /\ queue_head = 0 /\ queue_tail = 0 /\ queue_count = 0
  /\ allocated = {} /\ is_finished = {} /\ is_running = {}
  /\ ret = [t \in Tasks |-> "null"]
  /\ wpc = [w \in Workers |-> "none"]
  /\ wtask = [w \in Workers |-> NULL]
  /\ counter = [w \in Workers |-> 0]
  /\ cpc = [c \in Clients |-> "idle"]
  /\ carg = [c \in Clients |-> NULL]
  /\ loop_i = 0

GoClient(c, from, to) == cpc[c] = from /\ cpc' = [cpc EXCEPT ![c] = to]
GoWorker(w, from, to) == wpc[w] = from /\ wpc' = [wpc EXCEPT ![w] = to]

-----------------------------------------------------------------------------
(* process_task: the loop of a worker.                                     *)

\* Mutant: the worker does not wait for the mutex.
WorkerLockNoWait(w) ==
  /\ pool = "live"
  /\ GoWorker(w, "lock", "take")
  /\ queue_mtx' = w
  /\ UNCHANGED <<poolMem, queueVars, taskVars, wtask, counter, clientVars>>

WorkerLock(w) ==
  /\ pool = "live"
  /\ queue_mtx = NULL
  /\ GoWorker(w, "lock", "take")
  /\ queue_mtx' = w
  /\ UNCHANGED <<poolMem, queueVars, taskVars, wtask, counter, clientVars>>

\* Mutant: the task is taken and the head stays where it is.
WorkerTakeHeadStays(w) ==
  LET t == queue[queue_head] IN
  /\ pool = "live" /\ queue_count > 0
  /\ queue_head \in Slots /\ t \in allocated
  /\ GoWorker(w, "take", "call")
  /\ wtask' = [wtask EXCEPT ![w] = t]
  /\ queue_count' = queue_count - 1
  /\ is_running' = is_running \cup {t}
  /\ UNCHANGED <<poolMem, queue, queue_head, queue_tail, queue_mtx, allocated,
                 is_finished, ret, counter, clientVars>>

\* Mutant: the newest task is taken.
WorkerTakeNewest(w) ==
  LET t == queue[queue_tail - 1] IN
  /\ pool = "live" /\ queue_count > 0 /\ t \in allocated
  /\ GoWorker(w, "take", "call")
  /\ wtask' = [wtask EXCEPT ![w] = t]
  /\ queue_tail' = queue_tail - 1
  /\ queue_count' = queue_count - 1
  /\ is_running' = is_running \cup {t}
  /\ UNCHANGED <<poolMem, queue, queue_head, queue_mtx, allocated,
                 is_finished, ret, counter, clientVars>>

\* queue_count > 0: the task at queue_head leaves the queue and is marked.
WorkerTake(w) ==
  LET t == queue[queue_head] IN
  /\ pool = "live" /\ queue_count > 0
  /\ queue_head \in Slots /\ t \in allocated
  /\ GoWorker(w, "take", "call")
  /\ wtask' = [wtask EXCEPT ![w] = t]
  /\ queue_head' = queue_head + 1
  /\ queue_count' = queue_count - 1
  /\ is_running' = is_running \cup {t}
  /\ UNCHANGED <<poolMem, queue, queue_tail, queue_mtx, allocated, is_finished,
                 ret, counter, clientVars>>

WorkerEmpty(w) ==
  /\ pool = "live" /\ queue_count <= 0
  /\ GoWorker(w, "take", "unlock")
  /\ UNCHANGED <<sharedVars, taskVars, wtask, counter, clientVars>>

\* The function runs, with queue_mtx held, and returns a malloc'ed result.
WorkerCall(w) ==
  /\ wtask[w] \in allocated
  /\ GoWorker(w, "call", "finish")
  /\ ret' = [ret EXCEPT ![wtask[w]] = "held"]
  /\ UNCHANGED <<sharedVars, allocated, is_finished, is_running, wtask,
                 counter, clientVars>>

WorkerFinish(w) ==
  /\ wtask[w] \in allocated
  /\ GoWorker(w, "finish", "stop")
  /\ is_finished' = is_finished \cup {wtask[w]}
  /\ UNCHANGED <<sharedVars, allocated, is_running, ret, wtask, counter,
                 clientVars>>

\* Mutant: is_running stays set.
WorkerStopFlagStays(w) ==
  /\ wtask[w] \in allocated
  /\ GoWorker(w, "stop", "unlock")
  /\ UNCHANGED <<sharedVars, taskVars, wtask, counter, clientVars>>

WorkerStop(w) ==
  /\ wtask[w] \in allocated
  /\ GoWorker(w, "stop", "unlock")
  /\ is_running' = is_running \ {wtask[w]}
  /\ UNCHANGED <<sharedVars, allocated, is_finished, ret, wtask, counter,
                 clientVars>>

\* Mutants: the loop never ends; it ends one round early; the thread exits
\* with the mutex locked.
WorkerUnlockForEver(w) ==
  /\ pool = "live"
  /\ GoWorker(w, "unlock", "lock")
  /\ queue_mtx' = NULL
  /\ counter' = [counter EXCEPT ![w] = @ + 1]
  /\ UNCHANGED <<poolMem, queueVars, taskVars, wtask, clientVars>>
WorkerUnlockEarlyExit(w) ==
  /\ pool = "live"
  /\ GoWorker(w, "unlock",
              IF counter[w] + 2 >= ITERATION_LIMIT THEN "exited" ELSE "lock")
  /\ queue_mtx' = NULL
  /\ counter' = [counter EXCEPT ![w] = @ + 1]
  /\ UNCHANGED <<poolMem, queueVars, taskVars, wtask, clientVars>>
WorkerUnlockExitLocked(w) ==
  LET last == counter[w] + 1 = ITERATION_LIMIT IN
  /\ pool = "live"
  /\ GoWorker(w, "unlock", IF last THEN "exited" ELSE "lock")
  /\ queue_mtx' = IF last THEN queue_mtx ELSE NULL
  /\ counter' = [counter EXCEPT ![w] = @ + 1]
  /\ UNCHANGED <<poolMem, queueVars, taskVars, wtask, clientVars>>

\* The mutex is released; the thread exits in its ITERATION_LIMIT-th loop.
WorkerUnlock(w) ==
  /\ pool = "live"
  /\ GoWorker(w, "unlock",
              IF counter[w] + 1 = ITERATION_LIMIT THEN "exited" ELSE "lock")
  /\ queue_mtx' = NULL
  /\ counter' = [counter EXCEPT ![w] = @ + 1]
  /\ UNCHANGED <<poolMem, queueVars, taskVars, wtask, clientVars>>

WorkerStep(w) ==
  \/ WorkerLock(w) \/ WorkerTake(w) \/ WorkerEmpty(w) \/ WorkerCall(w)
  \/ WorkerFinish(w) \/ WorkerStop(w) \/ WorkerUnlock(w)

-----------------------------------------------------------------------------
(* thread_pool_new, thread_task_execute, thread_pool_join and              *)
(* thread_pool_delete.                                                     *)

PoolNew(c) ==
  /\ cpc[c] = "idle"
  /\ pool = "none"
  /\ pool' = "live"
  /\ thread_count' = 0
  /\ queue' = [i \in Slots |-> NULL]
  /\ queue_head' = 0 /\ queue_tail' = 0 /\ queue_count' = 0
  /\ queue_mtx' = NULL
  /\ UNCHANGED <<taskVars, workerVars, clientVars>>

ExecuteCall(c) ==
  /\ pool = "live"
  /\ GoClient(c, "idle", "execute")
  /\ loop_i' = 0
  /\ UNCHANGED <<sharedVars, taskVars, workerVars, carg>>

ExecuteCreate(c) ==
  /\ cpc[c] = "execute" /\ pool = "live"
  /\ loop_i < threads_size
  /\ wpc' = [wpc EXCEPT ![loop_i] = "lock"]
  /\ counter' = [counter EXCEPT ![loop_i] = 0]
  /\ thread_count' = thread_count + 1
  /\ loop_i' = loop_i + 1
  /\ UNCHANGED <<pool, queueVars, queue_mtx, taskVars, wtask, cpc, carg>>

\* pthread_create may fail (EAGAIN); the loop goes on with the next thread.
ExecuteCreateFails(c) ==
  /\ cpc[c] = "execute" /\ pool = "live"
  /\ loop_i < threads_size
  /\ loop_i' = loop_i + 1
  /\ UNCHANGED <<sharedVars, taskVars, workerVars, cpc, carg>>

\* With fewer threads than asked the pool is freed, and tp->threads is read
\* from the freed pool next.
ExecuteReturn(c) ==
  /\ pool = "live"
  /\ loop_i = threads_size
  /\ GoClient(c, "execute",
              IF thread_count # threads_size THEN "execute_free" ELSE "idle")
  /\ pool' = IF thread_count # threads_size THEN "freed" ELSE "live"
  /\ UNCHANGED <<thread_count, queueVars, queue_mtx, taskVars, workerVars,
                 carg, loop_i>>

PoolJoinCall(c) ==
  /\ pool = "live"
  /\ GoClient(c, "idle", "pool_join")
  /\ loop_i' = 0
  /\ UNCHANGED <<sharedVars, taskVars, workerVars, carg>>

PoolJoinThread(c) ==
  /\ cpc[c] = "pool_join" /\ pool = "live"
  /\ loop_i < thread_count
  /\ wpc[loop_i] = "exited"
  /\ loop_i' = loop_i + 1
  /\ UNCHANGED <<sharedVars, taskVars, workerVars, cpc, carg>>

\* Mutant: the last thread is not joined.
PoolJoinReturnEarly(c) ==
  /\ pool = "live"
  /\ loop_i + 1 >= thread_count
  /\ GoClient(c, "pool_join", "idle")
  /\ UNCHANGED <<sharedVars, taskVars, workerVars, carg, loop_i>>

PoolJoinReturn(c) ==
  /\ pool = "live"
  /\ loop_i >= thread_count
  /\ GoClient(c, "pool_join", "idle")
  /\ UNCHANGED <<sharedVars, taskVars, workerVars, carg, loop_i>>

\* No look at the queue, the workers or the mutex.
PoolDelete(c) ==
  /\ cpc[c] = "idle"
  /\ pool = "live"
  /\ pool' = "freed"
  /\ UNCHANGED <<thread_count, queueVars, queue_mtx, taskVars, workerVars,
                 clientVars>>

-----------------------------------------------------------------------------
(* thread_pool_push_task.                                                  *)

\* The guard is the code's own limit, which compares the number of threads
\* with the size of the queue: were it false, the call would return
\* TPOOL_ERR_TOO_MANY_TASKS and change nothing.
PushCall(c, t) ==
  /\ pool = "live"
  /\ thread_count + 1 # TPOOL_MAX_TASKS
  /\ GoClient(c, "idle", "push_lock")
  /\ carg' = [carg EXCEPT ![c] = t]
  /\ UNCHANGED <<sharedVars, taskVars, workerVars, loop_i>>

PushLock(c) ==
  /\ pool = "live"
  /\ queue_mtx = NULL
  /\ GoClient(c, "push_lock", "push_write")
  /\ queue_mtx' = c
  /\ UNCHANGED <<poolMem, queueVars, taskVars, workerVars, carg, loop_i>>

\* Mutant: the count is forgotten.
PushWriteNoCount(c) ==
  /\ pool = "live"
  /\ queue_tail \in Slots
  /\ GoClient(c, "push_write", "push_unlock")
  /\ queue' = [queue EXCEPT ![queue_tail] = carg[c]]
  /\ queue_tail' = queue_tail + 1
  /\ UNCHANGED <<poolMem, queue_head, queue_count, queue_mtx, taskVars,
                 workerVars, carg, loop_i>>

PushWrite(c) ==
  /\ pool = "live"
  /\ queue_tail \in Slots
  /\ GoClient(c, "push_write", "push_unlock")
  /\ queue' = [queue EXCEPT ![queue_tail] = carg[c]]
  /\ queue_tail' = queue_tail + 1
  /\ queue_count' = queue_count + 1
  /\ UNCHANGED <<poolMem, queue_head, queue_mtx, taskVars, workerVars, carg,
                 loop_i>>

PushUnlock(c) ==
  /\ pool = "live"
  /\ GoClient(c, "push_unlock", "idle")
  /\ queue_mtx' = NULL
  /\ UNCHANGED <<poolMem, queueVars, taskVars, workerVars, carg, loop_i>>

-----------------------------------------------------------------------------
(* thread_task_new, thread_task_join and thread_task_delete.               *)

TaskNew(c, t) ==
  /\ cpc[c] = "idle"
  /\ t \notin allocated
  /\ allocated' = allocated \cup {t}
  /\ is_finished' = is_finished \ {t}
  /\ is_running' = is_running \ {t}
  /\ ret' = [ret EXCEPT ![t] = "null"]
  /\ UNCHANGED <<sharedVars, workerVars, clientVars>>

JoinCall(c, t) ==
  /\ GoClient(c, "idle", "join_finished")
  /\ carg' = [carg EXCEPT ![c] = t]
  /\ UNCHANGED <<sharedVars, taskVars, workerVars, loop_i>>

\* while (!task->is_finished || task->is_running): two reads, in this order.
\* A read that keeps the loop at its first read changes nothing.
JoinFinished(c) ==
  /\ carg[c] \in allocated \cap is_finished
  /\ GoClient(c, "join_finished", "join_running")
  /\ UNCHANGED <<sharedVars, taskVars, workerVars, carg, loop_i>>

\* Mutant: while (!task->is_finished) {} only.
JoinRunningIgnored(c) ==
  /\ carg[c] \in allocated
  /\ GoClient(c, "join_running", "join_result")
  /\ UNCHANGED <<sharedVars, taskVars, workerVars, carg, loop_i>>

JoinRunning(c) ==
  /\ carg[c] \in allocated
  /\ GoClient(c, "join_running",
              IF carg[c] \in is_running THEN "join_finished"
                                        ELSE "join_result")
  /\ UNCHANGED <<sharedVars, taskVars, workerVars, carg, loop_i>>

\* The result is copied out and its cell freed; task->ret keeps dangling.
JoinResult(c) ==
  /\ carg[c] \in allocated
  /\ ret[carg[c]] = "held"
  /\ GoClient(c, "join_result", "idle")
  /\ ret' = [ret EXCEPT ![carg[c]] = "freed"]
  /\ UNCHANGED <<sharedVars, allocated, is_finished, is_running, workerVars,
                 carg, loop_i>>

\* A task that is not finished is refused with TPOOL_ERR_HAS_TASKS, which
\* changes nothing.
TaskDelete(c, t) ==
  /\ cpc[c] = "idle"
  /\ t \in allocated \cap is_finished
  /\ allocated' = allocated \ {t}
  /\ UNCHANGED <<sharedVars, is_finished, is_running, ret, workerVars,
                 clientVars>>

-----------------------------------------------------------------------------
\* The steps a client takes inside a call it has made.
ClientStep(c) ==
  \/ ExecuteCreate(c) \/ ExecuteReturn(c)
  \/ PoolJoinThread(c) \/ PoolJoinReturn(c)
  \/ PushLock(c) \/ PushWrite(c) \/ PushUnlock(c)
  \/ JoinFinished(c) \/ JoinRunning(c) \/ JoinResult(c)

-----------------------------------------------------------------------------
(* State functions the properties of the client modules share.             *)

PushPcs == {"push_lock", "push_write", "push_unlock"}
JoinPcs == {"join_finished", "join_running", "join_result"}
RunPcs == {"call", "finish", "stop"}    \* a worker that holds a task
LockPcs == {"take", "unlock"} \cup RunPcs

\* The slots between head and tail: tasks pushed and not yet taken.
Window == queue_head .. queue_tail - 1

\* Whether the next access of a worker is to memory that is there.
WorkerAccessOK(w) ==
  /\ wpc[w] \in {"lock", "take", "unlock"} => pool = "live"
  /\ wpc[w] = "take" /\ queue_count > 0 =>
       queue_head \in Slots /\ queue[queue_head] \in allocated
  /\ wpc[w] \in RunPcs => wtask[w] \in allocated

\* Whether the next access of a client is to memory that is there.
ClientAccessOK(c) ==
  /\ cpc[c] \in PushPcs \cup {"execute", "execute_free", "pool_join"} =>
       pool = "live"
  /\ cpc[c] = "push_write" => queue_tail \in Slots
  /\ cpc[c] \in JoinPcs => carg[c] \in allocated
  /\ cpc[c] = "join_result" => ret[carg[c]] = "held"
=============================================================================
