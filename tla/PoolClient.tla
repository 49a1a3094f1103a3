----------------------------- MODULE PoolClient -----------------------------
(***************************************************************************)
(* The thread pool used by clients that keep the contract the code relies  *)
(* on, which is narrower than the one thread_pool.h states:                *)
(*                                                                         *)
(*   - a task has one owner, and its life is: thread_task_new, pushed      *)
(*     once, joined once, deleted after the join;                          *)
(*   - one client, Main, creates the pool, executes it at most once, joins *)
(*     its threads, and deletes the pool once they have exited (or were    *)
(*     never created), when no push is under way;                          *)
(*   - no more tasks exist than the queue array has slots;                 *)
(*   - pthread_create succeeds.                                            *)
(*                                                                         *)
(* Everything else is free: which client does what, in which order, how    *)
(* the threads interleave, whether a client goes on at all.                *)
(***************************************************************************)
EXTENDS ThreadPool, Sequences

CONSTANTS
  Main,    \* the client that owns the pool
  Owner    \* the client that owns each task

ASSUME ClientAssumption ==
  /\ Main \in Clients
  /\ Owner \in [Tasks -> Clients]
  /\ IsFiniteSet(Tasks)
  /\ Cardinality(Tasks) <= TPOOL_MAX_TASKS

VARIABLES
  stage,   \* how far the owner has got with each task
  phase    \* how far Main has got with the pool

vars == <<poolVars, stage, phase>>

Stages == {"none", "new", "pushed", "joined", "deleted"}
Phases == {"start", "ready", "executed", "joined", "closed"}

Init ==
  /\ PoolInit
  /\ stage = [t \in Tasks |-> "none"]
  /\ phase = "start"

Advance(t, from, to) == stage[t] = from /\ stage' = [stage EXCEPT ![t] = to]
PhaseStep(from, to) == phase \in from /\ phase' = to

-----------------------------------------------------------------------------
\* The calls of the owner of a task.
NewTask(t) ==
  TaskNew(Owner[t], t) /\ Advance(t, "none", "new") /\ UNCHANGED phase
Push(t) ==
  PushCall(Owner[t], t) /\ Advance(t, "new", "pushed") /\ UNCHANGED phase
Join(t) ==
  JoinCall(Owner[t], t) /\ Advance(t, "pushed", "joined") /\ UNCHANGED phase
DeleteTask(t) ==
  TaskDelete(Owner[t], t) /\ Advance(t, "joined", "deleted") /\ UNCHANGED phase

\* The calls of Main on the pool.
NewPool ==
  PoolNew(Main) /\ PhaseStep({"start"}, "ready") /\ UNCHANGED stage
Execute ==
  ExecuteCall(Main) /\ PhaseStep({"ready"}, "executed") /\ UNCHANGED stage
JoinPool ==
  PoolJoinCall(Main) /\ PhaseStep({"executed"}, "joined") /\ UNCHANGED stage
DeletePool ==
  /\ PoolDelete(Main)
  /\ PhaseStep({"ready", "joined"}, "closed")
  /\ \A c \in Clients : cpc[c] \notin PushPcs
  /\ UNCHANGED stage

TaskCall(t) == NewTask(t) \/ Push(t) \/ Join(t) \/ DeleteTask(t)
PoolCall == NewPool \/ Execute \/ JoinPool \/ DeletePool
Step(c) == ClientStep(c) /\ UNCHANGED <<stage, phase>>
Work(w) == WorkerStep(w) /\ UNCHANGED <<stage, phase>>

Next ==
  \/ \E t \in Tasks : TaskCall(t)
  \/ PoolCall
  \/ \E c \in Clients : Step(c)
  \/ \E w \in Workers : Work(w)

Spec == Init /\ [][Next]_vars

-----------------------------------------------------------------------------
\* Tasks whose push has reached the queue.
Admitted ==
  {t \in Tasks : /\ stage[t] \in {"pushed", "joined", "deleted"}
                 /\ ~ /\ cpc[Owner[t]] \in {"push_lock", "push_write"}
                      /\ carg[Owner[t]] = t}

Queued(t) == \E i \in Window : queue[i] = t
HeldBy(w, t) == wpc[w] \in RunPcs /\ wtask[w] = t
Held(t) == \E w \in Workers : HeldBy(w, t)

\* Every variable has values of its kind; no worker counts past the limit.
TypeOK ==
  /\ pool \in {"none", "live", "freed"}
  /\ thread_count \in Nat /\ loop_i \in Nat
  /\ queue \in [Slots -> Tasks \cup {NULL}]
  /\ queue_head \in Nat /\ queue_tail \in Nat /\ queue_count \in Nat
  /\ queue_mtx \in Clients \cup Workers \cup {NULL}
  /\ allocated \in SUBSET Tasks
  /\ is_finished \in SUBSET Tasks
  /\ is_running \in SUBSET Tasks
  /\ ret \in [Tasks -> {"null", "held", "freed"}]
  /\ wpc \in [Workers -> WorkerPcs]
  /\ wtask \in [Workers -> Tasks \cup {NULL}]
  /\ counter \in [Workers -> 0 .. ITERATION_LIMIT]
  /\ cpc \in [Clients -> CallPcs]
  /\ carg \in [Clients -> Tasks \cup {NULL}]
  /\ stage \in [Tasks -> Stages]
  /\ phase \in Phases

\* No thread is about to touch a freed pool or task, to read a result cell
\* that is not there, or to write past the end of the queue array: under the
\* contract no free of thread_pool_delete, thread_task_delete and
\* thread_task_join comes too early.
MemorySafe ==
  /\ \A w \in Workers : WorkerAccessOK(w)
  /\ \A c \in Clients : ClientAccessOK(c)

\* At most one task runs at any time, because process_task keeps queue_mtx
\* across the call of the task's function, and the flag is_running is set for
\* exactly the task some worker holds.
SerialExecution ==
  /\ \A v, w \in Workers : wpc[v] \in RunPcs /\ wpc[w] \in RunPcs => v = w
  /\ \A t \in Tasks : t \in is_running <=> Held(t)

\* A task whose push reached the queue is in exactly one place: waiting in
\* one slot of the window, held by a worker, or finished; queue_count is the
\* number of those that wait.
NoTaskLost ==
  /\ queue_count = queue_tail - queue_head
  /\ \A t \in Admitted :
       \/ Queued(t) /\ ~Held(t) /\ t \notin is_finished
       \/ ~Queued(t) /\ Held(t)
       \/ ~Queued(t) /\ ~Held(t) /\ t \in is_finished
  /\ \A i, j \in Window : queue[i] = queue[j] => i = j
  /\ \A i \in Window : queue[i] \in Admitted

\* A client that has left the busy-wait of thread_task_join holds a task that
\* is through: finished, out of every worker's hands, with its result.
JoinAfterRun ==
  \A c \in Clients : cpc[c] = "join_result" =>
     /\ carg[c] \in is_finished \ is_running
     /\ ~Held(carg[c]) /\ ~Queued(carg[c])
     /\ ret[carg[c]] = "held"

-----------------------------------------------------------------------------
(* The inductive invariant behind the properties above.                    *)

\* A worker that still runs has loops left.
CounterInv ==
  \A w \in Workers : wpc[w] # "exited" => counter[w] < ITERATION_LIMIT

\* The mutex is held by exactly the thread that is between lock and unlock.
MutexInv ==
  /\ \A w \in Workers : wpc[w] \in LockPcs <=> queue_mtx = w
  /\ \A c \in Clients : cpc[c] \in {"push_write", "push_unlock"}
                          <=> queue_mtx = c

\* The window of the array holds distinct admitted tasks that have not run,
\* and the tail has advanced once for every admitted task.
QueueInv ==
  /\ queue_count = queue_tail - queue_head
  /\ queue_head <= queue_tail
  /\ queue_tail = Cardinality(Admitted)
  /\ \A i \in Window : /\ queue[i] \in (Admitted \cap allocated) \ is_finished
                        /\ ~Held(queue[i])
  /\ \A i, j \in Window : queue[i] = queue[j] => i = j

\* What a worker holds is admitted, allocated and flagged running; it is
\* finished, with a result, once the worker has got that far.
HeldInv ==
  \A w \in Workers : wpc[w] \in RunPcs =>
    /\ wtask[w] \in Admitted \cap allocated \cap is_running
    /\ wtask[w] \in is_finished <=> wpc[w] = "stop"
    /\ wpc[w] \in {"finish", "stop"} => ret[wtask[w]] = "held"

\* Where a task is, and what its flags and its owner's progress say of it.
TaskInv ==
  \A t \in Tasks :
    /\ t \in allocated <=> stage[t] \in {"new", "pushed", "joined"}
    /\ t \in is_running => Held(t)
    /\ t \in is_finished => t \in Admitted
    /\ t \in Admitted => Queued(t) \/ Held(t) \/ t \in is_finished
    /\ stage[t] = "pushed" /\ t \in is_finished => ret[t] = "held"
    /\ stage[t] \in {"joined", "deleted"} =>
         \/ t \in is_finished \ is_running
         \/ cpc[Owner[t]] \in JoinPcs /\ carg[Owner[t]] = t

\* The call a client is in is for a task of its own at the right stage.
CallInv ==
  \A c \in Clients :
    /\ cpc[c] \in PushPcs =>
         /\ carg[c] \in Tasks /\ Owner[carg[c]] = c
         /\ stage[carg[c]] = "pushed"
    /\ cpc[c] \in JoinPcs =>
         /\ carg[c] \in Tasks /\ Owner[carg[c]] = c
         /\ stage[carg[c]] = "joined"
         /\ carg[c] \in is_finished => ret[carg[c]] = "held"
    /\ cpc[c] \in {"join_running", "join_result"} => carg[c] \in is_finished
    /\ cpc[c] = "join_result" => carg[c] \notin is_running
    /\ cpc[c] \in {"execute", "pool_join"} => c = Main
    /\ cpc[c] # "execute_free"

\* The pool outlives its workers and every call that uses it.
PoolInv ==
  /\ pool = "none" <=> phase = "start"
  /\ pool = "freed" <=> phase = "closed"
  /\ phase = "start" => \A t \in Tasks : stage[t] \in {"none", "new"}
  /\ \A c \in Clients : cpc[c] \in PushPcs => pool = "live"
  /\ \A w \in Workers : wpc[w] \notin {"none", "exited"} => pool = "live"
  /\ phase \in {"start", "ready"} =>
       thread_count = 0 /\ \A w \in Workers : wpc[w] = "none"
  /\ cpc[Main] = "execute" =>
       /\ phase = "executed" /\ thread_count = loop_i
       /\ loop_i <= threads_size
       /\ \A w \in Workers : w >= loop_i => wpc[w] = "none"
  /\ phase = "executed" /\ cpc[Main] # "execute" => thread_count = threads_size
  /\ phase = "joined" => thread_count = threads_size
  /\ cpc[Main] = "pool_join" =>
       /\ phase = "joined" /\ loop_i <= threads_size
       /\ \A w \in Workers : w < loop_i => wpc[w] = "exited"
  /\ phase = "joined" /\ cpc[Main] # "pool_join" =>
       \A w \in Workers : wpc[w] = "exited"

IInv ==
  /\ TypeOK /\ CounterInv
  /\ MutexInv /\ QueueInv /\ HeldInv /\ TaskInv /\ CallInv /\ PoolInv

-----------------------------------------------------------------------------
(* Liveness.  The scheduler runs every thread that can run, and a client   *)
(* that is inside a call goes on with it; no client has to make a call,    *)
(* and the mutex may favour any thread.                                    *)

Fairness ==
  /\ \A c \in Clients : WF_vars(Step(c))
  /\ \A w \in Workers : WF_vars(Work(w))

FairSpec == Spec /\ Fairness

Expired == \A w \in Workers : wpc[w] = "exited"

\* Once the threads have been started, a join returns, unless every worker
\* has used up its ITERATION_LIMIT loops with the task still in the queue:
\* a task that a worker has taken is always joined.
JoinReturnsOrExpired ==
  \A c \in Clients :
    (cpc[c] \in JoinPcs /\ phase \in {"executed", "joined"})
      ~> (cpc[c] = "idle" \/ (Expired /\ Queued(carg[c])))

\* A push gets the mutex and returns: no worker keeps it for ever, not even
\* one that exits.
PushReturns ==
  \A c \in Clients : cpc[c] \in PushPcs ~> cpc[c] = "idle"

-----------------------------------------------------------------------------
\* The pool implements the serial executor.  A task starts when a worker
\* takes it from the queue and ends when its is_finished flag is set.
Pending == [i \in 1 .. queue_count |-> queue[queue_head + i - 1]]
Running ==
  IF queue_mtx \in Workers /\ wpc[queue_mtx] \in {"call", "finish"}
  THEN wtask[queue_mtx] ELSE NULL

Executor == INSTANCE SerialExecutor
            WITH pending <- Pending, running <- Running, done <- is_finished

\* Tasks run in the order of their pushes, each once, one at a time.
RunsInOrder == Executor!Spec
=============================================================================
