---------------------------- MODULE HeaderClient ----------------------------
(***************************************************************************)
(* The thread pool used by clients that rely on what thread_pool.h and     *)
(* thread_pool_test.c say, which is wider than the contract of PoolClient: *)
(* a joined task may be pushed again, a task may be joined before it was   *)
(* pushed and deleted at any time, the pool may be deleted at any time,    *)
(* because each of these calls is documented to return an error code when  *)
(* it comes too early.  Threads may fail to start.                         *)
(* The owner of a task is still the only client that uses it.              *)
(***************************************************************************)
EXTENDS PoolClient

\* Task calls.  A join before the push leaves the task as it is.
PushAgain(t) ==
  /\ PushCall(Owner[t], t)
  /\ stage[t] \in {"new", "joined"}
  /\ stage' = [stage EXCEPT ![t] = "pushed"]
  /\ UNCHANGED phase
JoinEarly(t) ==
  /\ JoinCall(Owner[t], t)
  /\ stage[t] = "new"
  /\ UNCHANGED <<stage, phase>>
DeleteAnyTask(t) ==
  /\ TaskDelete(Owner[t], t)
  /\ stage' = [stage EXCEPT ![t] = "deleted"]
  /\ UNCHANGED phase

\* Pool calls.
DeleteAnyPool ==
  PoolDelete(Main) /\ PhaseStep({"ready", "executed", "joined"}, "closed")
                   /\ UNCHANGED stage
ThreadFails(c) == ExecuteCreateFails(c) /\ UNCHANGED <<stage, phase>>

HeaderNext ==
  \/ \E t \in Tasks : NewTask(t) \/ PushAgain(t) \/ Join(t) \/ JoinEarly(t)
                      \/ DeleteAnyTask(t)
  \/ NewPool \/ Execute \/ JoinPool \/ DeleteAnyPool
  \/ \E c \in Clients : Step(c) \/ ThreadFails(c)
  \/ \E w \in Workers : Work(w)

HeaderSpec == Init /\ [][HeaderNext]_vars

-----------------------------------------------------------------------------
\* What survives any use: the queue's counters describe its window, and each
\* slot of the window holds a task (the head never overtakes the tail).
WindowSound ==
  /\ queue_count = queue_tail - queue_head
  /\ 0 <= queue_head /\ queue_head <= queue_tail
  /\ \A i \in Window : queue[i] \in Tasks

-----------------------------------------------------------------------------
(* The inductive invariant behind WindowSound, and behind SerialExecution  *)
(* under the header's rules: neither depends on the contract.              *)

\* is_running is set for the task a worker holds.
FlagInv == \A t \in Tasks : t \in is_running <=> Held(t)

\* Nothing that has not been created yet is in the pool or on its way there.
UsedInv ==
  /\ \A i \in Window : stage[queue[i]] # "none"
  /\ \A w \in Workers :
       wpc[w] \in RunPcs => wtask[w] \in Tasks /\ stage[wtask[w]] # "none"
  /\ \A c \in Clients :
       cpc[c] \in PushPcs => carg[c] \in Tasks /\ stage[carg[c]] # "none"

\* The pool starts with no one in it, and each thread is created once.
StartInv ==
  /\ pool = "none" <=> phase = "start"
  /\ phase = "start" => \A c \in Clients : cpc[c] \notin PushPcs
  /\ phase \in {"start", "ready"} => \A w \in Workers : wpc[w] = "none"
  /\ \A c \in Clients : cpc[c] = "execute" =>
       c = Main /\ phase = "executed" /\ \A w \in Workers : w >= loop_i => wpc[w] = "none"

HeaderInv ==
  /\ TypeOK /\ CounterInv /\ MutexInv /\ WindowSound /\ queue_tail <= TPOOL_MAX_TASKS
  /\ FlagInv /\ UsedInv /\ StartInv

-----------------------------------------------------------------------------
(* Claims of the header and the tests.                                     *)

\* A joined task can be reused: pushed again, its next join waits for the
\* next run and returns the result of that run.
ReusedTaskGivesResult ==
  \A c \in Clients : cpc[c] = "join_result" => ret[carg[c]] = "held"

\* thread_task_delete returns TPOOL_ERR_TASK_IN_POOL while the pool still
\* uses the task.
DeletedTaskNotInPool ==
  \A w \in Workers : wpc[w] \in RunPcs => wtask[w] \in allocated
=============================================================================
