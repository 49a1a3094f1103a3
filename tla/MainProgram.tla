---------------------------- MODULE MainProgram -----------------------------
(***************************************************************************)
(* The program main() of src/threads/thread_pool.c: one client that        *)
(* creates the pool and the task, pushes it, only then starts the threads, *)
(* joins and deletes the task, joins the threads and deletes the pool.     *)
(* With one task it is that program; with more it is the same program with *)
(* each of its task steps done for every task.                             *)
(***************************************************************************)
EXTENDS PoolClient

\* The workers can loop often enough to take every task.
ASSUME CapacityAssumption ==
  /\ Clients = {Main}
  /\ Cardinality(Tasks) <= threads_size * ITERATION_LIMIT

MainCalls ==
  \/ NewPool
  \/ phase = "ready" /\ \E t \in Tasks : NewTask(t) \/ Push(t)
  \/ (\A t \in Tasks : stage[t] = "pushed") /\ Execute
  \/ phase = "executed" /\ \E t \in Tasks : Join(t) \/ DeleteTask(t)
  \/ (\A t \in Tasks : stage[t] = "deleted") /\ JoinPool
  \/ phase = "joined" /\ DeletePool

MainThread == MainCalls \/ Step(Main)

MainNext == MainThread \/ \E w \in Workers : Work(w)

\* Threads are scheduled, and that is all: no fairness of the mutex.
MainFairness ==
  /\ WF_vars(MainThread)
  /\ \A w \in Workers : WF_vars(Work(w))

MainSpec == Init /\ [][MainNext]_vars /\ MainFairness

-----------------------------------------------------------------------------
\* main returns: no join waits for ever, although the workers stop looping
\* after ITERATION_LIMIT rounds and nobody signals anybody.
Termination == <>(phase = "closed")

\* Every task that main pushed is run to its end, in the order of the pushes.
EveryTaskRuns == Executor!FairSpec

\* At the end nothing is left behind: all tasks are freed, the queue is empty,
\* the mutex is free and all threads have exited.
CleanExit ==
  phase = "closed" =>
    /\ allocated = {} /\ is_running = {} /\ queue_count = 0
    /\ queue_mtx = NULL
    /\ \A w \in Workers : wpc[w] = "exited"

\* Why: the threads are joined after the last task is deleted, and the pool is
\* deleted after the threads are joined.
MainInv ==
  /\ phase \in {"joined", "closed"} => \A t \in Tasks : stage[t] = "deleted"
  /\ phase = "closed" => \A w \in Workers : wpc[w] = "exited"
=============================================================================
