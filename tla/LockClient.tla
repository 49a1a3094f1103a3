----------------------------- MODULE LockClient -----------------------------
(***************************************************************************)
(* The thread pool with the calls of test_thread_pool_delete of            *)
(* thread_pool_test.c, made by several clients of one pool: a client locks *)
(* the mutex m, pushes a task whose function (task_lock_unlock_f) locks    *)
(* and unlocks m, unlocks m, and joins the task.  The threads of the pool  *)
(* are started first.                                                      *)
(*                                                                         *)
(* The function returns its argument, the address of m.  The join reads it *)
(* as an int and frees it (thread_pool.c:176), which C gives no behaviour: *)
(* JoinResult is no step, and what follows the join is left out.  So is    *)
(* the delete of line 99, which frees the pool under its workers.          *)
(***************************************************************************)
EXTENDS PoolClient

VARIABLES
  m,      \* the client that holds the mutex, or NULL
  taken   \* the clients that have locked it: each does so once (a bound)

lockVars == <<vars, m, taken>>
lock == <<m, taken>>

LockInit == Init /\ m = NULL /\ taken = {}

-----------------------------------------------------------------------------
LockM(c) ==
  /\ cpc[c] = "idle" /\ m = NULL /\ c \notin taken
  /\ m' = c /\ taken' = taken \cup {c} /\ UNCHANGED vars
UnlockM(c) ==
  cpc[c] = "idle" /\ m = c /\ m' = NULL /\ UNCHANGED <<vars, taken>>

PushLocked(t) == m = Owner[t] /\ Push(t) /\ UNCHANGED lock
JoinUnlocked(t) == m # Owner[t] /\ Join(t) /\ UNCHANGED lock

\* task_lock_unlock_f: it waits for m; the lock and the unlock are one step.
LockUnlock(w) ==
  /\ m = NULL
  /\ wtask[w] \in allocated
  /\ GoWorker(w, "call", "finish")
  /\ ret' = [ret EXCEPT ![wtask[w]] = "arg"]
  /\ UNCHANGED <<sharedVars, allocated, is_finished, is_running, wtask,
                 counter, clientVars, stage, phase>>
WorkLocked(w) ==
  (LockUnlock(w) \/ (wpc[w] # "call" /\ Work(w))) /\ UNCHANGED lock

StepLocked(c) == Step(c) /\ UNCHANGED lock
LockNext ==
  \/ (NewPool \/ Execute) /\ UNCHANGED lock
  \/ \E t \in Tasks :
       (NewTask(t) /\ UNCHANGED lock) \/ PushLocked(t) \/ JoinUnlocked(t)
  \/ \E c \in Clients : LockM(c) \/ UnlockM(c) \/ StepLocked(c)
  \/ \E w \in Workers : WorkLocked(w)

\* Every thread that can go on does, and a client that is not inside a call
\* gives m back.
LockSpec ==
  /\ LockInit /\ [][LockNext]_lockVars
  /\ \A c \in Clients : WF_lockVars(StepLocked(c)) /\ WF_lockVars(UnlockM(c))
  /\ \A w \in Workers : WF_lockVars(WorkLocked(w))

-----------------------------------------------------------------------------
\* What line 98 of the test expects: a push made with m held returns, although
\* tasks that wait for m are in the pool.
PushUnderLockReturns ==
  \A c \in Clients : (m = c /\ cpc[c] \in PushPcs) ~> cpc[c] = "idle"
=============================================================================
