------------------------- MODULE PoolVariantProofs --------------------------
(***************************************************************************)
(* Proofs about HeaderClient, for any number of clients, workers and       *)
(* tasks: what of the pool's safety does not depend on the contract of     *)
(* PoolClient.                                                             *)
(***************************************************************************)
EXTENDS HeaderClient, PoolClientProofs

-----------------------------------------------------------------------------
(* Types.                                                                  *)

\* Every step keeps the types.
LEMMA HeaderType ==
  TypeOK /\ CounterInv /\ [HeaderNext]_vars => TypeOK' /\ CounterInv'
<1> SUFFICES ASSUME TypeOK, CounterInv, [HeaderNext]_vars PROVE TypeOK' /\ CounterInv'
  OBVIOUS
<1>1. ASSUME NEW t \in Tasks, PushAgain(t) \/ JoinEarly(t) \/ DeleteAnyTask(t)
      PROVE  TypeOK' /\ CounterInv'
  <2> USE PoolAssumption, ClientAssumption
      DEF TypeOK, CounterInv, CallPcs, Stages, poolMem, sharedVars, queueVars,
          taskVars, workerVars, clientVars, GoClient
  <2>1. CASE PushAgain(t)  BY <2>1 DEF PushAgain, PushCall
  <2>2. CASE JoinEarly(t)  BY <2>2 DEF JoinEarly, JoinCall
  <2>3. CASE DeleteAnyTask(t)  BY <2>3 DEF DeleteAnyTask, TaskDelete
  <2>4. QED  BY <1>1, <2>1, <2>2, <2>3
<1>2. ASSUME DeleteAnyPool PROVE TypeOK' /\ CounterInv'
  BY <1>2 DEF DeleteAnyPool, PoolDelete, PhaseStep, TypeOK, CounterInv, Phases,
              queueVars, taskVars, workerVars, clientVars
<1>3. ASSUME NEW c \in Clients, ThreadFails(c) PROVE TypeOK' /\ CounterInv'
  BY <1>3 DEF ThreadFails, ExecuteCreateFails, TypeOK, CounterInv, poolMem,
              sharedVars, queueVars, taskVars, workerVars
<1>4. CASE UNCHANGED vars
  BY <1>4, NextType
<1>5. CASE HeaderNext
  BY <1>1, <1>2, <1>3, <1>5, TaskCallType, PoolCallType, StepType, WorkType
     DEF HeaderNext, TaskCall, PoolCall
<1>6. QED  BY <1>4, <1>5

-----------------------------------------------------------------------------
(* The rest of the invariant.                                              *)

HeaderRest ==
  /\ MutexInv /\ WindowSound /\ queue_tail <= TPOOL_MAX_TASKS
  /\ FlagInv /\ UsedInv /\ StartInv

\* The steps of a worker: under the mutex it is alone, and the task it takes
\* is the one at the head.
LEMMA WorkHeader ==
  ASSUME HeaderInv, NEW w \in Workers, Work(w)
  PROVE  HeaderRest'
<1> USE PoolAssumption, ClientAssumption
    DEF GoWorker, poolMem, sharedVars, queueVars, taskVars, workerVars,
        clientVars, HeaderInv, TypeOK, LockPcs, RunPcs, Work
<1>1. CASE WorkerLock(w)
  <2> USE <1>1 DEF WorkerLock
  <2>1. MutexInv'  BY DEF MutexInv
  <2>2. WindowSound' /\ queue_tail' <= TPOOL_MAX_TASKS  BY DEF WindowSound, Window
  <2>3. FlagInv'  BY DEF FlagInv, Held, HeldBy
  <2>4. UsedInv'  BY DEF UsedInv, Window, PushPcs
  <2>5. StartInv'  BY DEF StartInv
  <2>6. QED  BY <2>1, <2>2, <2>3, <2>4, <2>5 DEF HeaderRest
<1>2. CASE WorkerTake(w)
  <2> USE <1>2 DEF WorkerTake
  <2> DEFINE q == queue[queue_head]
  <2>0. /\ queue_head \in Window /\ q \in Tasks
        /\ \A i \in Window' : i \in Window
        /\ \A v \in Workers : wpc[v] \notin RunPcs
    BY DEF WindowSound, Window, MutexInv
  <2>1. MutexInv'  BY DEF MutexInv
  <2>2. WindowSound' /\ queue_tail' <= TPOOL_MAX_TASKS
    <3>1. /\ queue_head < queue_tail /\ queue_head' = queue_head + 1
          /\ queue_count' = queue_tail' - queue_head' /\ queue_tail' = queue_tail
      BY DEF WindowSound
    <3>2. \A i \in Window' : queue'[i] \in Tasks
      BY <2>0 DEF WindowSound
    <3>3. QED  BY <3>1, <3>2 DEF WindowSound
  <2>3. FlagInv'
    <3>1. \A u \in Tasks : ~Held(u) /\ (Held(u)' <=> u = q)
      BY <2>0 DEF Held, HeldBy
    <3>2. QED  BY <2>0, <3>1 DEF FlagInv
  <2>4. UsedInv'  BY <2>0 DEF UsedInv, PushPcs
  <2>5. StartInv'  BY DEF StartInv
  <2>6. QED  BY <2>1, <2>2, <2>3, <2>4, <2>5 DEF HeaderRest
<1>3. CASE WorkerEmpty(w)
  <2> USE <1>3 DEF WorkerEmpty
  <2>1. MutexInv'  BY DEF MutexInv
  <2>2. WindowSound' /\ queue_tail' <= TPOOL_MAX_TASKS  BY DEF WindowSound, Window
  <2>3. FlagInv'  BY DEF FlagInv, Held, HeldBy
  <2>4. UsedInv'  BY DEF UsedInv, Window, PushPcs
  <2>5. StartInv'  BY DEF StartInv
  <2>6. QED  BY <2>1, <2>2, <2>3, <2>4, <2>5 DEF HeaderRest
<1>4. CASE WorkerCall(w)
  <2> USE <1>4 DEF WorkerCall
  <2>1. MutexInv'  BY DEF MutexInv
  <2>2. WindowSound' /\ queue_tail' <= TPOOL_MAX_TASKS  BY DEF WindowSound, Window
  <2>3. FlagInv'  BY DEF FlagInv, Held, HeldBy
  <2>4. UsedInv'  BY DEF UsedInv, Window, PushPcs
  <2>5. StartInv'  BY DEF StartInv
  <2>6. QED  BY <2>1, <2>2, <2>3, <2>4, <2>5 DEF HeaderRest
<1>5. CASE WorkerFinish(w)
  <2> USE <1>5 DEF WorkerFinish
  <2>1. MutexInv'  BY DEF MutexInv
  <2>2. WindowSound' /\ queue_tail' <= TPOOL_MAX_TASKS  BY DEF WindowSound, Window
  <2>3. FlagInv'  BY DEF FlagInv, Held, HeldBy
  <2>4. UsedInv'  BY DEF UsedInv, Window, PushPcs
  <2>5. StartInv'  BY DEF StartInv
  <2>6. QED  BY <2>1, <2>2, <2>3, <2>4, <2>5 DEF HeaderRest
<1>6. CASE WorkerStop(w)
  <2> USE <1>6 DEF WorkerStop
  <2>0. /\ \A v \in Workers : wpc[v] \in RunPcs => v = w
        /\ wtask[w] \in Tasks
    BY DEF MutexInv
  <2>1. MutexInv'  BY DEF MutexInv
  <2>2. WindowSound' /\ queue_tail' <= TPOOL_MAX_TASKS  BY DEF WindowSound, Window
  <2>3. FlagInv'
    <3>1. \A u \in Tasks : ~Held(u)' /\ (Held(u) <=> u = wtask[w])
      BY <2>0 DEF Held, HeldBy
    <3>2. QED  BY <3>1 DEF FlagInv
  <2>4. UsedInv'  BY DEF UsedInv, Window, PushPcs
  <2>5. StartInv'  BY DEF StartInv
  <2>6. QED  BY <2>1, <2>2, <2>3, <2>4, <2>5 DEF HeaderRest
<1>7. CASE WorkerUnlock(w)
  <2> USE <1>7 DEF WorkerUnlock
  <2>1. MutexInv'  BY DEF MutexInv
  <2>2. WindowSound' /\ queue_tail' <= TPOOL_MAX_TASKS  BY DEF WindowSound, Window
  <2>3. FlagInv'  BY DEF FlagInv, Held, HeldBy
  <2>4. UsedInv'  BY DEF UsedInv, Window, PushPcs
  <2>5. StartInv'  BY DEF StartInv
  <2>6. QED  BY <2>1, <2>2, <2>3, <2>4, <2>5 DEF HeaderRest
<1>8. QED
  BY <1>1, <1>2, <1>3, <1>4, <1>5, <1>6, <1>7 DEF WorkerStep

\* The steps of a client inside a call.
LEMMA StepHeader ==
  ASSUME HeaderInv, NEW c \in Clients, Step(c)
  PROVE  HeaderRest'
<1> USE PoolAssumption, ClientAssumption
    DEF GoClient, poolMem, sharedVars, queueVars, taskVars, workerVars,
        clientVars, HeaderInv, TypeOK, Step
<1>1. CASE ExecuteCreate(c)
  <2> USE <1>1 DEF ExecuteCreate
  <2>0. c = Main /\ loop_i \in Workers /\ wpc[loop_i] = "none"
    BY DEF StartInv, Workers
  <2>1. MutexInv'  BY <2>0 DEF MutexInv, LockPcs, RunPcs
  <2>2. WindowSound' /\ queue_tail' <= TPOOL_MAX_TASKS  BY DEF WindowSound, Window
  <2>3. FlagInv'
    <3>1. \A u \in Tasks : Held(u)' <=> Held(u)
      BY <2>0 DEF Held, HeldBy, RunPcs
    <3>2. QED  BY <3>1 DEF FlagInv
  <2>4. UsedInv'  BY <2>0 DEF UsedInv, Window, PushPcs, RunPcs
  <2>5. StartInv'  BY <2>0 DEF StartInv, Workers
  <2>6. QED  BY <2>1, <2>2, <2>3, <2>4, <2>5 DEF HeaderRest
<1>2. CASE PushWrite(c)
  <2> USE <1>2 DEF PushWrite
  <2>0. carg[c] \in Tasks /\ stage[carg[c]] # "none" /\ pool = "live"
    BY DEF UsedInv, PushPcs
  <2>1. MutexInv'  BY DEF MutexInv
  <2>2. /\ queue_tail' = queue_tail + 1 /\ queue_tail \in Slots
        /\ \A i \in Window : queue'[i] = queue[i]
        /\ queue'[queue_tail] = carg[c]
    BY DEF Window, WindowSound, Slots
  <2>3. \A i \in Window' : i \in Window \/ i = queue_tail
    BY DEF Window
  <2>4. WindowSound' /\ queue_tail' <= TPOOL_MAX_TASKS
    BY <2>0, <2>2, <2>3 DEF WindowSound, Slots
  <2>5. FlagInv'  BY DEF FlagInv, Held, HeldBy
  <2>6. UsedInv'  BY <2>0, <2>2, <2>3 DEF UsedInv, PushPcs
  <2>7. StartInv'  BY DEF StartInv, PushPcs
  <2>8. QED  BY <2>1, <2>4, <2>5, <2>6, <2>7 DEF HeaderRest
<1>3. CASE ExecuteReturn(c) \/ PoolJoinThread(c) \/ PoolJoinReturn(c) \/ PushLock(c)
           \/ PushUnlock(c) \/ JoinFinished(c) \/ JoinRunning(c) \/ JoinResult(c)
  <2> USE <1>3 DEF ExecuteReturn, PoolJoinThread, PoolJoinReturn, PushLock, PushUnlock,
        JoinFinished, JoinRunning, JoinResult
  <2>1. MutexInv'  BY DEF MutexInv
  <2>2. WindowSound' /\ queue_tail' <= TPOOL_MAX_TASKS  BY DEF WindowSound, Window
  <2>3. FlagInv'  BY DEF FlagInv, Held, HeldBy
  <2>4. UsedInv'  BY DEF UsedInv, Window, PushPcs
  <2>5. StartInv'
    <3> USE DEF StartInv, PushPcs
    <3>1. CASE ExecuteReturn(c)  BY <3>1
    <3>2. CASE PoolJoinThread(c) \/ PoolJoinReturn(c)
      <4>1. \A x \in Workers : x >= loop_i' => x >= loop_i
        BY <3>2 DEF Workers
      <4>2. QED  BY <3>2, <4>1
    <3>3. CASE PushLock(c) \/ PushUnlock(c)  BY <3>3
    <3>4. CASE JoinFinished(c) \/ JoinRunning(c) \/ JoinResult(c)  BY <3>4
    <3>5. QED  BY <1>3, <3>1, <3>2, <3>3, <3>4
  <2>6. QED  BY <2>1, <2>2, <2>3, <2>4, <2>5 DEF HeaderRest
<1>4. QED
  BY <1>1, <1>2, <1>3 DEF ClientStep

\* The calls for a task.
LEMMA TaskHeader ==
  ASSUME HeaderInv, NEW t \in Tasks,
         NewTask(t) \/ PushAgain(t) \/ Join(t) \/ JoinEarly(t) \/ DeleteAnyTask(t)
  PROVE  HeaderRest'
<1> USE PoolAssumption, ClientAssumption
    DEF GoClient, Advance, poolMem, sharedVars, queueVars, taskVars, workerVars,
        clientVars, HeaderInv, TypeOK
<1>1. CASE NewTask(t)
  <2> USE <1>1 DEF NewTask, TaskNew
  <2>0. ~Held(t)
    BY DEF UsedInv, Held, HeldBy
  <2>1. MutexInv'  BY DEF MutexInv
  <2>2. WindowSound' /\ queue_tail' <= TPOOL_MAX_TASKS  BY DEF WindowSound, Window
  <2>3. FlagInv'
    <3>1. \A u \in Tasks : Held(u)' <=> Held(u)
      BY DEF Held, HeldBy
    <3>2. QED  BY <2>0, <3>1 DEF FlagInv
  <2>4. UsedInv'  BY DEF UsedInv, WindowSound, Window
  <2>5. StartInv'  BY DEF StartInv
  <2>6. QED  BY <2>1, <2>2, <2>3, <2>4, <2>5 DEF HeaderRest
<1>2. CASE PushAgain(t)
  <2> USE <1>2 DEF PushAgain, PushCall
  <2>1. MutexInv'  BY DEF MutexInv
  <2>2. WindowSound' /\ queue_tail' <= TPOOL_MAX_TASKS  BY DEF WindowSound, Window
  <2>3. FlagInv'  BY DEF FlagInv, Held, HeldBy
  <2>4. UsedInv'  BY DEF UsedInv, WindowSound, Window, PushPcs
  <2>5. StartInv'  BY DEF StartInv, PushPcs
  <2>6. QED  BY <2>1, <2>2, <2>3, <2>4, <2>5 DEF HeaderRest
<1>3. CASE Join(t) \/ JoinEarly(t) \/ DeleteAnyTask(t)
  <2> USE <1>3 DEF Join, JoinEarly, JoinCall, DeleteAnyTask, TaskDelete
  <2>1. MutexInv'  BY DEF MutexInv
  <2>2. WindowSound' /\ queue_tail' <= TPOOL_MAX_TASKS  BY DEF WindowSound, Window
  <2>3. FlagInv'  BY DEF FlagInv, Held, HeldBy
  <2>4. UsedInv'  BY DEF UsedInv, WindowSound, Window, PushPcs
  <2>5. StartInv'  BY DEF StartInv, PushPcs
  <2>6. QED  BY <2>1, <2>2, <2>3, <2>4, <2>5 DEF HeaderRest
<1>4. QED  BY <1>1, <1>2, <1>3

\* The calls for the pool.
LEMMA PoolHeader ==
  ASSUME HeaderInv,
         NewPool \/ Execute \/ JoinPool \/ DeleteAnyPool \/ \E c \in Clients : ThreadFails(c)
  PROVE  HeaderRest'
<1> USE PoolAssumption, ClientAssumption
    DEF GoClient, PhaseStep, poolMem, sharedVars, queueVars, taskVars, workerVars,
        clientVars, HeaderInv, TypeOK
<1>1. CASE NewPool
  <2> USE <1>1 DEF NewPool, PoolNew
  <2>1. MutexInv'  BY DEF MutexInv, StartInv, PushPcs, LockPcs, RunPcs
  <2>2. Window' = {}
    BY DEF Window
  <2>3. WindowSound' /\ queue_tail' <= TPOOL_MAX_TASKS  BY <2>2 DEF WindowSound
  <2>4. FlagInv'  BY DEF FlagInv, Held, HeldBy
  <2>5. UsedInv'  BY <2>2 DEF UsedInv
  <2>6. StartInv'  BY DEF StartInv, PushPcs
  <2>7. QED  BY <2>1, <2>3, <2>4, <2>5, <2>6 DEF HeaderRest
<1>2. CASE Execute \/ JoinPool \/ DeleteAnyPool \/ \E c \in Clients : ThreadFails(c)
  <2> USE <1>2 DEF Execute, ExecuteCall, JoinPool, PoolJoinCall, DeleteAnyPool, PoolDelete,
        ThreadFails, ExecuteCreateFails
  <2>1. MutexInv'  BY DEF MutexInv
  <2>2. WindowSound' /\ queue_tail' <= TPOOL_MAX_TASKS  BY DEF WindowSound, Window
  <2>3. FlagInv'  BY DEF FlagInv, Held, HeldBy
  <2>4. UsedInv'  BY DEF UsedInv, Window, PushPcs
  <2>5. StartInv'
    <3> USE DEF StartInv, PushPcs
    <3>1. CASE Execute  BY <3>1
    <3>2. CASE JoinPool \/ DeleteAnyPool  BY <3>2
    <3>3. ASSUME NEW c \in Clients, ThreadFails(c) PROVE StartInv'
      <4>1. \A x \in Workers : x >= loop_i' => x >= loop_i
        BY <3>3 DEF Workers
      <4>2. QED  BY <3>3, <4>1
    <3>4. QED  BY <1>2, <3>1, <3>2, <3>3
  <2>6. QED  BY <2>1, <2>2, <2>3, <2>4, <2>5 DEF HeaderRest
<1>3. QED  BY <1>1, <1>2

\* No step at all.
LEMMA StutterHeader ==
  ASSUME HeaderInv, UNCHANGED vars
  PROVE  HeaderRest'
<1> USE DEF HeaderInv, vars, poolVars, poolMem, sharedVars, queueVars, taskVars,
        workerVars, clientVars
<1>1. MutexInv'  BY DEF MutexInv
<1>2. WindowSound' /\ queue_tail' <= TPOOL_MAX_TASKS  BY DEF WindowSound, Window
<1>3. FlagInv'  BY DEF FlagInv, Held, HeldBy
<1>4. UsedInv'  BY DEF UsedInv, Window
<1>5. StartInv'  BY DEF StartInv
<1>6. QED  BY <1>1, <1>2, <1>3, <1>4, <1>5 DEF HeaderRest

\* The invariant holds before the pool is made.
LEMMA InitHeader == Init => HeaderInv
<1> SUFFICES ASSUME Init PROVE HeaderInv
  OBVIOUS
<1> USE PoolAssumption, ClientAssumption DEF Init, PoolInit
<1>1. TypeOK /\ CounterInv
  BY InitType
<1>2. MutexInv  BY DEF MutexInv, LockPcs, RunPcs
<1>3. WindowSound /\ queue_tail <= TPOOL_MAX_TASKS  BY DEF WindowSound, Window
<1>4. FlagInv  BY DEF FlagInv, Held, HeldBy, RunPcs
<1>5. UsedInv  BY DEF UsedInv, Window, RunPcs, PushPcs
<1>6. StartInv  BY DEF StartInv, PushPcs
<1>7. QED  BY <1>1, <1>2, <1>3, <1>4, <1>5, <1>6 DEF HeaderInv

\* Every step keeps the invariant.
LEMMA NextHeader == HeaderInv /\ [HeaderNext]_vars => HeaderInv'
<1> SUFFICES ASSUME HeaderInv, [HeaderNext]_vars PROVE HeaderInv'
  OBVIOUS
<1>1. TypeOK' /\ CounterInv'
  BY HeaderType DEF HeaderInv
<1>2. CASE HeaderNext
  <2>1. HeaderRest'
    BY <1>2, WorkHeader, StepHeader, TaskHeader, PoolHeader DEF HeaderNext
  <2>2. QED  BY <1>1, <2>1 DEF HeaderInv, HeaderRest
<1>3. CASE UNCHANGED vars
  BY <1>1, <1>3, StutterHeader DEF HeaderInv, HeaderRest
<1>4. QED  BY <1>2, <1>3

\* The invariant is one under the header's rules too.
THEOREM HeaderInvariance == HeaderSpec => []HeaderInv
BY InitHeader, NextHeader, PTL DEF HeaderSpec

\* Whatever its clients do, the counters of thread_pool_push_task and
\* process_task describe a window of the array that holds tasks only.
THEOREM WindowIsSound == HeaderSpec => []WindowSound
<1>1. HeaderInv => WindowSound
  BY DEF HeaderInv
<1>2. QED  BY <1>1, HeaderInvariance, PTL

\* Whatever its clients do, queue_mtx serialises the tasks, and is_running says
\* which one runs.
THEOREM SerialAnyway == HeaderSpec => []SerialExecution
<1>1. HeaderInv => SerialExecution
  <2> SUFFICES ASSUME HeaderInv PROVE SerialExecution
    OBVIOUS
  <2>1. \A v, w \in Workers : wpc[v] \in RunPcs /\ wpc[w] \in RunPcs => v = w
    BY DEF HeaderInv, MutexInv, LockPcs
  <2>2. QED  BY <2>1 DEF HeaderInv, FlagInv, SerialExecution
<1>2. QED  BY <1>1, HeaderInvariance, PTL
=============================================================================
