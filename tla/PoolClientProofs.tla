-------------------------- MODULE PoolClientProofs --------------------------
(***************************************************************************)
(* Proofs about the thread pool under its contract (PoolClient), for any   *)
(* number of clients, workers, tasks, slots and loops.                     *)
(***************************************************************************)
EXTENDS PoolClient, FiniteSetTheorems, SequenceTheorems, TLAPS

-----------------------------------------------------------------------------
(* Types.                                                                  *)

\* The types, at first and after each kind of step.
LEMMA InitType == Init => TypeOK /\ CounterInv
BY PoolAssumption, ClientAssumption
   DEF Init, PoolInit, TypeOK, CounterInv, CallPcs, WorkerPcs, Stages, Phases

LEMMA TaskCallType ==
  ASSUME TypeOK, CounterInv, NEW t \in Tasks, TaskCall(t)
  PROVE  TypeOK' /\ CounterInv'
<1> USE PoolAssumption, ClientAssumption
    DEF TypeOK, CounterInv, CallPcs, Stages, poolMem, sharedVars, queueVars,
        taskVars, workerVars, clientVars,
        Advance, GoClient
<1>1. CASE NewTask(t)  BY <1>1 DEF NewTask, TaskNew
<1>2. CASE Push(t)  BY <1>2 DEF Push, PushCall
<1>3. CASE Join(t)  BY <1>3 DEF Join, JoinCall
<1>4. CASE DeleteTask(t)  BY <1>4 DEF DeleteTask, TaskDelete
<1>5. QED  BY <1>1, <1>2, <1>3, <1>4 DEF TaskCall

LEMMA PoolCallType ==
  ASSUME TypeOK, CounterInv, PoolCall
  PROVE  TypeOK' /\ CounterInv'
<1> USE PoolAssumption, ClientAssumption
    DEF TypeOK, CounterInv, CallPcs, Phases, poolMem, sharedVars, queueVars,
        taskVars, workerVars, clientVars,
        PhaseStep, GoClient
<1>1. CASE NewPool  BY <1>1 DEF NewPool, PoolNew
<1>2. CASE Execute  BY <1>2 DEF Execute, ExecuteCall
<1>3. CASE JoinPool  BY <1>3 DEF JoinPool, PoolJoinCall
<1>4. CASE DeletePool  BY <1>4 DEF DeletePool, PoolDelete
<1>5. QED  BY <1>1, <1>2, <1>3, <1>4 DEF PoolCall

LEMMA StepType ==
  ASSUME TypeOK, CounterInv, NEW c \in Clients, Step(c)
  PROVE  TypeOK' /\ CounterInv'
<1> USE PoolAssumption, ClientAssumption
    DEF TypeOK, CounterInv, CallPcs, WorkerPcs, Workers, poolMem, sharedVars, queueVars,
        taskVars, workerVars, clientVars, GoClient, Step
<1>1. CASE ExecuteCreate(c)  BY <1>1 DEF ExecuteCreate
<1>2. CASE ExecuteReturn(c)  BY <1>2 DEF ExecuteReturn
<1>3. CASE PoolJoinThread(c)  BY <1>3 DEF PoolJoinThread
<1>4. CASE PoolJoinReturn(c)  BY <1>4 DEF PoolJoinReturn
<1>5. CASE PushLock(c)  BY <1>5 DEF PushLock
<1>6. CASE PushWrite(c)  BY <1>6 DEF PushWrite
<1>7. CASE PushUnlock(c)  BY <1>7 DEF PushUnlock
<1>8. CASE JoinFinished(c)  BY <1>8 DEF JoinFinished
<1>9. CASE JoinRunning(c)  BY <1>9 DEF JoinRunning
<1>10. CASE JoinResult(c)  BY <1>10 DEF JoinResult
<1>11. QED
  BY <1>1, <1>2, <1>3, <1>4, <1>5, <1>6, <1>7, <1>8, <1>9, <1>10
     DEF ClientStep

LEMMA WorkType ==
  ASSUME TypeOK, CounterInv, NEW w \in Workers, Work(w)
  PROVE  TypeOK' /\ CounterInv'
<1> USE PoolAssumption, ClientAssumption
    DEF TypeOK, CounterInv, WorkerPcs, Workers, poolMem, sharedVars, queueVars,
        taskVars, workerVars, clientVars, GoWorker, Work
<1>1. CASE WorkerLock(w)  BY <1>1 DEF WorkerLock
<1>2. CASE WorkerTake(w)  BY <1>2 DEF WorkerTake
<1>3. CASE WorkerEmpty(w)  BY <1>3 DEF WorkerEmpty
<1>4. CASE WorkerCall(w)  BY <1>4 DEF WorkerCall
<1>5. CASE WorkerFinish(w)  BY <1>5 DEF WorkerFinish
<1>6. CASE WorkerStop(w)  BY <1>6 DEF WorkerStop
<1>7. CASE WorkerUnlock(w)
  <2>1. wpc[w] # "exited" /\ counter[w] < ITERATION_LIMIT
    BY <1>7 DEF WorkerUnlock
  <2>2. ITERATION_LIMIT \in Nat /\ counter[w] \in Nat
    OBVIOUS
  <2>3. /\ counter[w] + 1 \in 0 .. ITERATION_LIMIT
        /\ counter[w] + 1 # ITERATION_LIMIT
             => counter[w] + 1 < ITERATION_LIMIT
    BY <2>1, <2>2
  <2>4. TypeOK'
    BY <1>7, <2>3 DEF WorkerUnlock
  <2>5. CounterInv'
    BY <1>7, <2>3 DEF WorkerUnlock
  <2>6. QED  BY <2>4, <2>5
<1>8. QED
  BY <1>1, <1>2, <1>3, <1>4, <1>5, <1>6, <1>7 DEF WorkerStep

LEMMA NextType ==
  TypeOK /\ CounterInv /\ [Next]_vars => TypeOK' /\ CounterInv'
<1> SUFFICES ASSUME TypeOK, CounterInv, [Next]_vars
             PROVE  TypeOK' /\ CounterInv'
  OBVIOUS
<1>1. CASE UNCHANGED vars
  BY <1>1 DEF TypeOK, CounterInv, vars, poolVars, poolMem, sharedVars, queueVars,
        taskVars, workerVars, clientVars
<1>2. CASE Next
  BY <1>2, TaskCallType, PoolCallType, StepType, WorkType DEF Next
<1>3. QED  BY <1>1, <1>2

\* Every variable keeps to its type, and no worker counts past its limit.
THEOREM TypeCorrect == Spec => []TypeOK
<1>1. Spec => [](TypeOK /\ CounterInv)
  BY InitType, NextType, PTL DEF Spec
<1>2. QED  BY <1>1, PTL

-----------------------------------------------------------------------------
(* The inductive invariant IInv.                                           *)

RestInv == MutexInv /\ QueueInv /\ HeldInv /\ TaskInv /\ CallInv /\ PoolInv

\* There are no more admitted tasks than slots.
LEMMA AdmittedCount ==
  ASSUME IInv
  PROVE  /\ Admitted \in SUBSET Tasks /\ IsFiniteSet(Admitted)
         /\ queue_tail <= Cardinality(Tasks)
         /\ Window \subseteq Slots
<1>1. Admitted \in SUBSET Tasks
  BY DEF Admitted
<1>2. IsFiniteSet(Admitted) /\ Cardinality(Admitted) <= Cardinality(Tasks)
  BY <1>1, ClientAssumption, FS_Subset
<1>3. Cardinality(Tasks) \in Nat
  BY ClientAssumption, FS_CardinalityType
<1>4. queue_tail <= Cardinality(Tasks)
  BY <1>2 DEF IInv, QueueInv
<1>5. Window \subseteq Slots
  BY <1>3, <1>4, ClientAssumption, PoolAssumption
     DEF Window, Slots, IInv, TypeOK
<1>6. QED  BY <1>1, <1>2, <1>4, <1>5

\* The invariant holds before the pool is made.
LEMMA InitInv == Init => RestInv
<1> SUFFICES ASSUME Init PROVE RestInv
  OBVIOUS
<1> USE PoolAssumption, ClientAssumption DEF Init, PoolInit
<1>1. MutexInv  BY DEF MutexInv, LockPcs, RunPcs
<1>2. QueueInv
  <2>1. Admitted = {}  BY DEF Admitted
  <2>2. QED  BY <2>1, FS_EmptySet DEF QueueInv, Window
<1>3. HeldInv  BY DEF HeldInv, RunPcs
<1>4. TaskInv  BY DEF TaskInv, Admitted, Held, HeldBy
<1>5. CallInv  BY DEF CallInv, PushPcs, JoinPcs
<1>6. PoolInv  BY DEF PoolInv, PushPcs
<1>7. QED  BY <1>1, <1>2, <1>3, <1>4, <1>5, <1>6 DEF RestInv

\* The steps of a worker.
LEMMA WorkerLockInv ==
  ASSUME IInv, NEW w \in Workers, WorkerLock(w), UNCHANGED <<stage, phase>>
  PROVE  RestInv'
<1> USE PoolAssumption, ClientAssumption
    DEF WorkerLock, GoWorker, poolMem, sharedVars, queueVars,
        taskVars, workerVars, clientVars, IInv, TypeOK
<1>0. Window \subseteq Slots  BY AdmittedCount
<1>a. Admitted' = Admitted  BY DEF Admitted
<1>h. \A u \in Tasks : Held(u)' <=> Held(u)  BY DEF Held, HeldBy, RunPcs
<1>q. \A u \in Tasks : Queued(u)' <=> Queued(u)  BY DEF Queued, Window
<1>1. MutexInv'  BY DEF MutexInv, LockPcs, RunPcs
<1>2. QueueInv'  BY <1>a, <1>h, <1>0 DEF QueueInv, Window, Slots
<1>3. HeldInv'  BY <1>a DEF HeldInv, RunPcs
<1>4. TaskInv'  BY <1>a, <1>h, <1>q DEF TaskInv, JoinPcs
<1>5. CallInv'  BY DEF CallInv, JoinPcs, PushPcs
<1>6. PoolInv'  BY DEF PoolInv, PushPcs, Workers
<1>7. QED  BY <1>1, <1>2, <1>3, <1>4, <1>5, <1>6 DEF RestInv

LEMMA WorkerTakeInv ==
  ASSUME IInv, NEW w \in Workers, WorkerTake(w), UNCHANGED <<stage, phase>>
  PROVE  RestInv'
<1> USE PoolAssumption, ClientAssumption
    DEF WorkerTake, GoWorker, poolMem, sharedVars, queueVars,
        taskVars, workerVars, clientVars, IInv, TypeOK
<1>0. Window \subseteq Slots  BY AdmittedCount
<1> DEFINE q == queue[queue_head]
<1>b. /\ queue_head \in Window /\ queue_head \in Slots
      /\ \A i \in Window' : i \in Window /\ i # queue_head
      /\ \A i \in Window : i # queue_head => i \in Window'
  BY <1>0 DEF QueueInv, Window
<1>c. /\ q \in (Admitted \cap allocated) \ is_finished
      /\ q \in Tasks
      /\ \A i \in Window : i # queue_head => queue[i] # q
  BY <1>b DEF QueueInv
<1>n. \A v \in Workers : wpc[v] \notin RunPcs
  BY DEF MutexInv, LockPcs, RunPcs
<1>a. Admitted' = Admitted  BY DEF Admitted
<1>h. \A u \in Tasks : ~Held(u) /\ (Held(u)' <=> u = q)
  BY <1>n, <1>c DEF Held, HeldBy, RunPcs
<1>q. \A u \in Tasks : Queued(u)' <=> Queued(u) /\ u # q
  BY <1>b, <1>c DEF Queued
<1>1. MutexInv'  BY DEF MutexInv, LockPcs, RunPcs
<1>2. QueueInv'
  <2>1. \A i \in Window' : /\ queue[i] \in (Admitted \cap allocated) \ is_finished
                          /\ queue[i] \in Tasks /\ queue[i] # q
    BY <1>b, <1>c DEF QueueInv
  <2>2. \A i, j \in Window' : queue[i] = queue[j] => i = j
    BY <1>b DEF QueueInv
  <2>3. queue_count' = queue_tail' - queue_head' /\ queue_head' <= queue_tail'
    BY DEF QueueInv
  <2>4. QED  BY <2>1, <2>2, <2>3, <1>a, <1>h DEF QueueInv
<1>3. HeldInv'
  BY <1>a, <1>c, <1>n DEF HeldInv, RunPcs
<1>4. TaskInv'
  BY <1>a, <1>h, <1>q, <1>c DEF TaskInv, JoinPcs
<1>5. CallInv'
  BY <1>c DEF CallInv, JoinPcs, PushPcs
<1>6. PoolInv'  BY DEF PoolInv, PushPcs, Workers
<1>7. QED  BY <1>1, <1>2, <1>3, <1>4, <1>5, <1>6 DEF RestInv

LEMMA WorkerEmptyInv ==
  ASSUME IInv, NEW w \in Workers, WorkerEmpty(w), UNCHANGED <<stage, phase>>
  PROVE  RestInv'
<1> USE PoolAssumption, ClientAssumption
    DEF WorkerEmpty, GoWorker, poolMem, sharedVars, queueVars,
        taskVars, workerVars, clientVars, IInv, TypeOK
<1>0. Window \subseteq Slots  BY AdmittedCount
<1>a. Admitted' = Admitted  BY DEF Admitted
<1>h. \A u \in Tasks : Held(u)' <=> Held(u)  BY DEF Held, HeldBy, RunPcs
<1>q. \A u \in Tasks : Queued(u)' <=> Queued(u)  BY DEF Queued, Window
<1>1. MutexInv'  BY DEF MutexInv, LockPcs, RunPcs
<1>2. QueueInv'  BY <1>a, <1>h, <1>0 DEF QueueInv, Window, Slots
<1>3. HeldInv'  BY <1>a DEF HeldInv, RunPcs
<1>4. TaskInv'  BY <1>a, <1>h, <1>q DEF TaskInv, JoinPcs
<1>5. CallInv'  BY DEF CallInv, JoinPcs, PushPcs
<1>6. PoolInv'  BY DEF PoolInv, PushPcs, Workers
<1>7. QED  BY <1>1, <1>2, <1>3, <1>4, <1>5, <1>6 DEF RestInv

LEMMA WorkerCallInv ==
  ASSUME IInv, NEW w \in Workers, WorkerCall(w), UNCHANGED <<stage, phase>>
  PROVE  RestInv'
<1> USE PoolAssumption, ClientAssumption
    DEF WorkerCall, GoWorker, poolMem, sharedVars, queueVars,
        taskVars, workerVars, clientVars, IInv, TypeOK
<1>0. Window \subseteq Slots  BY AdmittedCount
<1>a. Admitted' = Admitted  BY DEF Admitted
<1>h. \A u \in Tasks : Held(u)' <=> Held(u)  BY DEF Held, HeldBy, RunPcs
<1>q. \A u \in Tasks : Queued(u)' <=> Queued(u)  BY DEF Queued, Window
<1>1. MutexInv'  BY DEF MutexInv, LockPcs, RunPcs
<1>2. QueueInv'  BY <1>a, <1>h, <1>0 DEF QueueInv, Window, Slots
<1>3. HeldInv'  BY <1>a DEF HeldInv, RunPcs
<1>4. TaskInv'  BY <1>a, <1>h, <1>q DEF TaskInv, JoinPcs
<1>5. CallInv'  BY DEF CallInv, JoinPcs, PushPcs
<1>6. PoolInv'  BY DEF PoolInv, PushPcs, Workers
<1>7. QED  BY <1>1, <1>2, <1>3, <1>4, <1>5, <1>6 DEF RestInv

LEMMA WorkerFinishInv ==
  ASSUME IInv, NEW w \in Workers, WorkerFinish(w), UNCHANGED <<stage, phase>>
  PROVE  RestInv'
<1> USE PoolAssumption, ClientAssumption
    DEF WorkerFinish, GoWorker, poolMem, sharedVars, queueVars,
        taskVars, workerVars, clientVars, IInv, TypeOK
<1>0. Window \subseteq Slots  BY AdmittedCount
<1>k. /\ wtask[w] \in Tasks /\ Held(wtask[w])
      /\ wtask[w] \in Admitted \cap allocated \cap is_running
      /\ ret[wtask[w]] = "held"
  BY DEF HeldInv, Held, HeldBy, RunPcs
<1>n. \A v \in Workers : wpc[v] \in RunPcs => v = w
  BY DEF MutexInv, LockPcs, RunPcs
<1>a. Admitted' = Admitted  BY DEF Admitted
<1>h. \A u \in Tasks : Held(u)' <=> Held(u)  BY DEF Held, HeldBy, RunPcs
<1>q. \A u \in Tasks : Queued(u)' <=> Queued(u)  BY DEF Queued, Window
<1>1. MutexInv'  BY DEF MutexInv, LockPcs, RunPcs
<1>2. QueueInv'
  BY <1>a, <1>h, <1>0, <1>k DEF QueueInv, Window
<1>3. HeldInv'
  BY <1>a, <1>k, <1>n DEF HeldInv, RunPcs
<1>4. TaskInv'
  BY <1>a, <1>h, <1>q, <1>k DEF TaskInv, JoinPcs
<1>5. CallInv'
  BY <1>k DEF CallInv, JoinPcs, PushPcs
<1>6. PoolInv'  BY DEF PoolInv, PushPcs, Workers
<1>7. QED  BY <1>1, <1>2, <1>3, <1>4, <1>5, <1>6 DEF RestInv

LEMMA WorkerStopInv ==
  ASSUME IInv, NEW w \in Workers, WorkerStop(w), UNCHANGED <<stage, phase>>
  PROVE  RestInv'
<1> USE PoolAssumption, ClientAssumption
    DEF WorkerStop, GoWorker, poolMem, sharedVars, queueVars,
        taskVars, workerVars, clientVars, IInv, TypeOK
<1>0. Window \subseteq Slots  BY AdmittedCount
<1>k. /\ wtask[w] \in Tasks /\ Held(wtask[w])
      /\ wtask[w] \in Admitted \cap allocated \cap is_running
      /\ ret[wtask[w]] = "held"
  BY DEF HeldInv, Held, HeldBy, RunPcs
<1>n. \A v \in Workers : wpc[v] \in RunPcs => v = w
  BY DEF MutexInv, LockPcs, RunPcs
<1>f. wtask[w] \in is_finished
  BY DEF HeldInv, RunPcs
<1>a. Admitted' = Admitted  BY DEF Admitted
<1>h. \A u \in Tasks : Held(u)' <=> Held(u) /\ u # wtask[w]
  BY <1>k, <1>n DEF Held, HeldBy, RunPcs
<1>q. \A u \in Tasks : Queued(u)' <=> Queued(u)  BY DEF Queued, Window
<1>1. MutexInv'  BY DEF MutexInv, LockPcs, RunPcs
<1>2. QueueInv'
  BY <1>a, <1>h, <1>0, <1>k DEF QueueInv, Window
<1>3. HeldInv'
  BY <1>a, <1>n DEF HeldInv, RunPcs
<1>4. TaskInv'
  BY <1>a, <1>h, <1>q, <1>k, <1>f DEF TaskInv, JoinPcs
<1>5. CallInv'  BY DEF CallInv, JoinPcs, PushPcs
<1>6. PoolInv'  BY DEF PoolInv, PushPcs, Workers
<1>7. QED  BY <1>1, <1>2, <1>3, <1>4, <1>5, <1>6 DEF RestInv

LEMMA WorkerUnlockInv ==
  ASSUME IInv, NEW w \in Workers, WorkerUnlock(w), UNCHANGED <<stage, phase>>
  PROVE  RestInv'
<1> USE PoolAssumption, ClientAssumption
    DEF WorkerUnlock, GoWorker, poolMem, sharedVars, queueVars,
        taskVars, workerVars, clientVars, IInv, TypeOK
<1>0. Window \subseteq Slots  BY AdmittedCount
<1>a. Admitted' = Admitted  BY DEF Admitted
<1>h. \A u \in Tasks : Held(u)' <=> Held(u)  BY DEF Held, HeldBy, RunPcs
<1>q. \A u \in Tasks : Queued(u)' <=> Queued(u)  BY DEF Queued, Window
<1>1. MutexInv'  BY DEF MutexInv, LockPcs, RunPcs
<1>2. QueueInv'  BY <1>a, <1>h, <1>0 DEF QueueInv, Window, Slots
<1>3. HeldInv'  BY <1>a DEF HeldInv, RunPcs
<1>4. TaskInv'  BY <1>a, <1>h, <1>q DEF TaskInv, JoinPcs
<1>5. CallInv'  BY DEF CallInv, JoinPcs, PushPcs
<1>6. PoolInv'  BY DEF PoolInv, PushPcs, Workers
<1>7. QED  BY <1>1, <1>2, <1>3, <1>4, <1>5, <1>6 DEF RestInv

\* The steps inside thread_task_execute and thread_pool_join.
LEMMA ExecuteCreateInv ==
  ASSUME IInv, NEW c \in Clients, ExecuteCreate(c), UNCHANGED <<stage, phase>>
  PROVE  RestInv'
<1> USE PoolAssumption, ClientAssumption
    DEF ExecuteCreate, GoClient, poolMem, sharedVars, queueVars,
        taskVars, workerVars, clientVars, IInv, TypeOK
<1>0. Window \subseteq Slots  BY AdmittedCount
<1>k. c = Main /\ loop_i \in Workers /\ wpc[loop_i] = "none"
  BY DEF CallInv, PoolInv, Workers
<1>a. Admitted' = Admitted  BY DEF Admitted
<1>h. \A u \in Tasks : Held(u)' <=> Held(u)
  BY <1>k DEF Held, HeldBy, RunPcs
<1>q. \A u \in Tasks : Queued(u)' <=> Queued(u)  BY DEF Queued, Window
<1>1. MutexInv'
  BY <1>k DEF MutexInv, LockPcs, RunPcs
<1>2. QueueInv'  BY <1>a, <1>h, <1>0 DEF QueueInv, Window, Slots
<1>3. HeldInv'  BY <1>a DEF HeldInv, RunPcs
<1>4. TaskInv'  BY <1>a, <1>h, <1>q DEF TaskInv, JoinPcs
<1>5. CallInv'  BY DEF CallInv, JoinPcs, PushPcs
<1>6. PoolInv'
  <2>1. phase = "executed" /\ thread_count = loop_i /\ pool = "live"
    BY <1>k DEF PoolInv
  <2>2. \A v \in Workers : v >= loop_i' => wpc'[v] = "none"
    BY <1>k DEF PoolInv, Workers
  <2>3. QED  BY <2>1, <2>2, <1>k DEF PoolInv, PushPcs
<1>7. QED  BY <1>1, <1>2, <1>3, <1>4, <1>5, <1>6 DEF RestInv

LEMMA ExecuteReturnInv ==
  ASSUME IInv, NEW c \in Clients, ExecuteReturn(c), UNCHANGED <<stage, phase>>
  PROVE  RestInv'
<1> USE PoolAssumption, ClientAssumption
    DEF ExecuteReturn, GoClient, poolMem, sharedVars, queueVars,
        taskVars, workerVars, clientVars, IInv, TypeOK
<1>0. Window \subseteq Slots  BY AdmittedCount
<1>k. c = Main /\ phase = "executed" /\ thread_count = threads_size
  BY DEF CallInv, PoolInv
<1>a. Admitted' = Admitted  BY DEF Admitted
<1>h. \A u \in Tasks : Held(u)' <=> Held(u)  BY DEF Held, HeldBy, RunPcs
<1>q. \A u \in Tasks : Queued(u)' <=> Queued(u)  BY DEF Queued, Window
<1>1. MutexInv'  BY DEF MutexInv, LockPcs, RunPcs
<1>2. QueueInv'  BY <1>a, <1>h, <1>0 DEF QueueInv, Window, Slots
<1>3. HeldInv'  BY <1>a DEF HeldInv, RunPcs
<1>4. TaskInv'  BY <1>a, <1>h, <1>q DEF TaskInv, JoinPcs
<1>5. CallInv'
  BY <1>k DEF CallInv, JoinPcs, PushPcs
<1>6. PoolInv'
  BY <1>k DEF PoolInv, PushPcs
<1>7. QED  BY <1>1, <1>2, <1>3, <1>4, <1>5, <1>6 DEF RestInv

LEMMA PoolJoinThreadInv ==
  ASSUME IInv, NEW c \in Clients, PoolJoinThread(c), UNCHANGED <<stage, phase>>
  PROVE  RestInv'
<1> USE PoolAssumption, ClientAssumption
    DEF PoolJoinThread, GoClient, poolMem, sharedVars, queueVars,
        taskVars, workerVars, clientVars, IInv, TypeOK
<1>0. Window \subseteq Slots  BY AdmittedCount
<1>a. Admitted' = Admitted  BY DEF Admitted
<1>h. \A u \in Tasks : Held(u)' <=> Held(u)  BY DEF Held, HeldBy, RunPcs
<1>q. \A u \in Tasks : Queued(u)' <=> Queued(u)  BY DEF Queued, Window
<1>1. MutexInv'  BY DEF MutexInv, LockPcs, RunPcs
<1>2. QueueInv'  BY <1>a, <1>h, <1>0 DEF QueueInv, Window, Slots
<1>3. HeldInv'  BY <1>a DEF HeldInv, RunPcs
<1>4. TaskInv'  BY <1>a, <1>h, <1>q DEF TaskInv, JoinPcs
<1>5. CallInv'  BY DEF CallInv, JoinPcs, PushPcs
<1>6. PoolInv'  BY DEF PoolInv, PushPcs, Workers
<1>7. QED  BY <1>1, <1>2, <1>3, <1>4, <1>5, <1>6 DEF RestInv

LEMMA PoolJoinReturnInv ==
  ASSUME IInv, NEW c \in Clients, PoolJoinReturn(c), UNCHANGED <<stage, phase>>
  PROVE  RestInv'
<1> USE PoolAssumption, ClientAssumption
    DEF PoolJoinReturn, GoClient, poolMem, sharedVars, queueVars,
        taskVars, workerVars, clientVars, IInv, TypeOK
<1>0. Window \subseteq Slots  BY AdmittedCount
<1>a. Admitted' = Admitted  BY DEF Admitted
<1>h. \A u \in Tasks : Held(u)' <=> Held(u)  BY DEF Held, HeldBy, RunPcs
<1>q. \A u \in Tasks : Queued(u)' <=> Queued(u)  BY DEF Queued, Window
<1>1. MutexInv'  BY DEF MutexInv, LockPcs, RunPcs
<1>2. QueueInv'  BY <1>a, <1>h, <1>0 DEF QueueInv, Window, Slots
<1>3. HeldInv'  BY <1>a DEF HeldInv, RunPcs
<1>4. TaskInv'  BY <1>a, <1>h, <1>q DEF TaskInv, JoinPcs
<1>5. CallInv'  BY DEF CallInv, JoinPcs, PushPcs
<1>6. PoolInv'  BY DEF PoolInv, PushPcs, Workers
<1>7. QED  BY <1>1, <1>2, <1>3, <1>4, <1>5, <1>6 DEF RestInv

\* The steps inside thread_pool_push_task.
LEMMA PushLockInv ==
  ASSUME IInv, NEW c \in Clients, PushLock(c), UNCHANGED <<stage, phase>>
  PROVE  RestInv'
<1> USE PoolAssumption, ClientAssumption
    DEF PushLock, GoClient, poolMem, sharedVars, queueVars,
        taskVars, workerVars, clientVars, IInv, TypeOK
<1>0. Window \subseteq Slots  BY AdmittedCount
<1>a. Admitted' = Admitted  BY DEF Admitted
<1>h. \A u \in Tasks : Held(u)' <=> Held(u)  BY DEF Held, HeldBy, RunPcs
<1>q. \A u \in Tasks : Queued(u)' <=> Queued(u)  BY DEF Queued, Window
<1>1. MutexInv'  BY DEF MutexInv, LockPcs, RunPcs
<1>2. QueueInv'  BY <1>a, <1>h, <1>0 DEF QueueInv, Window, Slots
<1>3. HeldInv'  BY <1>a DEF HeldInv, RunPcs
<1>4. TaskInv'  BY <1>a, <1>h, <1>q DEF TaskInv, JoinPcs
<1>5. CallInv'  BY DEF CallInv, JoinPcs, PushPcs
<1>6. PoolInv'  BY DEF PoolInv, PushPcs, Workers
<1>7. QED  BY <1>1, <1>2, <1>3, <1>4, <1>5, <1>6 DEF RestInv

LEMMA PushWriteInv ==
  ASSUME IInv, NEW c \in Clients, PushWrite(c), UNCHANGED <<stage, phase>>
  PROVE  RestInv'
<1> USE PoolAssumption, ClientAssumption
    DEF PushWrite, GoClient, poolMem, sharedVars, queueVars,
        taskVars, workerVars, clientVars, IInv, TypeOK
<1>0. Window \subseteq Slots  BY AdmittedCount
<1>k. /\ carg[c] \in Tasks /\ Owner[carg[c]] = c
      /\ stage[carg[c]] = "pushed" /\ carg[c] \notin Admitted
  BY DEF CallInv, PushPcs, Admitted
<1>b. Window' = Window \cup {queue_tail} /\ queue_tail \notin Window
  BY DEF Window, QueueInv
<1>c. \A i \in Window : queue'[i] = queue[i] /\ queue[i] \in Admitted
  BY <1>0, <1>b DEF QueueInv
<1>d. /\ carg[c] \in allocated /\ carg[c] \notin is_finished
      /\ ~Held(carg[c]) /\ ~Queued(carg[c])
  BY <1>k, <1>c DEF TaskInv, HeldInv, Held, HeldBy, Queued
<1>a. Admitted' = Admitted \cup {carg[c]}
  BY <1>k DEF Admitted
<1>h. \A u \in Tasks : Held(u)' <=> Held(u)  BY DEF Held, HeldBy, RunPcs
<1>q. \A u \in Tasks : Queued(u)' <=> Queued(u) \/ u = carg[c]
  BY <1>b, <1>c DEF Queued
<1>1. MutexInv'  BY DEF MutexInv, LockPcs, RunPcs
<1>2. QueueInv'
  <2>1. queue_tail' = Cardinality(Admitted')
    BY <1>a, <1>k, AdmittedCount, FS_AddElement DEF QueueInv
  <2>2. \A i \in Window' : /\ queue'[i] \in (Admitted' \cap allocated) \ is_finished
                          /\ queue'[i] \in Tasks /\ ~Held(queue'[i])
    BY <1>a, <1>b, <1>c, <1>d, <1>k DEF QueueInv
  <2>3. \A i, j \in Window' : queue'[i] = queue'[j] => i = j
    BY <1>b, <1>c, <1>k DEF QueueInv
  <2>4. queue_count' = queue_tail' - queue_head' /\ queue_head' <= queue_tail'
    BY DEF QueueInv
  <2>5. QED  BY <2>1, <2>2, <2>3, <2>4, <1>h DEF QueueInv
<1>3. HeldInv'  BY <1>a DEF HeldInv, RunPcs
<1>4. TaskInv'  BY <1>a, <1>h, <1>q DEF TaskInv, JoinPcs
<1>5. CallInv'  BY DEF CallInv, JoinPcs, PushPcs
<1>6. PoolInv'  BY DEF PoolInv, PushPcs, Workers
<1>7. QED  BY <1>1, <1>2, <1>3, <1>4, <1>5, <1>6 DEF RestInv

LEMMA PushUnlockInv ==
  ASSUME IInv, NEW c \in Clients, PushUnlock(c), UNCHANGED <<stage, phase>>
  PROVE  RestInv'
<1> USE PoolAssumption, ClientAssumption
    DEF PushUnlock, GoClient, poolMem, sharedVars, queueVars,
        taskVars, workerVars, clientVars, IInv, TypeOK
<1>0. Window \subseteq Slots  BY AdmittedCount
<1>a. Admitted' = Admitted  BY DEF Admitted
<1>h. \A u \in Tasks : Held(u)' <=> Held(u)  BY DEF Held, HeldBy, RunPcs
<1>q. \A u \in Tasks : Queued(u)' <=> Queued(u)  BY DEF Queued, Window
<1>1. MutexInv'  BY DEF MutexInv, LockPcs, RunPcs
<1>2. QueueInv'  BY <1>a, <1>h, <1>0 DEF QueueInv, Window, Slots
<1>3. HeldInv'  BY <1>a DEF HeldInv, RunPcs
<1>4. TaskInv'  BY <1>a, <1>h, <1>q DEF TaskInv, JoinPcs
<1>5. CallInv'  BY DEF CallInv, JoinPcs, PushPcs
<1>6. PoolInv'  BY DEF PoolInv, PushPcs, Workers
<1>7. QED  BY <1>1, <1>2, <1>3, <1>4, <1>5, <1>6 DEF RestInv

\* The steps inside thread_task_join.
LEMMA JoinFinishedInv ==
  ASSUME IInv, NEW c \in Clients, JoinFinished(c), UNCHANGED <<stage, phase>>
  PROVE  RestInv'
<1> USE PoolAssumption, ClientAssumption
    DEF JoinFinished, GoClient, poolMem, sharedVars, queueVars,
        taskVars, workerVars, clientVars, IInv, TypeOK
<1>0. Window \subseteq Slots  BY AdmittedCount
<1>a. Admitted' = Admitted  BY DEF Admitted
<1>h. \A u \in Tasks : Held(u)' <=> Held(u)  BY DEF Held, HeldBy, RunPcs
<1>q. \A u \in Tasks : Queued(u)' <=> Queued(u)  BY DEF Queued, Window
<1>1. MutexInv'  BY DEF MutexInv, LockPcs, RunPcs
<1>2. QueueInv'  BY <1>a, <1>h, <1>0 DEF QueueInv, Window, Slots
<1>3. HeldInv'  BY <1>a DEF HeldInv, RunPcs
<1>4. TaskInv'  BY <1>a, <1>h, <1>q DEF TaskInv, JoinPcs
<1>5. CallInv'  BY DEF CallInv, JoinPcs, PushPcs
<1>6. PoolInv'  BY DEF PoolInv, PushPcs, Workers
<1>7. QED  BY <1>1, <1>2, <1>3, <1>4, <1>5, <1>6 DEF RestInv

LEMMA JoinRunningInv ==
  ASSUME IInv, NEW c \in Clients, JoinRunning(c), UNCHANGED <<stage, phase>>
  PROVE  RestInv'
<1> USE PoolAssumption, ClientAssumption
    DEF JoinRunning, GoClient, poolMem, sharedVars, queueVars,
        taskVars, workerVars, clientVars, IInv, TypeOK
<1>0. Window \subseteq Slots  BY AdmittedCount
<1>a. Admitted' = Admitted  BY DEF Admitted
<1>h. \A u \in Tasks : Held(u)' <=> Held(u)  BY DEF Held, HeldBy, RunPcs
<1>q. \A u \in Tasks : Queued(u)' <=> Queued(u)  BY DEF Queued, Window
<1>1. MutexInv'  BY DEF MutexInv, LockPcs, RunPcs
<1>2. QueueInv'  BY <1>a, <1>h, <1>0 DEF QueueInv, Window, Slots
<1>3. HeldInv'  BY <1>a DEF HeldInv, RunPcs
<1>4. TaskInv'  BY <1>a, <1>h, <1>q DEF TaskInv, JoinPcs
<1>5. CallInv'  BY DEF CallInv, JoinPcs, PushPcs
<1>6. PoolInv'  BY DEF PoolInv, PushPcs, Workers
<1>7. QED  BY <1>1, <1>2, <1>3, <1>4, <1>5, <1>6 DEF RestInv

LEMMA JoinResultInv ==
  ASSUME IInv, NEW c \in Clients, JoinResult(c), UNCHANGED <<stage, phase>>
  PROVE  RestInv'
<1> USE PoolAssumption, ClientAssumption
    DEF JoinResult, GoClient, poolMem, sharedVars, queueVars,
        taskVars, workerVars, clientVars, IInv, TypeOK
<1>0. Window \subseteq Slots  BY AdmittedCount
<1>k. /\ carg[c] \in Tasks /\ Owner[carg[c]] = c
      /\ stage[carg[c]] = "joined" /\ carg[c] \in is_finished \ is_running
  BY DEF CallInv, JoinPcs
<1>a. Admitted' = Admitted  BY DEF Admitted
<1>h. \A u \in Tasks : Held(u)' <=> Held(u)  BY DEF Held, HeldBy, RunPcs
<1>q. \A u \in Tasks : Queued(u)' <=> Queued(u)  BY DEF Queued, Window
<1>1. MutexInv'  BY DEF MutexInv, LockPcs, RunPcs
<1>2. QueueInv'  BY <1>a, <1>h, <1>0 DEF QueueInv, Window, Slots
<1>3. HeldInv'
  BY <1>a, <1>k DEF HeldInv, RunPcs
<1>4. TaskInv'
  BY <1>a, <1>h, <1>q, <1>k DEF TaskInv, JoinPcs
<1>5. CallInv'  BY DEF CallInv, JoinPcs, PushPcs
<1>6. PoolInv'  BY DEF PoolInv, PushPcs, Workers
<1>7. QED  BY <1>1, <1>2, <1>3, <1>4, <1>5, <1>6 DEF RestInv

\* The calls about a task.
LEMMA NewTaskInv ==
  ASSUME IInv, NEW t \in Tasks, NewTask(t)
  PROVE  RestInv'
<1> USE PoolAssumption, ClientAssumption
    DEF NewTask, TaskNew, Advance, GoClient, poolMem, sharedVars, queueVars,
        taskVars, workerVars, clientVars, IInv, TypeOK
<1>0. Window \subseteq Slots  BY AdmittedCount
<1>k. t \notin Admitted /\ ~Held(t) /\ t \notin is_finished
  BY DEF Admitted, TaskInv, HeldInv, Held, HeldBy
<1>a. Admitted' = Admitted  BY DEF Admitted
<1>h. \A u \in Tasks : Held(u)' <=> Held(u)  BY DEF Held, HeldBy, RunPcs
<1>q. \A u \in Tasks : Queued(u)' <=> Queued(u)  BY DEF Queued, Window
<1>1. MutexInv'  BY DEF MutexInv, LockPcs, RunPcs
<1>2. QueueInv'  BY <1>a, <1>h, <1>0 DEF QueueInv, Window, Slots
<1>3. HeldInv'  BY <1>a DEF HeldInv, RunPcs
<1>4. TaskInv'
  BY <1>a, <1>h, <1>q, <1>k DEF TaskInv, JoinPcs
<1>5. CallInv'  BY DEF CallInv, JoinPcs, PushPcs
<1>6. PoolInv'  BY DEF PoolInv, PushPcs, Workers
<1>7. QED  BY <1>1, <1>2, <1>3, <1>4, <1>5, <1>6 DEF RestInv

LEMMA PushInv ==
  ASSUME IInv, NEW t \in Tasks, Push(t)
  PROVE  RestInv'
<1> USE PoolAssumption, ClientAssumption
    DEF Push, PushCall, Advance, GoClient, poolMem, sharedVars, queueVars,
        taskVars, workerVars, clientVars, IInv, TypeOK
<1>0. Window \subseteq Slots  BY AdmittedCount
<1>k. t \notin Admitted /\ t \notin is_finished
  BY DEF Admitted, TaskInv
<1>a. Admitted' = Admitted  BY DEF Admitted
<1>h. \A u \in Tasks : Held(u)' <=> Held(u)  BY DEF Held, HeldBy, RunPcs
<1>q. \A u \in Tasks : Queued(u)' <=> Queued(u)  BY DEF Queued, Window
<1>1. MutexInv'  BY DEF MutexInv, LockPcs, RunPcs
<1>2. QueueInv'  BY <1>a, <1>h, <1>0 DEF QueueInv, Window, Slots
<1>3. HeldInv'  BY <1>a DEF HeldInv, RunPcs
<1>4. TaskInv'
  BY <1>a, <1>h, <1>q, <1>k DEF TaskInv, JoinPcs
<1>5. CallInv'  BY DEF CallInv, JoinPcs, PushPcs
<1>6. PoolInv'  BY DEF PoolInv, PushPcs, Workers
<1>7. QED  BY <1>1, <1>2, <1>3, <1>4, <1>5, <1>6 DEF RestInv

LEMMA JoinInv ==
  ASSUME IInv, NEW t \in Tasks, Join(t)
  PROVE  RestInv'
<1> USE PoolAssumption, ClientAssumption
    DEF Join, JoinCall, Advance, GoClient, poolMem, sharedVars, queueVars,
        taskVars, workerVars, clientVars, IInv, TypeOK
<1>0. Window \subseteq Slots  BY AdmittedCount
<1>a. Admitted' = Admitted  BY DEF Admitted
<1>h. \A u \in Tasks : Held(u)' <=> Held(u)  BY DEF Held, HeldBy, RunPcs
<1>q. \A u \in Tasks : Queued(u)' <=> Queued(u)  BY DEF Queued, Window
<1>1. MutexInv'  BY DEF MutexInv, LockPcs, RunPcs
<1>2. QueueInv'  BY <1>a, <1>h, <1>0 DEF QueueInv, Window, Slots
<1>3. HeldInv'  BY <1>a DEF HeldInv, RunPcs
<1>4. TaskInv'
  <2>1. \A u \in Tasks : stage'[u] \in {"joined", "deleted"} =>
          \/ u \in is_finished' \ is_running'
          \/ cpc'[Owner[u]] \in JoinPcs /\ carg'[Owner[u]] = u
    <3> SUFFICES ASSUME NEW u \in Tasks, stage'[u] \in {"joined", "deleted"},
                        ~(u \in is_finished' \ is_running')
                 PROVE  cpc'[Owner[u]] \in JoinPcs /\ carg'[Owner[u]] = u
      OBVIOUS
    <3>1. CASE u = t  BY <3>1 DEF JoinPcs
    <3>2. CASE u # t
      <4>1. cpc[Owner[u]] \in JoinPcs /\ carg[Owner[u]] = u
        BY <3>2 DEF TaskInv
      <4>2. Owner[u] # Owner[t]
        BY <4>1 DEF JoinPcs
      <4>3. QED  BY <4>1, <4>2
    <3>3. QED  BY <3>1, <3>2
  <2>2. \A u \in Tasks : /\ u \in allocated' <=> stage'[u] \in {"new", "pushed", "joined"}
                        /\ stage'[u] = "pushed" => stage[u] = "pushed"
    BY DEF TaskInv
  <2>3. QED  BY <2>1, <2>2, <1>a, <1>h, <1>q DEF TaskInv
<1>5. CallInv'
  BY DEF TaskInv, CallInv, JoinPcs, PushPcs
<1>6. PoolInv'  BY DEF PoolInv, PushPcs, Workers
<1>7. QED  BY <1>1, <1>2, <1>3, <1>4, <1>5, <1>6 DEF RestInv

LEMMA DeleteTaskInv ==
  ASSUME IInv, NEW t \in Tasks, DeleteTask(t)
  PROVE  RestInv'
<1> USE PoolAssumption, ClientAssumption
    DEF DeleteTask, TaskDelete, Advance, GoClient, poolMem, sharedVars, queueVars,
        taskVars, workerVars, clientVars, IInv, TypeOK
<1>0. Window \subseteq Slots  BY AdmittedCount
<1>k. ~Held(t) /\ t \notin is_running
  BY DEF TaskInv, HeldInv, Held, HeldBy, JoinPcs
<1>a. Admitted' = Admitted  BY DEF Admitted
<1>h. \A u \in Tasks : Held(u)' <=> Held(u)  BY DEF Held, HeldBy, RunPcs
<1>q. \A u \in Tasks : Queued(u)' <=> Queued(u)  BY DEF Queued, Window
<1>1. MutexInv'  BY DEF MutexInv, LockPcs, RunPcs
<1>2. QueueInv'  BY <1>a, <1>h, <1>0 DEF QueueInv, Window, Slots
<1>3. HeldInv'
  BY <1>a, <1>k DEF HeldInv, RunPcs
<1>4. TaskInv'  BY <1>a, <1>h, <1>q DEF TaskInv, JoinPcs
<1>5. CallInv'  BY DEF CallInv, JoinPcs, PushPcs
<1>6. PoolInv'  BY DEF PoolInv, PushPcs, Workers
<1>7. QED  BY <1>1, <1>2, <1>3, <1>4, <1>5, <1>6 DEF RestInv

\* The calls about the pool.
LEMMA NewPoolInv ==
  ASSUME IInv, NewPool
  PROVE  RestInv'
<1> USE PoolAssumption, ClientAssumption
    DEF NewPool, PoolNew, PhaseStep, GoClient, poolMem, sharedVars, queueVars,
        taskVars, workerVars, clientVars, IInv, TypeOK
<1>0. Window \subseteq Slots  BY AdmittedCount
<1>k. Admitted = {} /\ queue_tail = 0 /\ queue_head = 0
  <2>1. Admitted = {}  BY DEF PoolInv, Admitted
  <2>2. QED  BY <2>1, FS_EmptySet DEF QueueInv
<1>a. Admitted' = Admitted  BY DEF Admitted
<1>h. \A u \in Tasks : Held(u)' <=> Held(u)  BY DEF Held, HeldBy, RunPcs
<1>q. \A u \in Tasks : Queued(u)' <=> Queued(u)
  BY <1>k DEF Queued, Window
<1>1. MutexInv'
  BY DEF MutexInv, LockPcs, RunPcs, PoolInv, PushPcs
<1>2. QueueInv'
  BY <1>a, <1>k, FS_EmptySet DEF QueueInv, Window
<1>3. HeldInv'  BY <1>a DEF HeldInv, RunPcs
<1>4. TaskInv'  BY <1>a, <1>h, <1>q DEF TaskInv, JoinPcs
<1>5. CallInv'  BY DEF CallInv, JoinPcs, PushPcs
<1>6. PoolInv'  BY DEF PoolInv, PushPcs, Workers
<1>7. QED  BY <1>1, <1>2, <1>3, <1>4, <1>5, <1>6 DEF RestInv

LEMMA ExecuteInv ==
  ASSUME IInv, Execute
  PROVE  RestInv'
<1> USE PoolAssumption, ClientAssumption
    DEF Execute, ExecuteCall, PhaseStep, GoClient, poolMem, sharedVars, queueVars,
        taskVars, workerVars, clientVars, IInv, TypeOK
<1>0. Window \subseteq Slots  BY AdmittedCount
<1>a. Admitted' = Admitted  BY DEF Admitted
<1>h. \A u \in Tasks : Held(u)' <=> Held(u)  BY DEF Held, HeldBy, RunPcs
<1>q. \A u \in Tasks : Queued(u)' <=> Queued(u)  BY DEF Queued, Window
<1>1. MutexInv'  BY DEF MutexInv, LockPcs, RunPcs
<1>2. QueueInv'  BY <1>a, <1>h, <1>0 DEF QueueInv, Window, Slots
<1>3. HeldInv'  BY <1>a DEF HeldInv, RunPcs
<1>4. TaskInv'  BY <1>a, <1>h, <1>q DEF TaskInv, JoinPcs
<1>5. CallInv'  BY DEF CallInv, JoinPcs, PushPcs
<1>6. PoolInv'  BY DEF PoolInv, PushPcs, Workers
<1>7. QED  BY <1>1, <1>2, <1>3, <1>4, <1>5, <1>6 DEF RestInv

LEMMA JoinPoolInv ==
  ASSUME IInv, JoinPool
  PROVE  RestInv'
<1> USE PoolAssumption, ClientAssumption
    DEF JoinPool, PoolJoinCall, PhaseStep, GoClient, poolMem, sharedVars, queueVars,
        taskVars, workerVars, clientVars, IInv, TypeOK
<1>0. Window \subseteq Slots  BY AdmittedCount
<1>a. Admitted' = Admitted  BY DEF Admitted
<1>h. \A u \in Tasks : Held(u)' <=> Held(u)  BY DEF Held, HeldBy, RunPcs
<1>q. \A u \in Tasks : Queued(u)' <=> Queued(u)  BY DEF Queued, Window
<1>1. MutexInv'  BY DEF MutexInv, LockPcs, RunPcs
<1>2. QueueInv'  BY <1>a, <1>h, <1>0 DEF QueueInv, Window, Slots
<1>3. HeldInv'  BY <1>a DEF HeldInv, RunPcs
<1>4. TaskInv'  BY <1>a, <1>h, <1>q DEF TaskInv, JoinPcs
<1>5. CallInv'  BY DEF CallInv, JoinPcs, PushPcs
<1>6. PoolInv'  BY DEF PoolInv, PushPcs, Workers
<1>7. QED  BY <1>1, <1>2, <1>3, <1>4, <1>5, <1>6 DEF RestInv

LEMMA DeletePoolInv ==
  ASSUME IInv, DeletePool
  PROVE  RestInv'
<1> USE PoolAssumption, ClientAssumption
    DEF DeletePool, PoolDelete, PhaseStep, GoClient, poolMem, sharedVars, queueVars,
        taskVars, workerVars, clientVars, IInv, TypeOK
<1>0. Window \subseteq Slots  BY AdmittedCount
<1>a. Admitted' = Admitted  BY DEF Admitted
<1>h. \A u \in Tasks : Held(u)' <=> Held(u)  BY DEF Held, HeldBy, RunPcs
<1>q. \A u \in Tasks : Queued(u)' <=> Queued(u)  BY DEF Queued, Window
<1>1. MutexInv'  BY DEF MutexInv, LockPcs, RunPcs
<1>2. QueueInv'  BY <1>a, <1>h, <1>0 DEF QueueInv, Window, Slots
<1>3. HeldInv'  BY <1>a DEF HeldInv, RunPcs
<1>4. TaskInv'  BY <1>a, <1>h, <1>q DEF TaskInv, JoinPcs
<1>5. CallInv'  BY DEF CallInv, JoinPcs, PushPcs
<1>6. PoolInv'  BY DEF PoolInv, PushPcs, Workers
<1>7. QED  BY <1>1, <1>2, <1>3, <1>4, <1>5, <1>6 DEF RestInv

\* No step at all.
LEMMA StutterInv ==
  ASSUME IInv, UNCHANGED vars
  PROVE  RestInv'
<1> USE DEF IInv, vars, poolVars, poolMem, sharedVars, queueVars,
        taskVars, workerVars, clientVars
<1>a. Admitted' = Admitted  BY DEF Admitted
<1>h. \A u \in Tasks : Held(u)' <=> Held(u)  BY DEF Held, HeldBy
<1>q. \A u \in Tasks : Queued(u)' <=> Queued(u)  BY DEF Queued, Window
<1>1. MutexInv'  BY DEF MutexInv
<1>2. QueueInv'  BY <1>a DEF QueueInv, Window, Held, HeldBy
<1>3. HeldInv'  BY <1>a DEF HeldInv
<1>4. TaskInv'  BY <1>a, <1>h, <1>q DEF TaskInv
<1>5. CallInv'  BY DEF CallInv
<1>6. PoolInv'  BY DEF PoolInv
<1>7. QED  BY <1>1, <1>2, <1>3, <1>4, <1>5, <1>6 DEF RestInv

\* Every step keeps the invariant.
LEMMA NextInv == IInv /\ [Next]_vars => IInv'
<1> SUFFICES ASSUME IInv, [Next]_vars PROVE IInv'
  OBVIOUS
<1>1. TypeOK' /\ CounterInv'
  BY NextType DEF IInv
<1>2. ASSUME NEW t \in Tasks, TaskCall(t) PROVE RestInv'
  BY <1>2, NewTaskInv, PushInv, JoinInv, DeleteTaskInv DEF TaskCall
<1>3. ASSUME PoolCall PROVE RestInv'
  BY <1>3, NewPoolInv, ExecuteInv, JoinPoolInv, DeletePoolInv DEF PoolCall
<1>4. ASSUME NEW c \in Clients, Step(c) PROVE RestInv'
  BY <1>4, ExecuteCreateInv, ExecuteReturnInv, PoolJoinThreadInv,
     PoolJoinReturnInv, PushLockInv, PushWriteInv, PushUnlockInv,
     JoinFinishedInv, JoinRunningInv, JoinResultInv DEF Step, ClientStep
<1>5. ASSUME NEW w \in Workers, Work(w) PROVE RestInv'
  BY <1>5, WorkerLockInv, WorkerTakeInv, WorkerEmptyInv, WorkerCallInv,
     WorkerFinishInv, WorkerStopInv, WorkerUnlockInv DEF Work, WorkerStep
<1>6. RestInv'
  BY <1>2, <1>3, <1>4, <1>5, StutterInv DEF Next
<1>7. QED  BY <1>1, <1>6 DEF IInv, RestInv

\* The invariant holds in every reachable state, because it holds at the
\* start and every step keeps it.
THEOREM Invariance == Spec => []IInv
<1>1. Init => IInv
  BY InitType, InitInv DEF IInv, RestInv
<1>2. QED  BY <1>1, NextInv, PTL DEF Spec

-----------------------------------------------------------------------------
(* The safety properties.                                                  *)

\* What a worker touches next is allocated.
LEMMA WorkersSafe ==
  ASSUME IInv, NEW w \in Workers
  PROVE  WorkerAccessOK(w)
<1> USE DEF IInv
<1>1. wpc[w] \in {"lock", "take", "unlock"} => pool = "live"
  BY DEF PoolInv
<1>2. queue_count > 0 =>
        queue_head \in Slots /\ queue[queue_head] \in allocated
  BY AdmittedCount DEF QueueInv, Window, TypeOK
<1>3. wpc[w] \in RunPcs => wtask[w] \in allocated
  BY DEF HeldInv
<1>4. QED  BY <1>1, <1>2, <1>3 DEF WorkerAccessOK

\* So is what a client touches next.
LEMMA ClientsSafe ==
  ASSUME IInv, NEW c \in Clients
  PROVE  ClientAccessOK(c)
<1> USE ClientAssumption, PoolAssumption DEF IInv
<1>1. cpc[c] \in PushPcs => pool = "live"
  BY DEF PoolInv
<1>2. cpc[c] \in {"execute", "execute_free", "pool_join"} => pool = "live"
  BY DEF PoolInv, CallInv, TypeOK
<1>3. cpc[c] = "push_write" => queue_tail \in Slots
  <2> SUFFICES ASSUME cpc[c] = "push_write" PROVE queue_tail \in Slots
    OBVIOUS
  <2>1. carg[c] \in Tasks /\ carg[c] \notin Admitted
    BY DEF CallInv, PushPcs, Admitted
  <2>2. Cardinality(Admitted) # Cardinality(Tasks)
    BY <2>1, AdmittedCount, FS_Subset
  <2>3. queue_tail < Cardinality(Tasks)
    BY <2>2, AdmittedCount, FS_CardinalityType DEF QueueInv, TypeOK
  <2>4. QED
    BY <2>3, FS_CardinalityType DEF Slots, TypeOK
<1>4. cpc[c] \in JoinPcs => carg[c] \in allocated
  BY DEF CallInv, TaskInv
<1>5. cpc[c] = "join_result" => ret[carg[c]] = "held"
  BY DEF CallInv, JoinPcs
<1>6. QED  BY <1>1, <1>2, <1>3, <1>4, <1>5 DEF ClientAccessOK

\* No thread ever touches memory that was freed, or leaves the queue array:
\* the frees of pool, task and result all come after the last use.
THEOREM MemorySafety == Spec => []MemorySafe
<1>1. IInv => MemorySafe
  BY WorkersSafe, ClientsSafe DEF MemorySafe
<1>2. QED  BY <1>1, Invariance, PTL

\* queue_mtx serialises the tasks, and is_running says which one runs.
THEOREM Serialisation == Spec => []SerialExecution
<1>1. IInv => SerialExecution
  <2> SUFFICES ASSUME IInv PROVE SerialExecution
    OBVIOUS
  <2>1. \A v, w \in Workers : wpc[v] \in RunPcs /\ wpc[w] \in RunPcs => v = w
    BY DEF IInv, MutexInv, LockPcs
  <2>2. \A t \in Tasks : t \in is_running <=> Held(t)
    BY DEF IInv, TaskInv, HeldInv, Held, HeldBy
  <2>3. QED  BY <2>1, <2>2 DEF SerialExecution
<1>2. QED  BY <1>1, Invariance, PTL

\* No pushed task is lost or run twice, whatever the interleaving.
THEOREM NothingLost == Spec => []NoTaskLost
<1>1. IInv => NoTaskLost
  <2> SUFFICES ASSUME IInv PROVE NoTaskLost
    OBVIOUS
  <2>1. \A t \in Tasks : Queued(t) => ~Held(t) /\ t \notin is_finished
    BY DEF IInv, QueueInv, Queued
  <2>2. \A t \in Admitted : Queued(t) \/ Held(t) \/ t \in is_finished
    BY DEF IInv, TaskInv, Admitted
  <2>3. QED
    BY <2>1, <2>2 DEF NoTaskLost, IInv, QueueInv, Admitted
<1>2. QED  BY <1>1, Invariance, PTL

\* What thread_task_join reads and frees after its busy-wait is the result of
\* a run that is over.
THEOREM JoinedAfterRun == Spec => []JoinAfterRun
<1>1. IInv => JoinAfterRun
  <2> SUFFICES ASSUME IInv, NEW c \in Clients, cpc[c] = "join_result"
               PROVE  /\ carg[c] \in is_finished \ is_running
                      /\ ~Held(carg[c]) /\ ~Queued(carg[c])
                      /\ ret[carg[c]] = "held"
    BY DEF JoinAfterRun
  <2>1. /\ carg[c] \in Tasks /\ carg[c] \in is_finished \ is_running
        /\ ret[carg[c]] = "held"
    BY DEF IInv, CallInv, JoinPcs
  <2>2. ~Held(carg[c])
    BY <2>1 DEF IInv, HeldInv, Held, HeldBy
  <2>3. ~Queued(carg[c])
    BY <2>1 DEF IInv, QueueInv, Queued
  <2>4. QED  BY <2>1, <2>2, <2>3
<1>2. QED  BY <1>1, Invariance, PTL

-----------------------------------------------------------------------------
(* The refinement: each step of PoolClient is a step of SerialExecutor or  *)
(* leaves its variables unchanged.                                         *)

\* The variables of the executor, mapped.
Bar == <<Pending, Running, is_finished>>

\* The queue as a sequence.
LEMMA PendingSeq ==
  ASSUME IInv
  PROVE  /\ Pending \in Seq(Tasks) /\ Len(Pending) = queue_count
         /\ \A i \in 1 .. queue_count :
              /\ queue_head + i - 1 \in Window
              /\ Pending[i] = queue[queue_head + i - 1]
<1>1. queue_count \in Nat /\ queue_head \in Nat /\ queue_tail \in Nat
  BY DEF IInv, TypeOK
<1>2. \A i \in 1 .. queue_count : queue_head + i - 1 \in Window
  BY <1>1 DEF IInv, QueueInv, Window
<1>3. \A i \in 1 .. queue_count : queue[queue_head + i - 1] \in Tasks
  BY <1>2 DEF IInv, QueueInv, Admitted
<1>4. Pending \in [1 .. queue_count -> Tasks]
  BY <1>3 DEF Pending
<1>5. QED  BY <1>1, <1>2, <1>4 DEF Pending

\* What is not queued is not pending.
LEMMA NotPending ==
  ASSUME IInv, NEW t \in Tasks, ~Queued(t)
  PROVE  \A i \in DOMAIN Pending : Pending[i] # t
BY PendingSeq DEF Queued, Pending

\* While the mutex is free, or held by a client, nothing runs.
LEMMA RunningHolder ==
  ASSUME IInv
  PROVE  /\ \A w \in Workers : wpc[w] \in {"call", "finish"} =>
              queue_mtx = w /\ Running = wtask[w]
         /\ (\A w \in Workers : wpc[w] \notin {"call", "finish"}) =>
              Running = NULL
BY DEF IInv, MutexInv, LockPcs, RunPcs, Running

\* The executor has nothing to do at first.
LEMMA InitOrder == Init => Executor!Init
<1> SUFFICES ASSUME Init PROVE Executor!Init
  OBVIOUS
<1>1. Pending = <<>>
  BY DEF Init, PoolInit, Pending
<1>2. Running = NULL /\ is_finished = {}
  BY PoolAssumption DEF Init, PoolInit, Running
<1>3. QED  BY <1>1, <1>2 DEF Executor!Init

\* A push appends its task.
LEMMA PushWriteOrder ==
  ASSUME IInv, IInv', NEW c \in Clients, PushWrite(c), UNCHANGED <<stage, phase>>
  PROVE  Executor!Submit(carg[c])
<1> USE DEF PushWrite, GoClient, poolMem, sharedVars, queueVars,
        taskVars, workerVars, clientVars
<1> DEFINE t == carg[c]
<1>1. /\ t \in Tasks /\ t \notin is_finished /\ ~Queued(t) /\ ~Held(t)
  <2>1. t \in Tasks /\ Owner[t] = c /\ stage[t] = "pushed"
    BY DEF IInv, CallInv, PushPcs
  <2>2. t \notin Admitted
    BY <2>1 DEF Admitted
  <2>3. QED
    BY <2>1, <2>2
       DEF IInv, TaskInv, HeldInv, QueueInv, Held, HeldBy, Queued
<1>2. Running # t
  BY <1>1, PoolAssumption DEF Running, Held, HeldBy, RunPcs
<1>3. Pending' = Append(Pending, t)
  <2>1. queue_count \in Nat /\ queue_count' = queue_count + 1
        /\ queue_tail = queue_head + queue_count /\ queue_head \in Nat
        /\ queue \in [Slots -> Tasks \cup {NULL}]
    BY DEF IInv, TypeOK, QueueInv
  <2>2. \A i \in 1 .. queue_count : Pending'[i] = Pending[i]
    BY <2>1, AdmittedCount, PendingSeq DEF Pending
  <2>3. Pending'[queue_count + 1] = t
    BY <2>1 DEF Pending
  <2>4. Pending' \in Seq(Tasks) /\ Len(Pending') = queue_count + 1
    <3>1. Pending' \in [1 .. queue_count + 1 -> Tasks]
      BY <2>1, <2>2, <2>3, <1>1, PendingSeq, ElementOfSeq DEF Pending
    <3>2. QED  BY <3>1, <2>1
  <2>5. Append(Pending, t) \in Seq(Tasks)
        /\ Len(Append(Pending, t)) = queue_count + 1
        /\ \A i \in 1 .. queue_count : Append(Pending, t)[i] = Pending[i]
        /\ Append(Pending, t)[queue_count + 1] = t
    BY <1>1, PendingSeq, AppendProperties
  <2>6. QED  BY <2>1, <2>2, <2>3, <2>4, <2>5, SeqEqual
<1>4. Running' = Running
  <2>1. \A w \in Workers : queue_mtx # w
    BY PoolAssumption DEF IInv, MutexInv
  <2>2. QED  BY <2>1 DEF Running
<1>5. QED
  BY <1>1, <1>2, <1>3, <1>4, NotPending DEF Executor!Submit

\* A worker takes the oldest.
LEMMA TakeOrder ==
  ASSUME IInv, IInv', NEW w \in Workers, WorkerTake(w),
         UNCHANGED <<stage, phase>>
  PROVE  Executor!Start
<1> USE DEF WorkerTake, GoWorker
<1>1. queue_count \in Nat \ {0} /\ queue_head \in Nat
      /\ wtask \in [Workers -> Tasks \cup {NULL}] /\ wpc \in [Workers -> WorkerPcs]
  BY DEF IInv, TypeOK
<1>2. Pending # <<>> /\ Head(Pending) = queue[queue_head]
  BY <1>1, PendingSeq
<1>3. Running = NULL
  BY RunningHolder DEF IInv, MutexInv, LockPcs, RunPcs
<1>4. Running' = queue[queue_head]
  <2>1. queue_mtx = w  BY DEF IInv, MutexInv, LockPcs
  <2>2. QED  BY <1>1, <2>1 DEF Running
<1>5. Pending' = Tail(Pending)
  <2>1. Pending' \in Seq(Tasks) /\ Len(Pending') = queue_count - 1
        /\ \A i \in 1 .. queue_count - 1 : Pending'[i] = queue[queue_head + i]
    <3>1. \A i \in 1 .. queue_count - 1 : queue[queue_head + i] \in Tasks
      BY <1>1, AdmittedCount DEF IInv, QueueInv, Window, TypeOK
    <3>2. \A i \in 1 .. queue_count - 1 : Pending'[i] = queue[queue_head + i]
      BY <1>1 DEF Pending
    <3>3. Pending' \in [1 .. queue_count - 1 -> Tasks]
      BY <1>1, <3>1, <3>2 DEF Pending
    <3>4. QED  BY <1>1, <3>2, <3>3
  <2>2. Tail(Pending) \in Seq(Tasks) /\ Len(Tail(Pending)) = queue_count - 1
        /\ \A i \in 1 .. queue_count - 1 : Tail(Pending)[i] = Pending[i + 1]
    BY <1>2, PendingSeq, HeadTailProperties
  <2>3. \A i \in 1 .. queue_count - 1 : Pending[i + 1] = queue[queue_head + i]
    BY <1>1, PendingSeq
  <2>4. QED  BY <2>1, <2>2, <2>3, SeqEqual
<1>6. QED  BY <1>2, <1>3, <1>4, <1>5 DEF Executor!Start

\* The task ends when its flag is set.
LEMMA FinishOrder ==
  ASSUME IInv, NEW w \in Workers, WorkerFinish(w)
  PROVE  Executor!Finish
<1> USE DEF WorkerFinish, GoWorker, poolMem, sharedVars, queueVars,
        taskVars, workerVars, clientVars
<1>1. queue_mtx = w /\ Running = wtask[w]
  BY RunningHolder
<1>2. Running # NULL
  BY <1>1, PoolAssumption DEF IInv, HeldInv, RunPcs, Admitted
<1>3. Running' = NULL
  BY <1>1 DEF Running, IInv, TypeOK
<1>4. Pending' = Pending
  BY DEF Pending
<1>5. QED  BY <1>1, <1>2, <1>3, <1>4 DEF Executor!Finish

\* The other steps of a worker stutter: the task is running from the take to
\* the flag, whatever the worker does before and after.
LEMMA WorkOrder ==
  ASSUME IInv, IInv', NEW w \in Workers, Work(w)
  PROVE  [Executor!Next]_Bar
<1> USE DEF GoWorker, poolMem, sharedVars, queueVars,
        taskVars, workerVars, clientVars
<1>1. CASE WorkerTake(w)
  BY <1>1, TakeOrder DEF Work, Executor!Next
<1>2. CASE WorkerFinish(w)
  BY <1>2, FinishOrder DEF Executor!Next
<1>3. CASE WorkerLock(w) \/ WorkerEmpty(w) \/ WorkerCall(w) \/ WorkerStop(w)
           \/ WorkerUnlock(w)
  <2>1. UNCHANGED <<queue, queue_head, queue_count, is_finished, wtask>>
    BY <1>3 DEF WorkerLock, WorkerEmpty, WorkerCall, WorkerStop, WorkerUnlock
  <2>2. Running' = Running
    <3>1. wpc[w] \in {"call", "finish"} => wpc'[w] \in {"call", "finish"}
      BY <1>3 DEF WorkerLock, WorkerEmpty, WorkerCall, WorkerStop,
                  WorkerUnlock, IInv, TypeOK
    <3>2. wpc'[w] \in {"call", "finish"} => wpc[w] \in {"call", "finish"}
      BY <1>3 DEF WorkerLock, WorkerEmpty, WorkerCall, WorkerStop,
                  WorkerUnlock, IInv, TypeOK
    <3>3. \A v \in Workers : v # w => wpc'[v] = wpc[v]
      BY <1>3 DEF WorkerLock, WorkerEmpty, WorkerCall, WorkerStop,
                  WorkerUnlock, IInv, TypeOK
    <3>4. CASE \E v \in Workers : wpc[v] \in {"call", "finish"}
      <4>1. PICK v \in Workers : wpc[v] \in {"call", "finish"}
        BY <3>4
      <4>2. Running = wtask[v] /\ queue_mtx = v
        BY <4>1, RunningHolder
      <4>3. wpc'[v] \in {"call", "finish"}
        BY <3>1, <3>3, <4>1
      <4>4. queue_mtx' = v
        BY <4>3 DEF IInv, MutexInv, LockPcs, RunPcs
      <4>5. QED  BY <2>1, <4>2, <4>3, <4>4 DEF Running
    <3>5. CASE \A v \in Workers : wpc[v] \notin {"call", "finish"}
      BY <3>2, <3>3, <3>5 DEF Running
    <3>6. QED  BY <3>4, <3>5
  <2>3. QED  BY <2>1, <2>2 DEF Pending, Bar
<1>4. QED  BY <1>1, <1>2, <1>3 DEF Work, WorkerStep

\* A client's steps inside a call stutter, but for the write of a push.
LEMMA StepOrder ==
  ASSUME IInv, IInv', NEW c \in Clients, Step(c)
  PROVE  [Executor!Next]_Bar
<1> USE DEF Step, GoClient, poolMem, sharedVars, queueVars,
        taskVars, workerVars, clientVars
<1>1. CASE PushWrite(c)
  <2>1. carg[c] \in Tasks
    BY <1>1 DEF PushWrite, IInv, CallInv, PushPcs
  <2>2. QED  BY <1>1, <2>1, PushWriteOrder DEF Executor!Next
<1>2. CASE ExecuteCreate(c)
  <2>1. loop_i \in Workers /\ wpc[loop_i] = "none"
    BY <1>2 DEF ExecuteCreate, IInv, CallInv, PoolInv, TypeOK, Workers
  <2>2. Running' = Running
    BY <1>2, <2>1 DEF ExecuteCreate, Running, IInv, TypeOK
  <2>3. QED  BY <1>2, <2>2 DEF ExecuteCreate, Pending, Bar
<1>3. CASE PushLock(c) \/ PushUnlock(c)
  <2>1. queue_mtx \notin Workers /\ queue_mtx' \notin Workers
    BY <1>3, PoolAssumption DEF PushLock, PushUnlock, IInv, MutexInv
  <2>2. Running' = Running
    BY <2>1 DEF Running
  <2>3. QED  BY <1>3, <2>2 DEF PushLock, PushUnlock, Pending, Bar
<1>4. CASE ExecuteReturn(c) \/ PoolJoinThread(c) \/ PoolJoinReturn(c)
           \/ JoinFinished(c) \/ JoinRunning(c) \/ JoinResult(c)
  BY <1>4 DEF ExecuteReturn, PoolJoinThread, PoolJoinReturn, JoinFinished,
              JoinRunning, JoinResult, Pending, Running, Bar
<1>5. QED  BY <1>1, <1>2, <1>3, <1>4 DEF ClientStep

\* No call begins or ends a run: a new task has no flag, a new pool no queue.
LEMMA TaskCallOrder ==
  ASSUME IInv, NEW t \in Tasks, TaskCall(t)
  PROVE  UNCHANGED Bar
<1> USE DEF Advance, GoClient, poolMem, sharedVars, queueVars,
        taskVars, workerVars, clientVars
<1>1. CASE NewTask(t)
  <2>1. t \notin is_finished
    BY <1>1 DEF NewTask, IInv, TaskInv, Admitted
  <2>2. QED
    BY <1>1, <2>1 DEF NewTask, TaskNew, IInv, TypeOK, Pending, Running, Bar
<1>2. CASE Push(t) \/ Join(t) \/ DeleteTask(t)
  BY <1>2 DEF Push, PushCall, Join, JoinCall, DeleteTask, TaskDelete,
              Pending, Running, Bar
<1>3. QED  BY <1>1, <1>2 DEF TaskCall

\* Calls about the pool are no steps of the executor.
LEMMA PoolCallOrder ==
  ASSUME IInv, PoolCall
  PROVE  UNCHANGED Bar
<1> USE DEF PhaseStep, GoClient, poolMem, sharedVars, queueVars,
        taskVars, workerVars, clientVars
<1>1. CASE NewPool
  <2>1. Admitted = {}
    BY <1>1 DEF NewPool, IInv, PoolInv, Admitted
  <2>2. queue_count = 0
    BY <2>1, FS_EmptySet DEF IInv, QueueInv, TypeOK
  <2>3. Pending' = Pending
    BY <1>1, <2>2 DEF NewPool, PoolNew, Pending
  <2>4. \A w \in Workers : queue_mtx # w
    BY <1>1 DEF NewPool, PhaseStep, IInv, PoolInv, MutexInv, LockPcs, RunPcs
  <2>5. Running' = Running
    BY <1>1, <2>4, PoolAssumption DEF NewPool, PoolNew, Running
  <2>6. QED  BY <1>1, <2>3, <2>5 DEF NewPool, PoolNew, Bar
<1>2. CASE Execute \/ JoinPool \/ DeletePool
  BY <1>2 DEF Execute, ExecuteCall, JoinPool, PoolJoinCall, DeletePool,
              PoolDelete, Pending, Running, Bar
<1>3. QED  BY <1>1, <1>2 DEF PoolCall

\* Every step is a step of the executor, or none.
LEMMA NextOrder ==
  IInv /\ IInv' /\ [Next]_vars => [Executor!Next]_Executor!vars
<1> SUFFICES ASSUME IInv, IInv', [Next]_vars
             PROVE  [Executor!Next]_Bar
  BY DEF Executor!vars, Bar
<1>1. CASE UNCHANGED vars
  BY <1>1 DEF vars, poolVars, poolMem, sharedVars, queueVars,
        taskVars, workerVars, clientVars, Pending,
              Running, Bar
<1>2. CASE Next
  BY <1>2, TaskCallOrder, PoolCallOrder, StepOrder, WorkOrder DEF Next
<1>3. QED  BY <1>1, <1>2

\* Tasks run in the order in which their pushes took the mutex, each once and
\* one at a time, for any number of clients, workers and tasks.
THEOREM FirstInFirstOut == Spec => RunsInOrder
<1>1. IInv /\ IInv' /\ [Next]_vars => [Executor!Next]_Executor!vars
  BY NextOrder
<1>2. QED
  BY <1>1, InitOrder, Invariance, PTL DEF Spec, RunsInOrder, Executor!Spec
=============================================================================
