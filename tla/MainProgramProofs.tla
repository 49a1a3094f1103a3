-------------------------- MODULE MainProgramProofs -------------------------
(***************************************************************************)
(* Proofs about the program main() (MainProgram), for any number of        *)
(* workers and of tasks that the workers have loops for.                   *)
(***************************************************************************)
EXTENDS MainProgram, PoolClientProofs

\* main keeps the contract of PoolClient.
LEMMA MainStep == [MainNext]_vars => [Next]_vars
BY ClientAssumption
   DEF MainNext, MainThread, MainCalls, Next, TaskCall, PoolCall

\* Every step of main, or of a worker, keeps MainInv.
LEMMA MainInvStep == IInv /\ MainInv /\ [MainNext]_vars => MainInv'
<1> SUFFICES ASSUME IInv, MainInv, [MainNext]_vars PROVE MainInv'
  OBVIOUS
<1> USE PoolAssumption, ClientAssumption, CapacityAssumption
    DEF MainInv, IInv, TypeOK
<1>1. ASSUME NEW t \in Tasks, phase \in {"ready", "executed"}, TaskCall(t)
      PROVE  MainInv'
  BY <1>1 DEF TaskCall, NewTask, Push, Join, DeleteTask
<1>2. CASE NewPool \/ Execute
  BY <1>2 DEF NewPool, Execute, PhaseStep
<1>3. CASE JoinPool /\ \A t \in Tasks : stage[t] = "deleted"
  BY <1>3 DEF JoinPool, PhaseStep
<1>4. CASE phase = "joined" /\ DeletePool
  BY <1>4 DEF DeletePool, PoolDelete, PhaseStep, PoolInv, workerVars
<1>5. ASSUME NEW w \in Workers, Work(w) PROVE MainInv'
  <2>1. wpc[w] # "exited"
    BY <1>5 DEF Work, WorkerStep, WorkerLock, WorkerTake, WorkerEmpty, WorkerCall,
                WorkerFinish, WorkerStop, WorkerUnlock, GoWorker
  <2>2. phase' = phase /\ stage' = stage
    BY <1>5 DEF Work
  <2>3. QED  BY <2>1, <2>2
<1>6. CASE Step(Main)
  <2>1. phase' = phase /\ stage' = stage
    BY <1>6 DEF Step
  <2>2. wpc' = wpc \/ cpc[Main] = "execute"
    BY <1>6 DEF Step, ClientStep, ExecuteCreate, ExecuteReturn, PoolJoinThread,
                PoolJoinReturn, PushLock, PushWrite, PushUnlock, JoinFinished,
                JoinRunning, JoinResult, workerVars
  <2>3. cpc[Main] = "execute" => phase # "closed"
    BY DEF PoolInv
  <2>4. QED  BY <2>1, <2>2, <2>3
<1>7. CASE UNCHANGED vars
  BY <1>7 DEF vars, poolVars, workerVars
<1>8. QED
  BY <1>1, <1>2, <1>3, <1>4, <1>5, <1>6, <1>7
     DEF MainNext, MainThread, MainCalls, TaskCall

\* What the two invariants say of the end.
LEMMA CleanAtEnd == IInv /\ MainInv => CleanExit
<1> SUFFICES ASSUME IInv, MainInv, phase = "closed"
             PROVE  /\ allocated = {} /\ is_running = {} /\ queue_count = 0
                    /\ queue_mtx = NULL
                    /\ \A w \in Workers : wpc[w] = "exited"
  BY DEF CleanExit
<1> USE PoolAssumption, ClientAssumption, CapacityAssumption
<1>1. /\ \A t \in Tasks : stage[t] = "deleted"
      /\ \A w \in Workers : wpc[w] = "exited"
  BY DEF MainInv
<1>2. allocated = {}
  BY <1>1 DEF IInv, TypeOK, TaskInv
<1>3. is_running = {}
  BY <1>1 DEF IInv, TypeOK, TaskInv, Held, HeldBy, RunPcs
<1>4. queue_count = 0
  <2>1. Window = {}
    BY <1>2 DEF IInv, QueueInv
  <2>2. ~(queue_head < queue_tail)
    BY <2>1 DEF Window, IInv, TypeOK
  <2>3. QED  BY <2>2 DEF IInv, TypeOK, QueueInv
<1>5. queue_mtx = NULL
  <2>1. queue_mtx \notin Workers
    BY <1>1 DEF IInv, MutexInv, LockPcs, RunPcs
  <2>2. queue_mtx \notin Clients
    BY <1>1 DEF IInv, MutexInv, CallInv, PushPcs
  <2>3. QED  BY <2>1, <2>2 DEF IInv, TypeOK
<1>6. QED  BY <1>1, <1>2, <1>3, <1>4, <1>5

\* When main returns nothing is left behind: its tasks are freed, the queue is
\* empty, the mutex is free and the threads have exited.
THEOREM CleanAfterMain == MainSpec => []CleanExit
<1>1. Init => IInv
  BY InitType, InitInv DEF IInv, RestInv
<1>2. Init => MainInv
  BY DEF Init, MainInv
<1>3. IInv /\ MainInv /\ [MainNext]_vars => IInv' /\ MainInv'
  BY MainStep, NextInv, MainInvStep
<1>4. QED  BY <1>1, <1>2, <1>3, CleanAtEnd, PTL DEF MainSpec

\* The tasks of main run one at a time, in the order of their pushes (what is
\* left of EveryTaskRuns is that they do run).
THEOREM MainRunsInOrder == MainSpec => RunsInOrder
<1>1. Init => IInv
  BY InitType, InitInv DEF IInv, RestInv
<1>2. IInv /\ [MainNext]_vars => IInv'
  BY MainStep, NextInv
<1>3. IInv /\ IInv' /\ [MainNext]_vars => [Executor!Next]_Executor!vars
  BY MainStep, NextOrder
<1>4. QED
  BY <1>1, <1>2, <1>3, InitOrder, PTL DEF MainSpec, RunsInOrder, Executor!Spec
=============================================================================
