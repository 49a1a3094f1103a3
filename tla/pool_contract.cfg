\* Two clients, two workers, two tasks, two loops per worker.
CONSTANTS
  c1 = c1
  c2 = c2
  t1 = t1
  t2 = t2
  t3 = t3
  NULL = NULL
  Clients = {c1, c2}
  Tasks = {t1, t2}
  Main = c1
  Owner <- MCOwner2
  threads_size = 2
  TPOOL_MAX_TASKS = 4
  ITERATION_LIMIT = 2
SPECIFICATION FairSpec
INVARIANTS TypeOK MemorySafe SerialExecution NoTaskLost JoinAfterRun
PROPERTIES RunsInOrder JoinReturnsOrExpired PushReturns
CHECK_DEADLOCK FALSE
