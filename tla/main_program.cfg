\* Three tasks for two workers that loop twice each: one loop to spare.
CONSTANTS
  NULL = NULL
  Clients = {m}
  Tasks = {t1, t2, t3}
  Main = m
  Owner <- MCOwner
  threads_size = 2
  TPOOL_MAX_TASKS = 4
  ITERATION_LIMIT = 2
SPECIFICATION MainSpec
INVARIANTS CleanExit
PROPERTIES Termination EveryTaskRuns
CHECK_DEADLOCK FALSE
