\* One client, one worker, one task.
CONSTANTS
  c1 = c1
  c2 = c2
  t1 = t1
  t2 = t2
  NULL = NULL
  Clients = {c1}
  Tasks = {t1}
  Main = c1
  Owner <- MCOwner1
  threads_size = 1
  TPOOL_MAX_TASKS = 3
  ITERATION_LIMIT = 2
SPECIFICATION HeaderSpec
INVARIANT ReusedTaskGivesResult
CHECK_DEADLOCK FALSE
