\* Two clients that follow the header, two workers, two tasks.
CONSTANTS
  c1 = c1
  c2 = c2
  t1 = t1
  t2 = t2
  NULL = NULL
  Clients = {c1, c2}
  Tasks = {t1, t2}
  Main = c1
  Owner <- MCOwner2
  threads_size = 2
  TPOOL_MAX_TASKS = 4
  ITERATION_LIMIT = 2
SPECIFICATION HeaderSpec
INVARIANTS SerialExecution WindowSound
CHECK_DEADLOCK FALSE
