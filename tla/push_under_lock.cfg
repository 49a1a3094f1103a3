\* Two clients that do what test_thread_pool_delete does with one mutex, one
\* worker, two tasks.
CONSTANTS
  c1 = c1
  c2 = c2
  t1 = t1
  t2 = t2
  NULL = NULL
  Clients = {c1, c2}
  Tasks = {t1, t2}
  Main = c1
  Owner <- MCOwner2
  threads_size = 1
  TPOOL_MAX_TASKS = 3
  ITERATION_LIMIT = 3
SPECIFICATION LockSpec
PROPERTY PushUnderLockReturns
CHECK_DEADLOCK FALSE
