\* Six descriptor numbers, every set of them open at the call; a stack for
\* numbers up to 4.
CONSTANTS
  NULL = NULL
  OPEN_MAX = 6
  CAPACITY = 5
SPECIFICATION Spec
INVARIANTS TypeOK PushesAscend StackHasDups DamageBounded
PROPERTY Returns
CHECK_DEADLOCK FALSE
