\* Two elements; an int of 16 values, so that the capacity reaches the
\* negative half after one to three doublings.
CONSTANTS
  Elements = {e1, e2}
  JUNK = JUNK
  INT = 16
SPECIFICATION Spec
INVARIANTS TypeOK BlockSound
PROPERTY KeepsElements
CHECK_DEADLOCK FALSE
