\* Eleven command lines, among them pipes of three commands, and failing execs,
\* opens, pipes and forks.
CONSTANTS
  node <- MCnode
  Roots <- MCRoots
  Reads <- MCReads
  Floods <- MCFloods
  OPEN_MAX = 5
SPECIFICATION Spec
INVARIANTS TypeOK EachOnce Wired NoEndKept NoOrphans
PROPERTIES  CleanLineEnds
CHECK_DEADLOCK FALSE
