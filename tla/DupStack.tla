------------------------------ MODULE DupStack ------------------------------
(***************************************************************************)
(* dup2_impl of src/shell/mydup2.c: dup2 made of dup and close.  It closes *)
(* newfd, calls dup(oldfd) until dup returns newfd, and closes the         *)
(* descriptors it got on the way, which it has pushed on a stack.          *)
(*                                                                         *)
(* stack_pop reads data[size] before it decrements size: the first pop     *)
(* returns what malloc happened to leave above the top, and data[0] is     *)
(* never popped.  A push on a full stack writes through a pointer that     *)
(* realloc has moved, and is no step here.                                 *)
(***************************************************************************)
EXTENDS Integers, SequencesExt

CONSTANTS
  OPEN_MAX,   \* how many descriptors the process may have
  CAPACITY,   \* of the stack (64)
  NULL

Numbers == 0 .. OPEN_MAX - 1

ASSUME DupStackAssumption ==
  /\ OPEN_MAX \in Nat \ {0} /\ CAPACITY \in Nat \ {0}
  /\ NULL \notin Numbers

VARIABLES
  oldfd, newfd,  \* the arguments
  fds,           \* the descriptor table: the open file of each number, or NULL
  data, size,    \* the stack: what has been written to data, and its size
  ret,           \* the value returned
  at,            \* where the call is
  before         \* the table when it was called, which names the open files

vars == <<oldfd, newfd, fds, data, size, ret, at, before>>
args == <<oldfd, newfd, before>>

\* The caller asks for a number the stack has room to reach.
Init ==
  /\ before \in {[d \in Numbers |-> IF d \in s THEN d ELSE NULL] :
                   s \in SUBSET Numbers}
  /\ oldfd \in Numbers \cup {-1}
  /\ newfd \in {d \in Numbers : d < CAPACITY} \cup {-1}
  /\ fds = before /\ data = <<>> /\ size = 0 /\ ret = -1 /\ at = "start"

-----------------------------------------------------------------------------
\* dup: the lowest number that is free; close: it becomes free.
Free == {d \in Numbers : fds[d] = NULL}
Dup(d) == [fds EXCEPT ![Min(Free)] = fds[d]]
Shut(d) == [d2 \in Numbers |-> IF d2 = d THEN NULL ELSE fds[d2]]

Return(value) ==
  /\ at' = "done" /\ ret' = value
  /\ UNCHANGED <<args, data, size>>

\* A negative argument; the same number twice, open or not.
Refuse ==
  at = "start" /\ (newfd < 0 \/ oldfd < 0) /\ Return(-1) /\ UNCHANGED fds
Same ==
  /\ at = "start" /\ newfd >= 0 /\ oldfd = newfd
  /\ Return(newfd) /\ UNCHANGED fds

\* The first dup and its close: oldfd is open and the table has a free place.
Probes == at = "start" /\ newfd >= 0 /\ oldfd >= 0 /\ oldfd # newfd
CanDup == fds[oldfd] # NULL /\ Free # {}
ProbeFails == Probes /\ ~CanDup /\ Return(-1) /\ UNCHANGED fds
Probed ==
  /\ Probes /\ CanDup
  /\ at' = "close" /\ UNCHANGED <<args, data, size, ret>>

\* Mutant: the descriptor of the probe is not closed.
ProbeKeeps == Probed /\ fds' = Dup(oldfd)
Probe == Probed /\ UNCHANGED fds

\* Mutant: newfd is left open.
CloseNewNot ==
  at = "close" /\ at' = "dup" /\ UNCHANGED <<args, fds, data, size, ret>>

\* close(newfd): EBADF is ignored; on another error the number is free too.
CloseNew ==
  /\ at = "close"
  /\ fds' = Shut(newfd) /\ at' = "dup"
  /\ UNCHANGED <<args, data, size, ret>>
CloseFails ==
  /\ at = "close" /\ fds[newfd] # NULL
  /\ Return(-1) /\ fds' = Shut(newfd)

\* stack_push, as long as it need not grow the stack.
Push(fd) == size < CAPACITY /\ data' = Append(data, fd) /\ size' = size + 1

\* The loop: dup returns another number, which is pushed, or newfd.
DupOther ==
  /\ at = "dup" /\ Free # {} /\ Min(Free) # newfd
  /\ fds' = Dup(oldfd) /\ Push(Min(Free))
  /\ UNCHANGED <<args, ret, at>>
DupNew ==
  /\ at = "dup" /\ Free # {} /\ Min(Free) = newfd
  /\ fds' = Dup(oldfd) /\ at' = "unwind"
  /\ UNCHANGED <<args, data, size, ret>>

\* What stack_pop may return: it reads one past the top, which at the first pop
\* nobody has written (-1 stands for all that is no descriptor number).
Popped ==
  IF size < Len(data) THEN {data[size + 1]} ELSE Numbers \cup {-1}
PopAndClose ==
  (\E fd \in Popped : fds' = Shut(fd)) /\ UNCHANGED <<args, data, ret, at>>

\* Mutants: one round too many; two items popped for one close.
PopPastZero == at = "unwind" /\ size >= 0 /\ PopAndClose /\ size' = size - 1
PopTwo ==
  at = "unwind" /\ size > 0 /\ PopAndClose /\ size' = Max({size - 2, 0})

Pop == at = "unwind" /\ size > 0 /\ PopAndClose /\ size' = size - 1
Unwound == at = "unwind" /\ size = 0 /\ Return(newfd) /\ UNCHANGED fds

Next ==
  \/ Refuse \/ Same \/ ProbeFails \/ Probe \/ CloseNew \/ CloseFails
  \/ DupOther \/ DupNew \/ Pop \/ Unwound

Spec == Init /\ [][Next]_vars /\ WF_vars(Next)

-----------------------------------------------------------------------------
\* Every variable has values of its kind.
TypeOK ==
  /\ oldfd \in Numbers \cup {-1} /\ newfd \in Numbers \cup {-1}
  /\ before \in [Numbers -> Numbers \cup {NULL}]
  /\ fds \in [Numbers -> Numbers \cup {NULL}]
  /\ data \in Seq(Numbers)
  /\ size \in 0 .. Len(data)
  /\ ret \in Numbers \cup {-1}
  /\ at \in {"start", "close", "dup", "unwind", "done"}

\* The stack does not fill up: dup finds a place no higher than newfd in each
\* round, so that the numbers pushed are below newfd, each higher than the last.
PushesAscend ==
  /\ Len(data) < CAPACITY \/ data = <<>>
  /\ \A i \in DOMAIN data : data[i] < newfd
  /\ \A i, j \in DOMAIN data : i < j => data[i] < data[j]

\* "Now newfd is a dup of oldfd, and the stack contains all the intermediate
\* dups": before the first pop, these are all the table has more than before.
StackHasDups ==
  (at \in {"dup", "unwind"} /\ size = Len(data)) =>
    \A d \in Numbers \ {newfd} :
      fds[d] = IF d \in Range(data) THEN before[oldfd] ELSE before[d]

\* What a successful call leaves: newfd is a duplicate of oldfd, and nothing
\* else has changed.  If there were intermediate descriptors, the first of them
\* stays open and one other number may have been closed.  A call that fails
\* changes nothing, or has closed newfd.
Wanted(d) == IF d = newfd THEN before[oldfd] ELSE before[d]
DamageBounded ==
  at = "done" =>
    IF ret = -1
    THEN \A d \in Numbers : fds[d] = before[d] \/ (d = newfd /\ fds[d] = NULL)
    ELSE \E victim \in Numbers \cup {-1} :
           /\ data = <<>> => victim = -1
           /\ \A d \in Numbers :
                fds[d] = IF d = victim THEN NULL
                         ELSE IF data # <<>> /\ d = data[1] THEN before[oldfd]
                         ELSE Wanted(d)

\* The call returns: "we continue dup while (fd != newfd)" comes to an end.
Returns == <>(at = "done")

-----------------------------------------------------------------------------
(* The inductive invariant of these.                                       *)

\* The caller asks for a number the stack has room to reach; past the probe,
\* for one that is not oldfd, which is open.
CallInv ==
  /\ newfd < CAPACITY
  /\ at \in {"close", "dup", "unwind"} =>
       /\ oldfd >= 0 /\ newfd >= 0 /\ oldfd # newfd
       /\ before[oldfd] # NULL
  /\ at \in {"start", "close"} => fds = before /\ data = <<>>
  /\ at # "done" => ret = -1

\* The numbers pushed are the lowest that were free, in their order.
DataInv ==
  \A i \in DOMAIN data :
    /\ i - 1 <= data[i] /\ data[i] < newfd
    /\ before[data[i]] = NULL
    /\ at = "dup" => \A d \in Numbers : d <= data[i] => fds[d] # NULL
    /\ \A j \in DOMAIN data : i < j => data[i] < data[j]

\* What a descriptor is while the stack is unwound: the items above the top
\* are closed except for the last one popped, instead of which some number is.
Unwinding(d, victim) ==
  IF d = victim THEN NULL
  ELSE IF \E i \in DOMAIN data : i <= size + 1 /\ d = data[i]
       THEN before[oldfd]
       ELSE Wanted(d)
LoopInv ==
  /\ at = "dup" =>
       /\ size = Len(data) /\ fds[newfd] = NULL
       /\ \A d \in Numbers \ {newfd} :
            fds[d] = IF d \in Range(data) THEN before[oldfd] ELSE before[d]
  /\ at = "unwind" =>
       \E victim \in Numbers \cup {-1} :
         /\ size = Len(data) => victim = -1
         /\ \A d \in Numbers : fds[d] = Unwinding(d, victim)

IInv == TypeOK /\ CallInv /\ DataInv /\ LoopInv /\ DamageBounded
=============================================================================
