--------------------------- MODULE SerialExecutor ---------------------------
(***************************************************************************)
(* What the thread pool promises: tasks run in the order they were         *)
(* submitted, each exactly once, one at a time.  Threads, locks, the array *)
(* and memory are all left out.                                            *)
(***************************************************************************)
EXTENDS Sequences

CONSTANTS Tasks, NULL

VARIABLES
  pending,   \* submitted tasks that have not started, oldest first
  running,   \* the task that is running, or NULL
  done       \* tasks that have run

vars == <<pending, running, done>>

Init == pending = <<>> /\ running = NULL /\ done = {}

Submit(t) ==
  /\ t \notin done /\ t # running
  /\ \A i \in DOMAIN pending : pending[i] # t
  /\ pending' = Append(pending, t)
  /\ UNCHANGED <<running, done>>

Start ==
  /\ running = NULL /\ pending # <<>>
  /\ running' = Head(pending)
  /\ pending' = Tail(pending)
  /\ UNCHANGED done

Finish ==
  /\ running # NULL
  /\ done' = done \cup {running}
  /\ running' = NULL
  /\ UNCHANGED pending

Next == (\E t \in Tasks : Submit(t)) \/ Start \/ Finish

Spec == Init /\ [][Next]_vars

\* A submitted task runs to its end.
FairSpec == Spec /\ WF_vars(Start) /\ WF_vars(Finish)
=============================================================================
