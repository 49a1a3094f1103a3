----------------------------- MODULE MCShellRun -----------------------------
(* Command lines for ShellRun.                                             *)
EXTENDS ShellRun

Command(ok) ==
  [type |-> "exec", sub |-> <<>>, fd |-> 0, ok |-> ok, forks |-> {1, 2}]
PipeOf(l, r) == [Command(TRUE) EXCEPT !.type = "pipe", !.sub = <<l, r>>]
PipeForks(l, r, forks) == [PipeOf(l, r) EXCEPT !.forks = forks]
To(d, n, ok) ==
  [Command(ok) EXCEPT !.type = "redirect", !.sub = <<n>>, !.fd = d]

\* 1: 2 | 4 | 5 (3 is the pipe of 4 and 5); 6: 7 < f | 9 > g;
\* 11: missing | 13; 14: missing < nofile | 18 | 19;
\* 20: 21 | missing | 24; 25: (empty) | 27; 28: a pipe that fails;
\* 31: 33 > f < nofile; 34: 35 | 37 | 38 and 39: 40 | 42 | 43, where the left
\* or the right fork of the first pipe fails; 44: 45 | 47 | 48, where both forks
\* of the second do
MCnode == <<
  PipeOf(2, 3), Command(TRUE), PipeOf(4, 5), Command(TRUE), Command(TRUE),
  PipeOf(7, 9), To(0, 8, TRUE), Command(TRUE), To(1, 10, TRUE), Command(TRUE),
  PipeOf(12, 13), Command(FALSE), Command(TRUE),
  PipeOf(15, 17), To(0, 16, FALSE), Command(FALSE),
  PipeOf(18, 19), Command(TRUE), Command(TRUE),
  PipeOf(21, 22), Command(TRUE), PipeOf(23, 24), Command(FALSE), Command(TRUE),
  PipeOf(26, 27), [Command(TRUE) EXCEPT !.type = "empty"], Command(TRUE),
  [PipeOf(29, 30) EXCEPT !.ok = FALSE], Command(TRUE), Command(TRUE),
  To(0, 32, FALSE), To(1, 33, TRUE), Command(TRUE),
  PipeForks(35, 36, {2}), Command(TRUE), PipeOf(37, 38), Command(TRUE),
  Command(TRUE),
  PipeForks(40, 41, {1}), Command(TRUE), PipeOf(42, 43), Command(TRUE),
  Command(TRUE),
  PipeOf(45, 46), Command(TRUE), PipeForks(47, 48, {}), Command(TRUE),
  Command(TRUE) >>
MCRoots == {1, 6, 11, 14, 20, 25, 28, 31, 34, 39, 44}
MCReads == {4, 5, 8, 10, 13, 18, 19, 24, 27, 33, 37, 38}
MCFloods == {2, 4, 8, 18, 21, 35, 37, 40, 45}
=============================================================================
