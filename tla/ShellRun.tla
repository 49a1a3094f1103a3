------------------------------ MODULE ShellRun ------------------------------
(***************************************************************************)
(* run_cmd of src/shell/shell.c: the processes that run the tree of a      *)
(* command line, their descriptor tables, and the pipes between them.      *)
(*                                                                         *)
(* A process is named by its path from the one that runs the root of the   *)
(* tree: its n-th child appends n.  run_cmd calls itself and, when execv   *)
(* fails, returns; so a process has a stack of calls.  The closes that a   *)
(* process does in a row are one step: of them, others can notice only     *)
(* that a pipe has lost its last reader or writer, which is for good.      *)
(*                                                                         *)
(* The programs run are not in the repository: one ends when it has read   *)
(* all its input and got rid of its output.  What calls run_cmd is the     *)
(* main program of shell_main.c (commented out; test_parser.c has another  *)
(* one like it): the process it forks for a line does not end when its     *)
(* run_cmd returns, but reads lines from its input until there are no      *)
(* more.  Those further lines are taken to be empty.                       *)
(***************************************************************************)
EXTENDS Integers, SequencesExt

CONSTANTS
  node,      \* the nodes of all command trees, by number: type, sub (left and
             \* right, or the command of a redirect), fd (of a redirect),
             \* ok: whether its execv, pipe or open succeeds, and forks: which
             \* of the two forks of a pipe do
  Roots,     \* the roots of the trees
  Reads,     \* exec nodes whose program reads its input to the end
  Floods,    \* those that write more than a pipe holds
  OPEN_MAX   \* the largest descriptor number

\* The trees are ones that parse_line may build: a pipe has two sides, the
\* first without pipes, a redirect has a command; the parts of a node follow it.
Nodes == DOMAIN node
Simple == {"exec", "empty", "redirect"}

ASSUME ShellAssumption ==
  /\ OPEN_MAX \in Nat /\ OPEN_MAX >= 4
  /\ node \in Seq([type : Simple \cup {"pipe"}, sub : Seq(Nat), fd : {0, 1},
                   ok : BOOLEAN, forks : SUBSET {1, 2}])
  /\ Roots \subseteq Nodes
  /\ \A n \in Nodes :
       /\ node[n].sub \in Seq({m \in Nodes : m > n})
       /\ Len(node[n].sub) = CASE node[n].type = "pipe" -> 2
                               [] node[n].type = "redirect" -> 1
                               [] OTHER -> 0
       /\ node[n].type \in {"pipe", "redirect"} =>
            node[node[n].sub[1]].type \in Simple
       /\ \A m \in Nodes : \A i \in DOMAIN node[n].sub, j \in DOMAIN node[m].sub :
            node[n].sub[i] = node[m].sub[j] => n = m /\ i = j

VARIABLES
  root,      \* the tree that is run
  procs      \* [state, stack, fd, runs] of each process there has been

vars == <<root, procs>>

Numbers == 0 .. OPEN_MAX

\* What a descriptor leads to: an end of the pipe some process made at some
\* node, the file of a redirect, the terminal, nothing.
Closed == <<"closed", <<>>, 0>>
Terminal == <<"terminal", <<>>, 0>>
File(n) == <<"file", <<>>, n>>
ReadEnd(p, n) == <<"read", p, n>>
WriteEnd(p, n) == <<"write", p, n>>

\* A call of run_cmd for a node, and its variable fd once it has made a pipe.
Call(n) == [node |-> n, at |-> "start", fd |-> <<0, 0>>]

Init ==
  /\ root \in Roots
  /\ procs = [p \in {<<>>} |->
                [state |-> "shell", stack |-> <<Call(root)>>,
                 fd |-> [d \in Numbers |-> IF d <= 2 THEN Terminal ELSE Closed],
                 runs |-> 0]]

-----------------------------------------------------------------------------
Top(p) == Last(procs[p].stack)
Node(p) == node[Top(p).node]
At(p, at) == procs[p].state = "shell" /\ Top(p).at = at
Children(p) == {q \in DOMAIN procs : q # <<>> /\ Front(q) = p}
Table(p) == procs[p].fd

Lowest(t) == Min({d \in Numbers : t[d] = Closed})
Shut(t, d) == [t EXCEPT ![d] = Closed]
Dup2(t, d, to) == IF t[d] = Closed THEN t ELSE [t EXCEPT ![to] = t[d]]

\* The stack with another top, or with a further call on top of it.
Goto(p, at) == Append(Front(procs[p].stack), [Top(p) EXCEPT !.at = at])
Enter(p, n, back) == Append(Goto(p, back), Call(n))

Become(p, stack, fd) ==
  /\ procs' = [procs EXCEPT ![p].stack = stack, ![p].fd = fd]
  /\ UNCHANGED root

\* A process ends: its descriptors are closed.
Gone(p) == [procs[p] EXCEPT !.state = "zombie", !.stack = <<>>,
                            !.fd = [d \in Numbers |-> Closed]]
Exit(p) == procs' = [procs EXCEPT ![p] = Gone(p)] /\ UNCHANGED root

\* run_cmd returns, to the call below or to the main program.
Returned(p) ==
  LET below == Front(procs[p].stack) IN
  [procs EXCEPT ![p].stack = below,
                ![p].state = IF below = <<>> THEN "returned" ELSE "shell"]
Return(p) == procs' = Returned(p) /\ UNCHANGED root

-----------------------------------------------------------------------------
(* CMD_EXEC.  An empty command is one that "succeeds" without a program.   *)
Exec(p) ==
  /\ At(p, "start") /\ Node(p).type = "exec" /\ Node(p).ok
  /\ procs' = [procs EXCEPT ![p].state = "program", ![p].runs = Top(p).node]
  /\ UNCHANGED root
\* Mutant: no break after the failed execv, which falls through to CMD_PIPE.
ExecFallsThrough(p) ==
  LET t == Table(p)
      r == Lowest(t)
      w == Lowest([t EXCEPT ![r] = Terminal])
  IN
  /\ At(p, "start") /\ Node(p).type = "exec" /\ ~Node(p).ok
  /\ Become(p, Append(Front(procs[p].stack),
                      [Top(p) EXCEPT !.at = "fork_left", !.fd = <<r, w>>]),
            [t EXCEPT ![r] = ReadEnd(p, Top(p).node),
                      ![w] = WriteEnd(p, Top(p).node)])

ExecFails(p) ==
  /\ At(p, "start") /\ Node(p).type = "exec" /\ ~Node(p).ok
  /\ Return(p)
ExecEmpty(p) ==
  At(p, "start") /\ Node(p).type = "empty" /\ Exit(p)

\* Mutant: the file is opened before the descriptor is closed.
RedirectOpensFirst(p) ==
  LET n == Node(p)
      t == Table(p)
  IN
  /\ At(p, "start") /\ n.type = "redirect"
  /\ Become(p, Append(Front(procs[p].stack), Call(n.sub[1])),
            Shut(IF n.ok THEN [t EXCEPT ![Lowest(t)] = File(Top(p).node)]
                         ELSE t, n.fd))

(* CMD_REDIRECT: nothing follows the call, so it takes the caller's place. *)
Redirect(p) ==
  LET n == Node(p)
      freed == Shut(Table(p), n.fd)
  IN
  /\ At(p, "start") /\ n.type = "redirect"
  /\ Become(p, Append(Front(procs[p].stack), Call(n.sub[1])),
            IF n.ok THEN [freed EXCEPT ![Lowest(freed)] = File(Top(p).node)]
                    ELSE freed)

(* CMD_PIPE.                                                               *)
Pipe(p) ==
  LET n == Top(p).node
      t == Table(p)
      r == Lowest(t)
      w == Lowest([t EXCEPT ![r] = Terminal])
  IN
  /\ At(p, "start") /\ Node(p).type = "pipe" /\ Node(p).ok
  /\ Become(p, Append(Front(procs[p].stack),
                      [Top(p) EXCEPT !.at = "fork_left", !.fd = <<r, w>>]),
            [t EXCEPT ![r] = ReadEnd(p, n), ![w] = WriteEnd(p, n)])
PipeFails(p) ==
  At(p, "start") /\ Node(p).type = "pipe" /\ ~Node(p).ok /\ Exit(p)

\* The child starts as a copy, except for where it is.
Fork(p, child, parent) ==
  LET q == Append(p, Cardinality(Children(p)) + 1) IN
  /\ procs' = [x \in DOMAIN procs \cup {q} |->
                 CASE x = q -> [procs[p] EXCEPT !.stack = Goto(p, child)]
                   [] x = p -> [procs[p] EXCEPT !.stack = Goto(p, parent)]
                   [] OTHER -> procs[x]]
  /\ UNCHANGED root
ForkLeft(p) ==
  At(p, "fork_left") /\ 1 \in Node(p).forks /\ Fork(p, "left", "fork_right")
ForkRight(p) ==
  At(p, "fork_right") /\ 2 \in Node(p).forks /\ Fork(p, "right", "close")

\* A fork that fails is not noticed: -1 is not 0, the process goes on as one
\* that has a child.
ForkLeftFails(p) ==
  /\ At(p, "fork_left") /\ 1 \notin Node(p).forks
  /\ Become(p, Goto(p, "fork_right"), Table(p))
ForkRightFails(p) ==
  /\ At(p, "fork_right") /\ 2 \notin Node(p).forks
  /\ Become(p, Goto(p, "close"), Table(p))

\* Mutants: both children run the right side; the left one keeps the read end.
LeftRunsRight(p) ==
  LET r == Top(p).fd[1]
      w == Top(p).fd[2]
      out == IF w = 1 THEN Table(p) ELSE Shut(Dup2(Table(p), w, 1), w)
  IN At(p, "left")
     /\ Become(p, Enter(p, Node(p).sub[2], "fork_right"), Shut(out, r))
LeftKeepsRead(p) ==
  LET w == Top(p).fd[2]
      out == IF w = 1 THEN Table(p) ELSE Shut(Dup2(Table(p), w, 1), w)
  IN At(p, "left") /\ Become(p, Enter(p, Node(p).sub[1], "fork_right"), out)

\* Mutant: the right one keeps the write end.
RightKeepsWrite(p) ==
  LET r == Top(p).fd[1]
      in == IF r = 0 THEN Table(p) ELSE Shut(Dup2(Table(p), r, 0), r)
  IN At(p, "right") /\ Become(p, Enter(p, Node(p).sub[2], "close"), in)

\* The child's descriptors are arranged and it runs its side.  A call that
\* returns goes on as its parent did: after the left side with the second
\* fork, after the right side with the closes.
Left(p) ==
  LET r == Top(p).fd[1]
      w == Top(p).fd[2]
      out == IF w = 1 THEN Table(p) ELSE Shut(Dup2(Table(p), w, 1), w)
  IN At(p, "left")
     /\ Become(p, Enter(p, Node(p).sub[1], "fork_right"), Shut(out, r))
Right(p) ==
  LET r == Top(p).fd[1]
      w == Top(p).fd[2]
      in == IF r = 0 THEN Table(p) ELSE Shut(Dup2(Table(p), r, 0), r)
  IN At(p, "right")
     /\ Become(p, Enter(p, Node(p).sub[2], "close"), Shut(in, w))


CloseBoth(p) ==
  /\ At(p, "close")
  /\ Become(p, Goto(p, "wait"), Shut(Shut(Table(p), Top(p).fd[1]),
                                     Top(p).fd[2]))

\* wait(NULL), twice: it reaps some child that has ended, or fails when there
\* is no child left.
WaitOnce(p, then) ==
  LET left == {q \in Children(p) : procs[q].state # "reaped"} IN
  \/ \E q \in left : /\ procs[q].state = "zombie"
                     /\ procs' = [then EXCEPT ![q].state = "reaped"]
  \/ left = {} /\ procs' = then
Wait(p) ==
  /\ At(p, "wait")
  /\ WaitOnce(p, [procs EXCEPT ![p].stack = Goto(p, "wait_again")])
  /\ UNCHANGED root
\* Mutant: the second wait is missing.
WaitAgainNot(p) ==
  At(p, "wait_again") /\ procs' = Returned(p) /\ UNCHANGED root
WaitAgain(p) ==
  At(p, "wait_again") /\ WaitOnce(p, Returned(p)) /\ UNCHANGED root

RunCmd(p) ==
  \/ Exec(p) \/ ExecFails(p) \/ ExecEmpty(p) \/ Redirect(p)
  \/ Pipe(p) \/ PipeFails(p) \/ ForkLeft(p) \/ ForkRight(p)
  \/ ForkLeftFails(p) \/ ForkRightFails(p)
  \/ Left(p) \/ Right(p) \/ CloseBoth(p) \/ Wait(p) \/ WaitAgain(p)

-----------------------------------------------------------------------------
(* The kernel's pipes, the programs, and the caller of run_cmd.            *)

Held(x) == \E q \in DOMAIN procs : \E d \in Numbers : Table(q)[d] = x

\* End of file: the pipe has no writer left.
AtEnd(x) == x[1] = "read" => ~Held(<<"write", x[2], x[3]>>)

\* What is written to the pipe is read, by a program or by a main program that
\* takes it for command lines, or refused for want of a reader.
Drains(x) ==
  x[1] = "write" =>
    LET r == <<"read", x[2], x[3]>> IN
    \/ ~Held(r)
    \/ \E q \in DOMAIN procs : /\ Table(q)[0] = r
                               /\ \/ procs[q].runs \in Reads
                                  \/ procs[q].state = "returned"

ProgramEnds(p) ==
  /\ procs[p].state = "program"
  /\ procs[p].runs \in Reads => AtEnd(Table(p)[0])
  /\ procs[p].runs \in Floods => Drains(Table(p)[1])
  /\ Exit(p)

\* The first run_cmd has returned, the wait after it finds no child, and the
\* loop of main goes on until scan_cmd finds the end of the input.  That of the
\* terminal comes when its user wants it.
Prompts(p) == procs[p].state = "returned" /\ Table(p)[0] = Terminal
MainEnds(p) ==
  /\ procs[p].state = "returned" /\ Table(p)[0] # Terminal
  /\ AtEnd(Table(p)[0])
  /\ Exit(p)
TerminalEnds(p) == Prompts(p) /\ Exit(p)

Next ==
  \E p \in DOMAIN procs :
    RunCmd(p) \/ ProgramEnds(p) \/ MainEnds(p) \/ TerminalEnds(p)

\* Every process that can go on does in the end.  As every step brings some
\* process nearer to its end, the fairness of the whole says so.  The user of
\* the terminal is not bound to end its input.
Spec ==
  /\ Init /\ [][Next]_vars
  /\ WF_vars(\E p \in DOMAIN procs : RunCmd(p) \/ ProgramEnds(p) \/ MainEnds(p))

-----------------------------------------------------------------------------
\* The nodes of the tree below a node, and itself.
Below[n \in DOMAIN node] ==
  {n} \cup UNION {Below[node[n].sub[i]] : i \in DOMAIN node[n].sub}

Ended(p) == procs[p].state \in {"zombie", "reaped"}
Over == \A p \in DOMAIN procs : Ended(p)
Clean == \A n \in Below[root] : node[n].ok /\ node[n].forks = {1, 2}

\* Every process has fields of its kind; it is past the start of a call only if
\* the call is for a pipe.
TypeOK ==
  /\ root \in Roots
  /\ \A p \in DOMAIN procs :
       /\ procs[p].state \in {"shell", "program", "returned", "zombie", "reaped"}
       /\ procs[p].stack # <<>> <=> procs[p].state \in {"shell", "program"}
       /\ \A i \in DOMAIN procs[p].stack :
            procs[p].stack[i].at # "start" => node[procs[p].stack[i].node].type = "pipe"
       /\ DOMAIN Table(p) = Numbers
       /\ procs[p].runs \in DOMAIN node \cup {0}


\* If nothing fails, the line ends without help from the terminal: only the
\* process that was forked for it can be left to read a further line.
CleanLineEnds ==
  Clean => <>(\A p \in DOMAIN procs : Ended(p) \/ (p = <<>> /\ Prompts(p)))

\* If nothing fails, each command of the line is run by one process.
EachOnce ==
  Clean =>
    /\ \A p, q \in DOMAIN procs :
         procs[p].runs = procs[q].runs /\ procs[p].runs # 0 => p = q
    /\ Over => \A n \in Below[root] : node[n].type = "exec" =>
                 \E p \in DOMAIN procs : procs[p].runs = n

\* If nothing fails, a command has as input and output what the innermost
\* redirect or pipe around it says.
Sets(m, n, d) ==
  LET side == IF d = 0 THEN 2 ELSE 1 IN
  CASE node[m].type = "redirect" -> n \in Below[m] /\ node[m].fd = d
    [] node[m].type = "pipe" -> n \in Below[node[m].sub[side]]
    [] OTHER -> FALSE

Wired ==
  \A p \in DOMAIN procs : Clean /\ procs[p].state = "program" =>
    \A d \in {0, 1} :
      LET setters == {m \in Below[root] : Sets(m, procs[p].runs, d)}
          innermost == CHOOSE m \in setters : \A k \in setters : m \in Below[k]
          x == Table(p)[d]
      IN IF setters = {} THEN x = Terminal
         ELSE /\ x[3] = innermost
              /\ x[1] = IF node[innermost].type = "redirect" THEN "file"
                        ELSE IF d = 0 THEN "read" ELSE "write"

\* A program, and a process that waits for its children or has returned, has
\* no end of a pipe beyond its input and output.
NoEndKept ==
  \A p \in DOMAIN procs :
    procs[p].state \in {"program", "returned"} \/ At(p, "wait")
      => \A d \in Numbers : d > 2 => Table(p)[d] = Closed

\* A process that has returned has waited for all its children.
NoOrphans ==
  \A p \in DOMAIN procs :
    Ended(p) \/ procs[p].state = "returned" =>
      \A q \in Children(p) : procs[q].state = "reaped"

-----------------------------------------------------------------------------
(* The inductive invariant of these.                                       *)

Frame ==
  {f \in [node : Nodes, fd : Numbers \X Numbers,
          at : {"start", "fork_left", "left", "fork_right", "right", "close",
                "wait", "wait_again"}] :
     f.at # "start" => node[f.node].type = "pipe"}
Things ==
  {"closed", "terminal", "file", "read", "write"} \X Seq(Nat) \X Nat
Process ==
  {x \in [state : {"shell", "program", "returned", "zombie", "reaped"},
          stack : Seq(Frame), fd : [Numbers -> Things],
          runs : Nodes \cup {0}] :
     x.stack # <<>> <=> x.state \in {"shell", "program"}}

ProcInv ==
  /\ root \in Roots
  /\ \A p \in DOMAIN procs : procs[p] \in Process

\* The names of the processes: those of the children of one are consecutive.
NameInv ==
  \A p \in DOMAIN procs :
    /\ p \in Seq(Nat)
    /\ p # <<>> => Front(p) \in DOMAIN procs
    /\ IsFiniteSet(Children(p))
    /\ Children(p) = {Append(p, i) : i \in 1 .. Cardinality(Children(p))}

\* There are no more children to wait for than the waits that follow.
Unreaped(p) == {q \in Children(p) : procs[q].state # "reaped"}
Waits(x) ==
  CASE x.state = "shell" /\ Last(x.stack).at \in {"close", "wait"} -> 2
    [] x.state = "shell" /\ Last(x.stack).at \in {"fork_right", "wait_again"} -> 1
    [] OTHER -> 0
WaitInv ==
  \A p \in DOMAIN procs : Cardinality(Unreaped(p)) <= Waits(procs[p])

\* Only what a process has from pipe, and has yet to close, is above stderr.
Tight(x) ==
  \A d \in Numbers : d > 2 /\ x.fd[d] # Closed =>
    /\ x.state = "shell"
    /\ Last(x.stack).at \in {"fork_left", "left", "fork_right", "right", "close"}
    /\ d \in {Last(x.stack).fd[1], Last(x.stack).fd[2]}
EndInv == \A p \in DOMAIN procs : Tight(procs[p])

IInv == ProcInv /\ NameInv /\ WaitInv /\ EndInv

-----------------------------------------------------------------------------
(* The inductive invariant of the lines in which nothing fails.            *)

\* What sets descriptor d for node c, and what the innermost of these makes of
\* it: it leads to x.
Around(m, c, d) ==
  CASE node[m].type = "redirect" -> c \in Below[node[m].sub[1]] /\ node[m].fd = d
    [] node[m].type = "pipe" -> c \in Below[node[m].sub[IF d = 0 THEN 2 ELSE 1]]
    [] OTHER -> FALSE
Setters(c, d) == {m \in Below[root] : Around(m, c, d)}
End(m, d) ==
  IF node[m].type = "redirect" THEN "file" ELSE IF d = 0 THEN "read" ELSE "write"
Leads(x, c, d) ==
  \/ Setters(c, d) = {} /\ x = Terminal
  \/ \E m \in Setters(c, d) : /\ \A k \in Setters(c, d) : m \in Below[k]
                              /\ x[1] = End(m, d) /\ x[3] = m

\* A process that has commands to run has its input and output arranged, and the
\* ends of the pipe it has made.
Busy(x) ==
  /\ x.state = "shell"
  /\ Last(x.stack).at \in {"start", "fork_left", "left", "fork_right", "right"}
Arranged(x) ==
  LET top == Last(x.stack)
      r == top.fd[1]
      w == top.fd[2]
  IN
  /\ x.state \in {"shell", "returned"} => x.runs = 0
  /\ x.state = "program" =>
       /\ x.runs \in Below[root] /\ node[x.runs].type = "exec"
       /\ \A d \in {0, 1} : Leads(x.fd[d], x.runs, d)
  /\ Busy(x) =>
       /\ top.node \in Below[root]
       /\ \A d \in {0, 1, 2} : x.fd[d] # Closed
       /\ \A d \in {0, 1} : Leads(x.fd[d], top.node, d)
       /\ top.at # "start" => /\ r > 2 /\ w > 2 /\ r # w
                              /\ x.fd[r][1] = "read" /\ x.fd[r][3] = top.node
                              /\ x.fd[w][1] = "write" /\ x.fd[w][3] = top.node
  /\ x.state = "shell" /\ node[top.node].type = "pipe" =>
       \A i \in 1 .. Len(x.stack) - 1 : x.stack[i].at = "close"

\* The nodes a process and those it is yet to fork have to run, or the one that
\* it runs or has run.
Share(x) ==
  IF x.state # "shell" THEN {x.runs} \ {0}
  ELSE LET top == Last(x.stack) IN
       CASE top.at \in {"start", "fork_left"} -> Below[top.node]
         [] top.at = "left" -> Below[node[top.node].sub[1]]
         [] top.at \in {"fork_right", "right"} -> Below[node[top.node].sub[2]]
         [] OTHER -> {}

CleanInv ==
  Clean =>
    /\ \A p \in DOMAIN procs : Arranged(procs[p])
    /\ \A p, q \in DOMAIN procs :
         p # q => Share(procs[p]) \cap Share(procs[q]) = {}
    /\ \A n \in Below[root] : node[n].type = "exec" =>
         \E p \in DOMAIN procs : n \in Share(procs[p])
=============================================================================
