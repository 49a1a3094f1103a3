---------------------------- MODULE ShellParser -----------------------------
(***************************************************************************)
(* The parser of src/shell/shell.c, one step per token or pair of tokens.  *)
(*                                                                         *)
(* gettoken and peek make tokens of a line; what a word is made of makes   *)
(* no difference to the parser, so that a line is a sequence of tokens,    *)
(* and a word or the name of a file is the place of its token in it.       *)
(* parse_pipe nests commands to the right: the tree of a line is the       *)
(* sequence of the commands its pipes connect, each with its arguments and *)
(* the redirects parse_redirects has wrapped around it, innermost first.   *)
(***************************************************************************)
EXTENDS Integers, SequencesExt

CONSTANTS
  MAXARGS,    \* length of argv in command_exec (6)
  MaxTokens   \* bound on the length of a line

ASSUME ShellParserAssumption == MAXARGS \in Nat \ {0} /\ MaxTokens \in Nat

VARIABLES
  line,   \* the tokens
  pos,    \* the cursor
  cmds,   \* the commands that are complete
  cmd,    \* the one parse_exec is at: argv, redirs, and whether argv is
          \* stored over a redirect
  at      \* "start": before parse_exec has taken cmde from cmd; "loop": in its
          \* loop; "done"; "exited", after an error

vars == <<line, pos, cmds, cmd, at>>

Redirections == {"<", ">"}
Tokens == Redirections \cup {"|", "word"}
Lines == UNION {[1 .. n -> Tokens] : n \in 0 .. MaxTokens}

NewCommand == [argv |-> <<>>, redirs |-> <<>>, overwritten |-> FALSE]

Init ==
  /\ line \in Lines
  /\ pos = 1 /\ cmds = <<>> /\ cmd = NewCommand /\ at = "start"

-----------------------------------------------------------------------------
\* peek: whether the next token is one of these; there is none at the end.
Peek(toks) == pos <= Len(line) /\ line[pos] \in toks

Exits ==
  at' = "exited" /\ UNCHANGED <<line, pos, cmds, cmd>>

\* Mutants: the last redirect is innermost; the file is not asked for.
RedirectInside ==
  /\ at \in {"start", "loop"} /\ Peek(Redirections) /\ pos < Len(line)
  /\ cmd' = [cmd EXCEPT !.redirs = <<<<line[pos], pos + 1>>>> \o @]
  /\ pos' = pos + 2
  /\ UNCHANGED <<line, cmds, at>>
RedirectUnchecked ==
  /\ at \in {"start", "loop"} /\ Peek(Redirections)
  /\ cmd' = [cmd EXCEPT !.redirs = Append(@, <<line[pos], pos + 1>>)]
  /\ pos' = pos + 2
  /\ UNCHANGED <<line, cmds, at>>

\* parse_redirects: the token after < or > is the file, whatever it is.
Redirect ==
  /\ at \in {"start", "loop"} /\ Peek(Redirections) /\ pos < Len(line)
  /\ cmd' = [cmd EXCEPT !.redirs = Append(@, <<line[pos], pos + 1>>)]
  /\ pos' = pos + 2
  /\ UNCHANGED <<line, cmds, at>>

\* "no redirection arg"
RedirectFails ==
  at \in {"start", "loop"} /\ Peek(Redirections) /\ pos = Len(line) /\ Exits

\* parse_exec casts what it has to a command_exec.  If redirects have been
\* wrapped around the command by then, it is a command_redirect, and the
\* arguments are stored over its fields and past them.  The parser reads
\* neither again; what the heap becomes is not modelled.
Cast ==
  /\ at = "start" /\ ~Peek(Redirections)
  /\ cmd' = [cmd EXCEPT !.overwritten = cmd.redirs # <<>>]
  /\ at' = "loop"
  /\ UNCHANGED <<line, pos, cmds>>

\* Mutant: one argument too many is let through.
TooManyByOne(argc) == argc > MAXARGS

\* "too many args", with argc counting the one just stored.
TooMany(argc) == argc >= MAXARGS

\* A word of the loop of parse_exec.
Word ==
  /\ at = "loop" /\ Peek({"word"}) /\ ~TooMany(Len(cmd.argv) + 1)
  /\ cmd' = [cmd EXCEPT !.argv = Append(@, pos)]
  /\ pos' = pos + 1
  /\ UNCHANGED <<line, cmds, at>>
WordFails ==
  at = "loop" /\ Peek({"word"}) /\ TooMany(Len(cmd.argv) + 1) /\ Exits

\* Mutants: argc and the arguments of one side of a pipe stay for the other; the
\* loop ends at a pipe only.
PipeKeepsCommand ==
  /\ at = "loop" /\ Peek({"|"})
  /\ cmds' = Append(cmds, cmd) /\ cmd' = cmd
  /\ at' = "start" /\ pos' = pos + 1
  /\ UNCHANGED line
EndLoops == at = "loop" /\ pos > Len(line) /\ UNCHANGED vars

\* parse_exec returns, at a pipe to parse_pipe for the right side, at the end to
\* parse_command, which finds the line parsed.
Pipe ==
  /\ at = "loop" /\ Peek({"|"})
  /\ cmds' = Append(cmds, cmd) /\ cmd' = NewCommand
  /\ at' = "start" /\ pos' = pos + 1
  /\ UNCHANGED line
End ==
  /\ at = "loop" /\ pos > Len(line)
  /\ cmds' = Append(cmds, cmd) /\ cmd' = NewCommand /\ at' = "done"
  /\ UNCHANGED <<line, pos>>

Next ==
  Redirect \/ RedirectFails \/ Cast \/ Word \/ WordFails \/ Pipe \/ End

Spec == Init /\ [][Next]_vars /\ WF_vars(Next)

-----------------------------------------------------------------------------
(* What a line means, read off the line.                                   *)

\* A token that is a file: it follows a < or > that is not one itself.
File[i \in Nat] == i > 1 /\ line[i - 1] \in Redirections /\ ~File[i - 1]

Bars == {i \in DOMAIN line : line[i] = "|" /\ ~File[i]}
Commands == 1 .. Cardinality(Bars) + 1

\* The command a token stands in, by number, and what stands in one.
CommandOf(i) == Cardinality({b \in Bars : b < i}) + 1
Arguments(k) ==
  {i \in DOMAIN line : line[i] = "word" /\ ~File[i] /\ CommandOf(i) = k}
Files(k) == {i \in DOMAIN line : File[i] /\ CommandOf(i) = k}
FileMissing == line # <<>> /\ Last(line) \in Redirections /\ ~File[Len(line)]

\* The members of a set of places, each once, in the order of the line.
Lists(s, places) ==
  /\ Range(s) = places
  /\ \A i, j \in DOMAIN s : i < j => s[i] < s[j]
\* A command with these arguments, and a redirect for each of these files.
Means(c, arguments, files) ==
  /\ Lists(c.argv, arguments)
  /\ Lists([j \in DOMAIN c.redirs |-> c.redirs[j][2]], files)
  /\ \A j \in DOMAIN c.redirs : c.redirs[j][1] = line[c.redirs[j][2] - 1]

\* The parser's variables are of their kinds and the cursor in the line.
TypeOK ==
  /\ line \in Lines
  /\ pos \in 1 .. Len(line) + 1
  /\ at \in {"start", "loop", "done", "exited"}
  /\ \A c \in Range(cmds) \cup {cmd} :
       /\ Range(c.argv) \subseteq DOMAIN line
       /\ Range(c.redirs) \subseteq Redirections \X DOMAIN line

\* Every line is parsed or refused, and refused only if it lacks a file or has
\* too many arguments in some command.
ParserEnds == <>(at \in {"done", "exited"})
RefusesOnlyBad ==
  at = "exited" => FileMissing \/ \E k \in Commands : Cardinality(Arguments(k)) >= MAXARGS

\* A line that is parsed gives the commands it means: every token is used, in
\* one place; arguments are in order, wherever redirects stand between them;
\* redirects belong to the command they stand in, the last outermost.  Nothing is
\* said of a command whose argv is stored over a redirect.
ParsesAsMeant ==
  at = "done" =>
    /\ ~FileMissing /\ Len(cmds) = Cardinality(Bars) + 1
    /\ \A k \in Commands :
         cmds[k].overwritten \/ Means(cmds[k], Arguments(k), Files(k))

\* The NULL after the last argument is stored in argv, in a command_exec.
ArgvFits ==
  \A c \in Range(cmds) \cup {cmd} :
    ~c.overwritten => Len(c.argv) <= MAXARGS - 1

\* "redirection (< or >)" is supported: the arguments of a command are not
\* written over one of its redirects.
RedirectsSupported ==
  (\A i \in DOMAIN line : File[i] => line[i] = "word")
    => \A c \in Range(cmds) : c.argv # <<>> => ~c.overwritten

-----------------------------------------------------------------------------
(* The inductive invariant: what has been parsed is what the line up to    *)
(* the cursor means.                                                       *)

Command ==
  [argv : Seq(DOMAIN line), redirs : Seq(Redirections \X DOMAIN line),
   overwritten : BOOLEAN]
KindInv ==
  /\ line \in Lines /\ pos \in 1 .. Len(line) + 1
  /\ at \in {"start", "loop", "done", "exited"}
  /\ cmds \in Seq(Command) /\ cmd \in Command

FitInv ==
  /\ Len(cmd.argv) <= MAXARGS - 1
  /\ \A k \in DOMAIN cmds : Len(cmds[k].argv) <= MAXARGS - 1

Before(places) == {i \in places : i < pos}
ParsedInv ==
  /\ \A k \in DOMAIN cmds : Means(cmds[k], Arguments(k), Files(k))
  /\ at \in {"start", "loop"} =>
       /\ ~File[pos]
       /\ Len(cmds) + 1 = CommandOf(pos)
       /\ Means(cmd, Before(Arguments(CommandOf(pos))), Before(Files(CommandOf(pos))))
  /\ at = "done" => ~FileMissing /\ Len(cmds) = Cardinality(Bars) + 1

IInv == KindInv /\ FitInv /\ ParsedInv /\ RefusesOnlyBad
=============================================================================
