------------------------- MODULE ShellParserProofs --------------------------
(***************************************************************************)
(* The parser of src/shell/shell.c does what ShellParser says, for lines   *)
(* of any length and any MAXARGS.                                          *)
(*                                                                         *)
(* File is a recursive function; FileIs shows that it is defined, by the   *)
(* parity of the run of < and > before a token.  Numbering and the lemmas  *)
(* about Lists count the commands and their arguments.  IInv then says     *)
(* that the commands parsed so far are what the line before the cursor     *)
(* means.                                                                  *)
(***************************************************************************)
EXTENDS ShellParser, SequenceTheorems, FiniteSetTheorems,
        WellFoundedInduction, TLAPS

\* Every nonempty set of natural numbers has a least element.
LEMMA NatMin ==
  ASSUME NEW T, T \subseteq Nat, T # {}
  PROVE  \E x \in T : \A y \in T : x <= y
<1> DEFINE R == {ss \in Nat \X Nat : ss[1] < ss[2]}
<1>1. IsWellFoundedOn(R, Nat)
  BY NatLessThanWellFounded DEF OpToRel
<1> HIDE DEF R
<1>2. PICK x \in T : \A y \in T : <<y, x>> \notin R
  BY <1>1, WFMin
<1>3. \A y \in Nat : y < x => <<y, x>> \in R
  BY DEF R
<1>4. ASSUME NEW y \in T PROVE x <= y
  <2>1. x \in Nat /\ y \in Nat /\ ~(y < x)
    BY <1>2, <1>3
  <2>2. QED  BY <2>1
<1>5. QED  BY <1>4

-----------------------------------------------------------------------------
(* Which tokens are files.                                                 *)

\* The tokens j to i - 1 are all the < and > next to each other before i.
Run(i, j) ==
  /\ 1 <= j /\ j < i
  /\ \A k \in j .. i - 1 : line[k] \in Redirections
  /\ j = 1 \/ line[j - 1] \notin Redirections
IsFile(i) == \E j, h \in Nat : Run(i, j) /\ i - j = 2 * h + 1

\* The runs before a token and before the one before it start at one place.
LEMMA OneRun ==
  ASSUME NEW i \in Nat, NEW a \in Nat, NEW b \in Nat, Run(i, a), Run(i - 1, b)
  PROVE  a = b
<1>1. CASE a < b
  <2>1. b - 1 \in a .. i - 1 /\ b # 1
    BY <1>1 DEF Run
  <2>2. QED  BY <2>1 DEF Run
<1>2. CASE b < a
  <2>1. a - 1 \in b .. (i - 1) - 1 /\ a # 1
    BY <1>2 DEF Run
  <2>2. QED  BY <2>1 DEF Run
<1>3. QED  BY <1>1, <1>2

\* There is a run before a token that follows a < or >.
LEMMA RunExists ==
  ASSUME NEW i \in Nat, i > 1, line[i - 1] \in Redirections
  PROVE  \E j \in Nat : Run(i, j)
<1> DEFINE J == {j \in 1 .. i - 1 : \A k \in j .. i - 1 : line[k] \in Redirections}
<1>1. i - 1 \in J /\ J \subseteq Nat
  OBVIOUS
<1>2. PICK j \in J : \A k \in J : j <= k
  <2> HIDE DEF J
  <2>1. QED  BY <1>1, NatMin
<1>3. ASSUME j # 1, line[j - 1] \in Redirections
      PROVE  FALSE
  <2>1. j - 1 \in 1 .. i - 1
    BY <1>3
  <2>2. \A k \in j - 1 .. i - 1 : k = j - 1 \/ k \in j .. i - 1
    OBVIOUS
  <2>3. j - 1 \in J
    BY <1>3, <2>1, <2>2
  <2>4. QED  BY <1>2, <2>3
<1>4. j \in Nat /\ Run(i, j)
  BY <1>3 DEF Run
<1>5. QED  BY <1>4

\* In a run every other token is a file: IsFile solves the equation of File.
LEMMA Alternate ==
  ASSUME NEW i \in Nat
  PROVE  IsFile(i) <=> i > 1 /\ line[i - 1] \in Redirections /\ ~IsFile(i - 1)
<1>1. ASSUME IsFile(i)
      PROVE  i > 1 /\ line[i - 1] \in Redirections /\ ~IsFile(i - 1)
  <2>1. PICK j \in Nat, h \in Nat : Run(i, j) /\ i - j = 2 * h + 1
    BY <1>1 DEF IsFile
  <2>2. i > 1 /\ i - 1 \in j .. i - 1
    BY <2>1 DEF Run
  <2>3. line[i - 1] \in Redirections
    BY <2>1, <2>2 DEF Run
  <2>4. ASSUME NEW a \in Nat, NEW b \in Nat, Run(i - 1, a), (i - 1) - a = 2 * b + 1
        PROVE  FALSE
    <3>1. a = j
      BY <2>1, <2>4, OneRun
    <3>2. 2 * h = 2 * b + 1
      BY <2>1, <2>4, <3>1
    <3>3. QED  BY <3>2
  <2>5. QED  BY <2>2, <2>3, <2>4 DEF IsFile
<1>2. ASSUME i > 1, line[i - 1] \in Redirections, ~IsFile(i - 1)
      PROVE  IsFile(i)
  <2>1. PICK j \in Nat : Run(i, j)
    BY <1>2, RunExists
  <2>2. PICK h \in Nat : i - j = 2 * h + 1 \/ i - j = 2 * h + 2
    <3>1. i - j \in Nat \ {0}
      BY <2>1 DEF Run
    <3>2. \A n \in Nat \ {0} : /\ (n - 1) \div 2 \in Nat
                               /\ \/ n = 2 * ((n - 1) \div 2) + 1
                                  \/ n = 2 * ((n - 1) \div 2) + 2
      OBVIOUS
    <3>3. QED  BY <3>1, <3>2
  <2>3. ASSUME i - j = 2 * h + 2 PROVE FALSE
    <3>1. Run(i - 1, j)
      BY <2>1, <2>3 DEF Run
    <3>2. (i - 1) - j = 2 * h + 1
      BY <2>3
    <3>3. QED  BY <1>2, <3>1, <3>2 DEF IsFile
  <2>4. QED  BY <2>1, <2>2, <2>3 DEF IsFile
<1>3. QED  BY <1>1, <1>2

\* File is defined.
LEMMA FileIs ==
  \A i \in Nat : File[i] <=> i > 1 /\ line[i - 1] \in Redirections /\ ~File[i - 1]
<1> DEFINE t == [i \in Nat |-> IsFile(i)]
           F(f) == [i \in Nat |-> i > 1 /\ line[i - 1] \in Redirections /\ ~f[i - 1]]
<1>1. t = F(t)
  <2>1. ASSUME NEW i \in Nat PROVE t[i] = F(t)[i]
    <3>1. CASE i > 1
      <4>1. i - 1 \in Nat
        BY <3>1
      <4>2. t[i] = IsFile(i) /\ t[i - 1] = IsFile(i - 1)
        BY <4>1
      <4> HIDE DEF t
      <4>3. F(t)[i] = (i > 1 /\ line[i - 1] \in Redirections /\ ~t[i - 1])
        OBVIOUS
      <4>4. IsFile(i) = (i > 1 /\ line[i - 1] \in Redirections /\ ~IsFile(i - 1))
        <5>1. IsFile(i) \in BOOLEAN
          BY DEF IsFile
        <5>2. QED  BY <5>1, Alternate
      <4>5. QED  BY <4>2, <4>3, <4>4
    <3>2. CASE ~(i > 1)
      <4>1. t[i] = IsFile(i)
        OBVIOUS
      <4> HIDE DEF t
      <4>2. F(t)[i] = FALSE
        BY <3>2
      <4>3. IsFile(i) = FALSE
        BY <3>2, Alternate
      <4>4. QED  BY <4>1, <4>2, <4>3
    <3>3. QED  BY <3>1, <3>2
  <2>2. QED  BY <2>1
<1> HIDE DEF t
<1>2. \E f : f = [i \in Nat |-> i > 1 /\ line[i - 1] \in Redirections /\ ~f[i - 1]]
  BY <1>1
<1>3. File = [i \in Nat |-> i > 1 /\ line[i - 1] \in Redirections /\ ~File[i - 1]]
  BY <1>2 DEF File
<1> HIDE DEF F
<1>4. QED  BY <1>3

\* File depends on the line only.
LEMMA SameFiles ==
  ASSUME line' = line
  PROVE  File' = File
BY DEF File

-----------------------------------------------------------------------------
(* The bars and what stands between them.                                  *)

\* A line is a sequence of tokens.
LEMMA LineFacts ==
  ASSUME line \in Lines
  PROVE  /\ Len(line) \in Nat /\ DOMAIN line = 1 .. Len(line)
         /\ \A i \in DOMAIN line : line[i] \in Tokens
         /\ line # <<>> => Last(line) = line[Len(line)] /\ Len(line) # 0
<1>1. line \in Seq(Tokens)
  BY SeqDef DEF Lines
<1>2. Len(line) \in Nat /\ line \in [1 .. Len(line) -> Tokens]
  BY <1>1, LenProperties
<1>3. line # <<>> => Len(line) # 0
  BY <1>1, EmptySeq
<1>4. QED  BY <1>2, <1>3 DEF Last

\* The line is only read.
LEMMA SameMeaning ==
  ASSUME line' = line
  PROVE  /\ File' = File /\ Bars' = Bars /\ Commands' = Commands
         /\ \A i : CommandOf(i)' = CommandOf(i)
         /\ \A k : Arguments(k)' = Arguments(k) /\ Files(k)' = Files(k)
         /\ FileMissing' = FileMissing
<1>1. File' = File
  BY SameFiles
<1>2. Bars' = Bars
  BY <1>1 DEF Bars
<1>3. \A i : CommandOf(i)' = CommandOf(i)
  BY <1>2 DEF CommandOf
<1>4. \A k : Arguments(k)' = Arguments(k) /\ Files(k)' = Files(k)
  BY <1>1, <1>3 DEF Arguments, Files
<1>5. Commands' = Commands /\ FileMissing' = FileMissing
  BY <1>1, <1>2 DEF Commands, FileMissing
<1>6. QED  BY <1>1, <1>2, <1>3, <1>4, <1>5

\* Commands are numbered from 1, one more at each bar.
LEMMA Numbering ==
  ASSUME line \in Lines
  PROVE  /\ \A i \in Nat : CommandOf(i) \in Commands /\ CommandOf(i) \in Nat
         /\ \A i, j \in Nat : i <= j => CommandOf(i) <= CommandOf(j)
         /\ \A i \in Nat : CommandOf(i + 1) = IF i \in Bars THEN CommandOf(i) + 1
                                              ELSE CommandOf(i)
         /\ CommandOf(Len(line) + 1) = Cardinality(Bars) + 1
         /\ CommandOf(1) = 1
         /\ Cardinality(Bars) \in Nat
<1> DEFINE B(i) == {b \in Bars : b < i}
<1>1. Bars \subseteq 1 .. Len(line) /\ Len(line) \in Nat
  BY LineFacts DEF Bars
<1>0. \A b \in Bars : b \in Nat /\ b < Len(line) + 1 /\ ~(b < 1)
  BY <1>1
<1>2. IsFiniteSet(1 .. Len(line))
  BY <1>1, FS_Interval
<1>3. IsFiniteSet(Bars) /\ Cardinality(Bars) \in Nat
  BY <1>1, <1>2, FS_Subset, FS_CardinalityType
<1>4. ASSUME NEW i
      PROVE  /\ IsFiniteSet(B(i)) /\ Cardinality(B(i)) \in Nat
             /\ Cardinality(B(i)) <= Cardinality(Bars)
  <2>1. B(i) \subseteq Bars
    OBVIOUS
  <2>2. QED  BY <1>3, <2>1, FS_Subset, FS_CardinalityType
<1>5. \A i \in Nat : CommandOf(i) \in Commands /\ CommandOf(i) \in Nat
  BY <1>3, <1>4 DEF CommandOf, Commands
<1>6. ASSUME NEW i \in Nat, NEW j \in Nat, i <= j
      PROVE  CommandOf(i) <= CommandOf(j)
  <2>1. B(i) \subseteq B(j)
    BY <1>0, <1>6
  <2>2. Cardinality(B(i)) <= Cardinality(B(j))
    BY <1>4, <2>1, FS_Subset
  <2>3. QED  BY <1>4, <2>2 DEF CommandOf
<1>7. ASSUME NEW i \in Nat
      PROVE  CommandOf(i + 1) = IF i \in Bars THEN CommandOf(i) + 1 ELSE CommandOf(i)
  <2>1. CASE i \in Bars
    <3>1. B(i + 1) = B(i) \cup {i} /\ i \notin B(i)
      <4>1. \A b \in Bars : b < i + 1 <=> b < i \/ b = i
        BY <1>0
      <4>2. ASSUME NEW b PROVE b \in B(i + 1) <=> b \in B(i) \/ b = i
        BY <2>1, <4>1
      <4>3. i \notin B(i)
        OBVIOUS
      <4> HIDE DEF B
      <4>4. QED  BY <4>2, <4>3
    <3>2. Cardinality(B(i) \cup {i}) = Cardinality(B(i)) + 1
      <4> HIDE DEF B
      <4>1. QED  BY <1>4, <3>1, FS_AddElement
    <3>3. QED  BY <1>4, <2>1, <3>1, <3>2 DEF CommandOf
  <2>2. CASE i \notin Bars
    <3>1. B(i + 1) = B(i)
      BY <1>0, <2>2
    <3>2. QED  BY <2>2, <3>1 DEF CommandOf
  <2>3. QED  BY <2>1, <2>2
<1>8. CommandOf(Len(line) + 1) = Cardinality(Bars) + 1
  <2>1. B(Len(line) + 1) = Bars
    BY <1>0
  <2>2. QED  BY <2>1 DEF CommandOf
<1>9. CommandOf(1) = 1
  <2>1. B(1) = {}
    BY <1>0
  <2>2. QED  BY <2>1, FS_EmptySet DEF CommandOf
<1>10. QED  BY <1>3, <1>5, <1>6, <1>7, <1>8, <1>9

-----------------------------------------------------------------------------
(* Lists of places.                                                        *)

\* The empty list.
LEMMA ListsNone ==
  ASSUME NEW s, DOMAIN s = {}
  PROVE  Lists(s, {})
BY DEF Lists, Range

\* A list with one more place, behind all others.
LEMMA ListsMore ==
  ASSUME NEW n \in Nat, NEW s, DOMAIN s = 1 .. n, NEW S, S \subseteq Nat, Lists(s, S),
         NEW t, DOMAIN t = 1 .. n + 1, \A i \in 1 .. n : t[i] = s[i],
         NEW p, t[n + 1] = p, \A q \in S : q < p
  PROVE  Lists(t, S \cup {p})
<1>1. \A i \in 1 .. n : s[i] \in S
  BY DEF Lists, Range
<1>2. \A q \in S : \E i \in 1 .. n : s[i] = q
  BY DEF Lists, Range
<1>3. 1 .. n + 1 = 1 .. n \cup {n + 1} /\ n + 1 \notin 1 .. n
  OBVIOUS
<1>4. Range(t) = S \cup {p}
  <2>1. \A i \in 1 .. n : t[i] \in S
    BY <1>1
  <2>2. \A q \in S : \E i \in 1 .. n : t[i] = q
    BY <1>2
  <2>3. {t[i] : i \in 1 .. n + 1} = S \cup {p}
    <3>1. ASSUME NEW x \in {t[i] : i \in 1 .. n + 1} PROVE x \in S \cup {p}
      <4>1. PICK i \in 1 .. n + 1 : x = t[i]
        OBVIOUS
      <4>2. QED  BY <1>3, <2>1, <4>1
    <3>2. p \in {t[i] : i \in 1 .. n + 1}
      BY <1>3
    <3>3. ASSUME NEW q \in S PROVE q \in {t[i] : i \in 1 .. n + 1}
      <4>1. PICK i \in 1 .. n : t[i] = q
        BY <2>2
      <4>2. QED  BY <1>3, <4>1
    <3>4. QED  BY <3>1, <3>2, <3>3
  <2>4. QED  BY <2>3 DEF Range
<1>5. ASSUME NEW i \in 1 .. n + 1, NEW j \in 1 .. n + 1, i < j
      PROVE  t[i] < t[j]
  <2>1. i \in 1 .. n /\ t[i] = s[i]
    BY <1>5
  <2>2. CASE j = n + 1
    BY <1>1, <2>1, <2>2
  <2>3. CASE j # n + 1
    <3>1. j \in 1 .. n
      BY <2>3
    <3>2. QED  BY <1>5, <2>1, <3>1 DEF Lists
  <2>4. QED  BY <2>2, <2>3
<1>6. QED  BY <1>4, <1>5 DEF Lists

\* A list is as long as the set has members.
LEMMA ListsCount ==
  ASSUME NEW n \in Nat, NEW s \in [1 .. n -> Nat], NEW S, Lists(s, S)
  PROVE  IsFiniteSet(S) /\ Cardinality(S) = n
<1>1. \A i, j \in 1 .. n : s[i] = s[j] => i = j
  <2>1. ASSUME NEW i \in 1 .. n, NEW j \in 1 .. n, i < j
        PROVE  s[i] # s[j]
    <3>1. s[i] < s[j]
      BY <2>1 DEF Lists
    <3>2. QED  BY <3>1
  <2>2. QED  BY <2>1
<1>2. s \in [1 .. n -> S]
  BY DEF Lists, Range
<1>3. s \in Injection(1 .. n, S)
  BY <1>1, <1>2 DEF Injection, IsInjective
<1>4. s \in Surjection(1 .. n, S)
  BY <1>2 DEF Surjection, Lists, Range
<1>5. IsFiniteSet(1 .. n) /\ Cardinality(1 .. n) = n
  BY FS_Interval
<1>6. QED  BY <1>3, <1>4, <1>5, FS_Surjection

-----------------------------------------------------------------------------
(* The steps.                                                              *)

\* What the invariant says of the cursor and the command at it.
LEMMA CursorFacts ==
  ASSUME IInv, at \in {"start", "loop"}
  PROVE  /\ line \in Lines /\ DOMAIN line = 1 .. Len(line) /\ Len(line) \in Nat
         /\ pos \in Nat /\ pos >= 1 /\ pos <= Len(line) + 1
         /\ cmd \in Command /\ cmds \in Seq(Command)
         /\ Len(cmds) \in Nat /\ DOMAIN cmds = 1 .. Len(cmds)
         /\ CommandOf(pos) \in Commands /\ CommandOf(pos) \in Nat
         /\ Len(cmds) + 1 = CommandOf(pos) /\ ~File[pos]
         /\ \A i \in DOMAIN line :
              File[i] <=> i > 1 /\ line[i - 1] \in Redirections /\ ~File[i - 1]
         /\ \A i \in Nat :
              File[i] <=> i > 1 /\ line[i - 1] \in Redirections /\ ~File[i - 1]
<1>1. KindInv /\ ParsedInv
  BY DEF IInv
<1>2. line \in Lines /\ DOMAIN line = 1 .. Len(line) /\ Len(line) \in Nat
  BY <1>1, LineFacts DEF KindInv
<1>3. pos \in Nat /\ pos >= 1 /\ pos <= Len(line) + 1
  BY <1>1, <1>2 DEF KindInv
<1>4. /\ cmd \in Command /\ cmds \in Seq(Command)
      /\ Len(cmds) \in Nat /\ DOMAIN cmds = 1 .. Len(cmds)
  BY <1>1, LenProperties DEF KindInv
<1>5. CommandOf(pos) \in Commands /\ CommandOf(pos) \in Nat
  BY <1>2, <1>3, Numbering
<1>6. Len(cmds) + 1 = CommandOf(pos) /\ ~File[pos]
  BY <1>1 DEF ParsedInv
<1>7. \A i \in Nat :
        File[i] <=> i > 1 /\ line[i - 1] \in Redirections /\ ~File[i - 1]
  BY FileIs
<1>8. \A i \in DOMAIN line :
        File[i] <=> i > 1 /\ line[i - 1] \in Redirections /\ ~File[i - 1]
  BY <1>2, <1>7
<1>9. QED  BY <1>2, <1>3, <1>4, <1>5, <1>6, <1>7, <1>8

\* The two sequences of a command.
LEMMA CommandFacts ==
  ASSUME line \in Lines, NEW c \in Command
  PROVE  /\ c.argv \in Seq(DOMAIN line) /\ Len(c.argv) \in Nat
         /\ DOMAIN c.argv = 1 .. Len(c.argv)
         /\ c.argv \in [1 .. Len(c.argv) -> Nat]
         /\ c.redirs \in Seq(Redirections \X DOMAIN line) /\ Len(c.redirs) \in Nat
         /\ DOMAIN c.redirs = 1 .. Len(c.redirs)
         /\ \A j \in DOMAIN c.redirs : c.redirs[j][2] \in DOMAIN line
<1>1. c.argv \in Seq(DOMAIN line) /\ c.redirs \in Seq(Redirections \X DOMAIN line)
  BY DEF Command
<1>2. /\ Len(c.argv) \in Nat /\ DOMAIN c.argv = 1 .. Len(c.argv)
      /\ c.argv \in [1 .. Len(c.argv) -> DOMAIN line]
  BY <1>1, LenProperties
<1>3. /\ Len(c.redirs) \in Nat /\ DOMAIN c.redirs = 1 .. Len(c.redirs)
      /\ c.redirs \in [1 .. Len(c.redirs) -> Redirections \X DOMAIN line]
  BY <1>1, LenProperties
<1>4. DOMAIN line \subseteq Nat
  BY LineFacts
<1>5. QED  BY <1>1, <1>2, <1>3, <1>4

\* What stays as it is while the parser is at one command.
LEMMA OnInCommand ==
  ASSUME IInv, at \in {"start", "loop"}, at' \in {"start", "loop"},
         line' = line, cmds' = cmds, cmd' \in Command,
         pos' \in 1 .. Len(line) + 1, CommandOf(pos') = CommandOf(pos), ~File[pos'],
         Means(cmd', {i \in Arguments(CommandOf(pos)) : i < pos'},
                     {i \in Files(CommandOf(pos)) : i < pos'}),
         Len(cmd'.argv) <= MAXARGS - 1
  PROVE  IInv'
<1>1. /\ File' = File /\ Bars' = Bars /\ Commands' = Commands
      /\ \A i : CommandOf(i)' = CommandOf(i)
      /\ \A k : Arguments(k)' = Arguments(k) /\ Files(k)' = Files(k)
  BY SameMeaning
<1>2. KindInv'
  BY DEF IInv, KindInv, Command
<1>3. FitInv'
  BY DEF IInv, FitInv
<1>4. \A k \in DOMAIN cmds' :
        (Means(cmds[k], Arguments(k), Files(k)))'
  BY <1>1 DEF IInv, ParsedInv, Means
<1>5. CommandOf(pos)' = CommandOf(pos)
  BY <1>1 DEF CommandOf
<1>6. (Means(cmd, Before(Arguments(CommandOf(pos))), Before(Files(CommandOf(pos)))))'
  BY <1>1, <1>5 DEF Means, Before
<1>7. ParsedInv'
  BY <1>1, <1>4, <1>5, <1>6, CursorFacts DEF ParsedInv
<1>8. RefusesOnlyBad'
  BY DEF RefusesOnlyBad
<1>9. QED  BY <1>2, <1>3, <1>7, <1>8 DEF IInv

\* A redirect is one more file of the command at the cursor.
LEMMA RedirectInv ==
  ASSUME IInv, Redirect
  PROVE  IInv'
<1> DEFINE k == CommandOf(pos)
           new == <<line[pos], pos + 1>>
<1>1. /\ at \in {"start", "loop"} /\ at' = at /\ line' = line /\ cmds' = cmds
      /\ pos' = pos + 2 /\ cmd' = [cmd EXCEPT !.redirs = Append(@, new)]
      /\ pos < Len(line) /\ line[pos] \in Redirections
  BY DEF Redirect, Peek
<1>2. /\ line \in Lines /\ DOMAIN line = 1 .. Len(line) /\ Len(line) \in Nat
      /\ pos \in Nat /\ pos >= 1 /\ cmd \in Command /\ k \in Nat /\ ~File[pos]
      /\ \A i \in Nat :
           File[i] <=> i > 1 /\ line[i - 1] \in Redirections /\ ~File[i - 1]
  BY <1>1, CursorFacts
<1>3. pos \in DOMAIN line /\ pos + 1 \in DOMAIN line /\ pos + 2 \in 1 .. Len(line) + 1
  BY <1>1, <1>2
<1>4. File[pos + 1] /\ ~File[pos + 2]
  <2>1. pos + 1 \in Nat /\ pos + 2 \in Nat /\ (pos + 1) - 1 = pos
        /\ (pos + 2) - 1 = pos + 1 /\ pos + 1 > 1
    BY <1>2
  <2>2. File[pos + 1]
    BY <1>1, <1>2, <2>1
  <2>3. QED  BY <1>2, <2>1, <2>2
<1>5. pos \notin Bars /\ pos + 1 \notin Bars
  BY <1>1, <1>4 DEF Bars, Redirections
<1>6. CommandOf(pos + 1) = k /\ CommandOf(pos + 2) = k
  <2>1. CommandOf(pos + 1) = k
    BY <1>2, <1>5, Numbering
  <2>2. pos + 1 \in Nat /\ (pos + 1) + 1 = pos + 2
    BY <1>2
  <2>3. CommandOf((pos + 1) + 1) = CommandOf(pos + 1)
    BY <1>2, <1>5, <2>2, Numbering
  <2>4. QED  BY <2>1, <2>2, <2>3
<1>7. /\ pos \notin Arguments(k) /\ pos + 1 \notin Arguments(k)
      /\ pos \notin Files(k) /\ pos + 1 \in Files(k)
  BY <1>1, <1>2, <1>3, <1>4, <1>6 DEF Arguments, Files, Redirections
<1>8. /\ Arguments(k) \subseteq DOMAIN line /\ Files(k) \subseteq DOMAIN line
      /\ DOMAIN line \subseteq Nat
  BY <1>2 DEF Arguments, Files
<1>9. \A i \in Nat : i < pos + 2 <=> i < pos \/ i = pos \/ i = pos + 1
  BY <1>2
<1>10. /\ {i \in Arguments(k) : i < pos + 2} = Before(Arguments(k))
       /\ {i \in Files(k) : i < pos + 2} = Before(Files(k)) \cup {pos + 1}
  BY <1>7, <1>8, <1>9 DEF Before
<1>11. Means(cmd, Before(Arguments(k)), Before(Files(k)))
  BY <1>1 DEF IInv, ParsedInv
<1>12. /\ cmd.redirs \in Seq(Redirections \X DOMAIN line) /\ Len(cmd.redirs) \in Nat
       /\ DOMAIN cmd.redirs = 1 .. Len(cmd.redirs)
  BY <1>2, CommandFacts
<1>13. new \in Redirections \X DOMAIN line
  BY <1>1, <1>3
<1> DEFINE n == Len(cmd.redirs)
           more == Append(cmd.redirs, new)
<1>14. /\ more \in Seq(Redirections \X DOMAIN line) /\ DOMAIN more = 1 .. n + 1
       /\ \A i \in 1 .. n : more[i] = cmd.redirs[i]
       /\ more[n + 1] = new
  <2> HIDE DEF new
  <2>1. QED  BY <1>12, <1>13, AppendProperties, LenProperties
<1>15. new[1] = line[pos] /\ new[2] = pos + 1
  OBVIOUS
<1> HIDE DEF new, more
<1>16. /\ cmd' \in Command /\ cmd'.argv = cmd.argv /\ cmd'.redirs = more
  BY <1>1, <1>2, <1>14 DEF Command, more
<1>17. Lists([j \in DOMAIN more |-> more[j][2]], Before(Files(k)) \cup {pos + 1})
  <2> DEFINE s == [j \in DOMAIN cmd.redirs |-> cmd.redirs[j][2]]
             t == [j \in DOMAIN more |-> more[j][2]]
             S == Before(Files(k))
  <2>1. Lists(s, S)
    BY <1>11 DEF Means
  <2>2. S \subseteq Nat /\ \A q \in S : q < pos + 1
    BY <1>2, <1>8 DEF Before
  <2>3. /\ DOMAIN s = 1 .. n /\ DOMAIN t = 1 .. n + 1
        /\ \A i \in 1 .. n : t[i] = s[i]
        /\ t[n + 1] = pos + 1 /\ n \in Nat
    BY <1>12, <1>14, <1>15
  <2> HIDE DEF s, t, S, n
  <2>4. Lists(t, S \cup {pos + 1})
    BY <2>1, <2>2, <2>3, ListsMore
  <2>5. QED  BY <2>4 DEF t, S
<1>18. \A j \in DOMAIN more : more[j][1] = line[more[j][2] - 1]
  <2>1. ASSUME NEW j \in 1 .. n + 1 PROVE more[j][1] = line[more[j][2] - 1]
    <3>1. CASE j = n + 1
      <4>1. (pos + 1) - 1 = pos
        BY <1>2
      <4>2. QED  BY <1>14, <1>15, <3>1, <4>1
    <3>2. CASE j # n + 1
      <4>1. j \in 1 .. n
        BY <1>12, <3>2
      <4>2. QED  BY <1>11, <1>12, <1>14, <4>1 DEF Means
    <3>3. QED  BY <3>1, <3>2
  <2>2. QED  BY <1>14, <2>1
<1> HIDE DEF k
<1>19. Means(cmd', {i \in Arguments(k) : i < pos'}, {i \in Files(k) : i < pos'})
  <2>1. /\ {i \in Arguments(k) : i < pos'} = Before(Arguments(k))
        /\ {i \in Files(k) : i < pos'} = Before(Files(k)) \cup {pos + 1}
    BY <1>1, <1>10
  <2>2. Lists(cmd'.argv, Before(Arguments(k)))
    BY <1>11, <1>16 DEF Means
  <2>3. QED  BY <1>16, <1>17, <1>18, <2>1, <2>2 DEF Means
<1>20. Len(cmd'.argv) <= MAXARGS - 1
  BY <1>16 DEF IInv, FitInv
<1>21. QED
  BY <1>1, <1>3, <1>4, <1>6, <1>16, <1>19, <1>20, OnInCommand DEF k

\* The assignment of cmde.
LEMMA CastInv ==
  ASSUME IInv, Cast
  PROVE  IInv'
<1>1. /\ at = "start" /\ at' = "loop" /\ line' = line /\ cmds' = cmds /\ pos' = pos
      /\ cmd' = [cmd EXCEPT !.overwritten = cmd.redirs # <<>>]
  BY DEF Cast
<1>2. cmd \in Command /\ pos \in 1 .. Len(line) + 1 /\ ~File[pos]
  BY <1>1, CursorFacts DEF IInv, KindInv
<1>3. cmd' \in Command /\ cmd'.argv = cmd.argv /\ cmd'.redirs = cmd.redirs
  BY <1>1, <1>2 DEF Command
<1>4. Means(cmd, Before(Arguments(CommandOf(pos))), Before(Files(CommandOf(pos))))
  BY <1>1 DEF IInv, ParsedInv
<1>5. Means(cmd', {i \in Arguments(CommandOf(pos)) : i < pos'},
                  {i \in Files(CommandOf(pos)) : i < pos'})
  BY <1>1, <1>3, <1>4 DEF Means, Before
<1>6. Len(cmd'.argv) <= MAXARGS - 1
  BY <1>3 DEF IInv, FitInv
<1>7. QED  BY <1>1, <1>2, <1>3, <1>5, <1>6, OnInCommand

\* A token that is no < or > is not followed by a file.
LEMMA NoFileNext ==
  ASSUME IInv, at \in {"start", "loop"}, pos <= Len(line), line[pos] \notin Redirections
  PROVE  pos + 1 \in 1 .. Len(line) + 1 /\ ~File[pos + 1]
<1>1. pos \in Nat /\ pos >= 1 /\ Len(line) \in Nat
  BY CursorFacts
<1>2. pos + 1 \in Nat /\ (pos + 1) - 1 = pos
  BY <1>1
<1>3. QED  BY <1>1, <1>2, CursorFacts

\* A word is one more argument.
LEMMA WordInv ==
  ASSUME IInv, Word
  PROVE  IInv'
<1> DEFINE k == CommandOf(pos)
           n == Len(cmd.argv)
           more == Append(cmd.argv, pos)
<1>1. /\ at = "loop" /\ at' = at /\ line' = line /\ cmds' = cmds
      /\ pos' = pos + 1 /\ cmd' = [cmd EXCEPT !.argv = more]
      /\ pos <= Len(line) /\ line[pos] = "word" /\ ~(n + 1 >= MAXARGS)
  BY DEF Word, Peek, TooMany
<1>2. /\ line \in Lines /\ DOMAIN line = 1 .. Len(line) /\ Len(line) \in Nat
      /\ pos \in Nat /\ pos >= 1 /\ cmd \in Command /\ k \in Nat /\ ~File[pos]
  BY <1>1, CursorFacts
<1>3. pos + 1 \in 1 .. Len(line) + 1 /\ ~File[pos + 1]
  BY <1>1, NoFileNext DEF Redirections
<1>4. pos \in DOMAIN line /\ pos \notin Bars /\ CommandOf(pos + 1) = k
  <2>1. pos \in DOMAIN line /\ pos \notin Bars
    BY <1>1, <1>2 DEF Bars
  <2>2. QED  BY <1>2, <2>1, Numbering
<1>5. pos \in Arguments(k) /\ pos \notin Files(k)
  BY <1>1, <1>2, <1>4 DEF Arguments, Files
<1>6. /\ Arguments(k) \subseteq DOMAIN line /\ Files(k) \subseteq DOMAIN line
      /\ DOMAIN line \subseteq Nat
  BY <1>2 DEF Arguments, Files
<1>7. \A i \in Nat : i < pos + 1 <=> i < pos \/ i = pos
  BY <1>2
<1>8. /\ {i \in Arguments(k) : i < pos + 1} = Before(Arguments(k)) \cup {pos}
      /\ {i \in Files(k) : i < pos + 1} = Before(Files(k))
  BY <1>5, <1>6, <1>7 DEF Before
<1>9. Means(cmd, Before(Arguments(k)), Before(Files(k)))
  BY <1>1 DEF IInv, ParsedInv
<1>10. /\ cmd.argv \in Seq(DOMAIN line) /\ n \in Nat /\ DOMAIN cmd.argv = 1 .. n
  BY <1>2, CommandFacts
<1>11. /\ more \in Seq(DOMAIN line) /\ DOMAIN more = 1 .. n + 1 /\ Len(more) = n + 1
       /\ \A i \in 1 .. n : more[i] = cmd.argv[i]
       /\ more[n + 1] = pos
  BY <1>4, <1>10, AppendProperties, LenProperties
<1> HIDE DEF more
<1>12. cmd' \in Command /\ cmd'.argv = more /\ cmd'.redirs = cmd.redirs
  BY <1>1, <1>2, <1>11 DEF Command
<1>13. Lists(more, Before(Arguments(k)) \cup {pos})
  <2> DEFINE S == Before(Arguments(k))
  <2>1. Lists(cmd.argv, S)
    BY <1>9 DEF Means
  <2>2. S \subseteq Nat /\ \A q \in S : q < pos
    BY <1>6 DEF Before
  <2> HIDE DEF S, n
  <2>3. QED  BY <1>10, <1>11, <2>1, <2>2, ListsMore DEF S
<1> HIDE DEF k
<1>14. Means(cmd', {i \in Arguments(k) : i < pos'}, {i \in Files(k) : i < pos'})
  BY <1>1, <1>8, <1>9, <1>12, <1>13 DEF Means
<1>15. Len(cmd'.argv) <= MAXARGS - 1
  BY <1>1, <1>10, <1>11, <1>12, ShellParserAssumption
<1>16. QED  BY <1>1, <1>3, <1>4, <1>12, <1>14, <1>15, OnInCommand DEF k

\* A command that is complete has all its arguments and files behind the cursor.
LEMMA WholeCommand ==
  ASSUME IInv, at \in {"start", "loop"},
         \/ pos > Len(line)
         \/ pos \in Bars
  PROVE  LET k == CommandOf(pos) IN
         /\ Before(Arguments(k)) = Arguments(k)
         /\ Before(Files(k)) = Files(k)
<1> DEFINE k == CommandOf(pos)
<1>1. /\ line \in Lines /\ DOMAIN line = 1 .. Len(line) /\ Len(line) \in Nat
      /\ pos \in Nat /\ pos >= 1 /\ k \in Nat /\ ~File[pos]
  BY CursorFacts
<1>2. ASSUME NEW i \in DOMAIN line, CommandOf(i) = k, pos \in Bars, i >= pos
      PROVE  i = pos
  <2>1. i \in Nat /\ pos + 1 \in Nat
    BY <1>1
  <2>2. CommandOf(pos + 1) = k + 1
    BY <1>1, <1>2, Numbering
  <2>3. CASE i >= pos + 1
    <3>1. CommandOf(pos + 1) <= CommandOf(i)
      BY <1>1, <2>1, <2>3, Numbering
    <3>2. QED  BY <1>1, <1>2, <2>2, <3>1
  <2>4. QED  BY <1>1, <1>2, <2>1, <2>3
<1>3. ASSUME NEW i \in Arguments(k) \cup Files(k) PROVE i < pos
  <2>1. i \in DOMAIN line /\ CommandOf(i) = k /\ (File[i] \/ line[i] = "word")
    BY DEF Arguments, Files
  <2>2. CASE pos > Len(line)
    BY <1>1, <2>1, <2>2
  <2>3. CASE pos \in Bars
    <3>1. line[pos] = "|"
      BY <2>3 DEF Bars
    <3>2. i # pos
      BY <1>1, <2>1, <3>1
    <3>3. QED  BY <1>1, <1>2, <2>1, <2>3, <3>2
  <2>4. QED  BY <2>2, <2>3
<1>4. QED  BY <1>3 DEF Before

\* The commands with the one that parse_exec returns.
LEMMA Returned ==
  ASSUME IInv, at \in {"start", "loop"}, line' = line, cmds' = Append(cmds, cmd),
         pos > Len(line) \/ pos \in Bars
  PROVE  /\ cmds' \in Seq(Command) /\ Len(cmds') = CommandOf(pos)
         /\ \A k \in DOMAIN cmds' : /\ Means(cmds'[k], Arguments(k), Files(k))
                                    /\ Len(cmds'[k].argv) <= MAXARGS - 1
<1> DEFINE n == Len(cmds)
<1>1. /\ cmd \in Command /\ cmds \in Seq(Command) /\ n \in Nat
      /\ DOMAIN cmds = 1 .. n /\ n + 1 = CommandOf(pos)
  BY CursorFacts
<1>2. /\ cmds' \in Seq(Command) /\ Len(cmds') = n + 1 /\ DOMAIN cmds' = 1 .. n + 1
      /\ \A i \in 1 .. n : cmds'[i] = cmds[i]
      /\ cmds'[n + 1] = cmd
  BY <1>1, AppendProperties, LenProperties
<1>3. Means(cmd, Arguments(n + 1), Files(n + 1))
  <2>1. Means(cmd, Before(Arguments(CommandOf(pos))), Before(Files(CommandOf(pos))))
    BY DEF IInv, ParsedInv
  <2>2. QED  BY <1>1, <2>1, WholeCommand
<1>4. ASSUME NEW k \in 1 .. n + 1
      PROVE  /\ Means(cmds'[k], Arguments(k), Files(k))
             /\ Len(cmds'[k].argv) <= MAXARGS - 1
  <2>1. CASE k = n + 1
    BY <1>2, <1>3, <2>1 DEF IInv, FitInv
  <2>2. CASE k # n + 1
    <3>1. k \in 1 .. n
      BY <1>1, <2>2
    <3>2. QED  BY <1>1, <1>2, <3>1 DEF IInv, FitInv, ParsedInv
  <2>3. QED  BY <2>1, <2>2
<1>5. QED  BY <1>1, <1>2, <1>4

\* A new command has nothing.
LEMMA NewCommandFacts ==
  /\ NewCommand \in Command /\ NewCommand.redirs = <<>>
  /\ Means(NewCommand, {}, {})
  /\ Len(NewCommand.argv) <= MAXARGS - 1
<1>1. /\ NewCommand.argv = <<>> /\ NewCommand.redirs = <<>>
      /\ NewCommand \in Command
  BY EmptySeq DEF NewCommand, Command
<1>2. DOMAIN <<>> = {} /\ Len(<<>>) = 0
  OBVIOUS
<1>3. Lists(<<>>, {})
  BY <1>2, ListsNone
<1>4. Lists([j \in DOMAIN <<>> |-> <<>>[j][2]], {})
  BY <1>2, ListsNone
<1>5. QED  BY <1>1, <1>2, <1>3, <1>4, ShellParserAssumption DEF Means

\* The command ends at a pipe, the next one starts behind it.
LEMMA PipeInv ==
  ASSUME IInv, Pipe
  PROVE  IInv'
<1>0. PICK k : k = CommandOf(pos)
  OBVIOUS
<1>1. /\ at = "loop" /\ at' = "start" /\ line' = line /\ pos' = pos + 1
      /\ cmds' = Append(cmds, cmd) /\ cmd' = NewCommand
      /\ pos <= Len(line) /\ line[pos] = "|"
  BY DEF Pipe, Peek
<1>2. /\ line \in Lines /\ DOMAIN line = 1 .. Len(line) /\ Len(line) \in Nat
      /\ pos \in Nat /\ pos >= 1 /\ k \in Nat /\ ~File[pos]
  BY <1>0, <1>1, CursorFacts
<1>3. pos + 1 \in 1 .. Len(line) + 1 /\ ~File[pos + 1]
  BY <1>1, NoFileNext DEF Redirections
<1>4. pos \in Bars
  BY <1>1, <1>2 DEF Bars
<1>5. CommandOf(pos + 1) = k + 1
  BY <1>0, <1>2, <1>4, Numbering
<1>6. /\ cmds' \in Seq(Command) /\ Len(cmds') = k
      /\ \A c \in DOMAIN cmds' : /\ Means(cmds'[c], Arguments(c), Files(c))
                                 /\ Len(cmds'[c].argv) <= MAXARGS - 1
  BY <1>0, <1>1, <1>4, Returned
<1>7. /\ {i \in Arguments(k + 1) : i < pos + 1} = {}
      /\ {i \in Files(k + 1) : i < pos + 1} = {}
  <2>1. ASSUME NEW i \in DOMAIN line, CommandOf(i) = k + 1, i < pos + 1 PROVE FALSE
    <3>1. i \in Nat /\ i <= pos
      BY <1>2, <2>1
    <3>2. CommandOf(i) <= k
      BY <1>0, <1>2, <3>1, Numbering
    <3>3. QED  BY <1>2, <2>1, <3>2
  <2>2. QED  BY <2>1 DEF Arguments, Files
<1>8. /\ File' = File /\ \A i : CommandOf(i)' = CommandOf(i)
      /\ \A c : Arguments(c)' = Arguments(c) /\ Files(c)' = Files(c)
  BY <1>1, SameMeaning
<1>9. CommandOf(pos)' = k + 1
  BY <1>1, <1>5, <1>8
<1>10. KindInv'
  BY <1>1, <1>3, <1>6, NewCommandFacts DEF IInv, KindInv, Command
<1>11. FitInv'
  BY <1>1, <1>6, NewCommandFacts DEF FitInv
<1>12. ParsedInv'
  <2>1. (\A c \in DOMAIN cmds : Means(cmds[c], Arguments(c), Files(c)))'
    BY <1>1, <1>6, <1>8 DEF Means
  <2>2. Before(Arguments(k + 1))' = {} /\ Before(Files(k + 1))' = {}
    BY <1>1, <1>7, <1>8 DEF Before
  <2>3. /\ Lists(NewCommand.argv, {})
        /\ Lists([j \in DOMAIN NewCommand.redirs |-> NewCommand.redirs[j][2]], {})
        /\ DOMAIN NewCommand.redirs = {}
    <3>1. Means(NewCommand, {}, {}) /\ NewCommand.redirs = <<>>
      BY NewCommandFacts
    <3>2. QED  BY <3>1 DEF Means
  <2>4. (Means(cmd, Before(Arguments(k + 1)), Before(Files(k + 1))))'
    BY <1>1, <2>2, <2>3 DEF Means, Lists
  <2>5. (Len(cmds) + 1 = CommandOf(pos))' /\ (~File[pos])'
    BY <1>1, <1>3, <1>6, <1>8, <1>9
  <2>6. (Means(cmd, Before(Arguments(CommandOf(pos))), Before(Files(CommandOf(pos)))))'
    BY <1>9, <2>4
  <2>7. QED  BY <1>1, <2>1, <2>5, <2>6 DEF ParsedInv
<1>13. RefusesOnlyBad'
  BY <1>1 DEF RefusesOnlyBad
<1>14. QED  BY <1>10, <1>11, <1>12, <1>13 DEF IInv

\* The last command ends with the line.
LEMMA EndInv ==
  ASSUME IInv, End
  PROVE  IInv'
<1>1. /\ at = "loop" /\ at' = "done" /\ line' = line /\ pos' = pos
      /\ cmds' = Append(cmds, cmd) /\ cmd' = NewCommand /\ pos > Len(line)
  BY DEF End
<1>2. /\ line \in Lines /\ Len(line) \in Nat /\ DOMAIN line = 1 .. Len(line)
      /\ pos = Len(line) + 1 /\ ~File[pos]
      /\ \A i \in Nat :
           File[i] <=> i > 1 /\ line[i - 1] \in Redirections /\ ~File[i - 1]
  BY <1>1, CursorFacts
<1>3. /\ cmds' \in Seq(Command) /\ Len(cmds') = Cardinality(Bars) + 1
      /\ \A c \in DOMAIN cmds' : /\ Means(cmds'[c], Arguments(c), Files(c))
                                 /\ Len(cmds'[c].argv) <= MAXARGS - 1
  BY <1>1, <1>2, Returned, Numbering
<1>4. /\ Bars' = Bars /\ FileMissing' = FileMissing
      /\ \A c : Arguments(c)' = Arguments(c) /\ Files(c)' = Files(c)
  BY <1>1, SameMeaning
<1>5. ~FileMissing
  <2>1. ASSUME line # <<>>, line[Len(line)] \in Redirections, ~File[Len(line)]
        PROVE  FALSE
    <3>1. Len(line) # 0
      BY <1>2, <2>1, LineFacts
    <3>2. pos \in Nat /\ pos > 1 /\ pos - 1 = Len(line)
      BY <1>2, <3>1
    <3>3. QED  BY <1>2, <2>1, <3>2
  <2>2. QED  BY <1>2, <2>1, LineFacts DEF FileMissing
<1>6. KindInv'
  BY <1>1, <1>3, NewCommandFacts DEF IInv, KindInv, Command
<1>7. FitInv'
  BY <1>1, <1>3, NewCommandFacts DEF FitInv
<1>8. ParsedInv'
  <2>1. (\A c \in DOMAIN cmds : Means(cmds[c], Arguments(c), Files(c)))'
    BY <1>1, <1>3, <1>4 DEF Means
  <2>2. QED  BY <1>1, <1>3, <1>4, <1>5, <2>1 DEF ParsedInv
<1>9. RefusesOnlyBad'
  BY <1>1 DEF RefusesOnlyBad
<1>10. QED  BY <1>6, <1>7, <1>8, <1>9 DEF IInv

\* The parser gives up, for a reason.
LEMMA ExitsInv ==
  ASSUME IInv, Exits, at \in {"start", "loop"},
         FileMissing \/ \E k \in Commands : Cardinality(Arguments(k)) >= MAXARGS
  PROVE  IInv'
<1>1. at' = "exited" /\ line' = line /\ pos' = pos /\ cmds' = cmds /\ cmd' = cmd
  BY DEF Exits
<1>2. /\ Commands' = Commands /\ FileMissing' = FileMissing
      /\ \A k : Arguments(k)' = Arguments(k) /\ Files(k)' = Files(k)
  BY <1>1, SameMeaning
<1>3. KindInv' /\ FitInv'
  BY <1>1 DEF IInv, KindInv, FitInv, Command
<1>4. ParsedInv'
  <2>1. (\A k \in DOMAIN cmds : Means(cmds[k], Arguments(k), Files(k)))'
    BY <1>1, <1>2 DEF IInv, ParsedInv, Means
  <2>2. QED  BY <1>1, <2>1 DEF ParsedInv
<1>5. RefusesOnlyBad'
  BY <1>2 DEF RefusesOnlyBad
<1>6. QED  BY <1>3, <1>4, <1>5 DEF IInv

\* Why the parser gives up: the last token has no file, or one more argument
\* is one too many.
LEMMA FailsInv ==
  ASSUME IInv, RedirectFails \/ WordFails
  PROVE  IInv'
<1>1. CASE RedirectFails
  <2>1. at \in {"start", "loop"} /\ pos = Len(line) /\ line[pos] \in Redirections /\ Exits
    BY <1>1 DEF RedirectFails, Peek
  <2>2. line \in Lines /\ ~File[pos] /\ pos >= 1 /\ Len(line) \in Nat
    BY <2>1, CursorFacts
  <2>3. line # <<>>
    BY <2>1, <2>2
  <2>4. FileMissing
    BY <2>1, <2>2, <2>3, LineFacts DEF FileMissing
  <2>5. QED  BY <2>1, <2>4, ExitsInv
<1>2. CASE WordFails
  <2> DEFINE k == CommandOf(pos)
             n == Len(cmd.argv)
             B == Before(Arguments(k))
  <2>1. /\ at = "loop" /\ pos <= Len(line) /\ line[pos] = "word"
        /\ n + 1 >= MAXARGS /\ Exits
    BY <1>2 DEF WordFails, Peek, TooMany
  <2>2. /\ line \in Lines /\ DOMAIN line = 1 .. Len(line) /\ Len(line) \in Nat
        /\ pos \in Nat /\ pos >= 1 /\ cmd \in Command /\ k \in Commands /\ ~File[pos]
    BY <2>1, CursorFacts
  <2>3. n \in Nat /\ cmd.argv \in [1 .. n -> Nat]
    BY <2>2, CommandFacts
  <2>4. Lists(cmd.argv, B)
    BY <2>1 DEF IInv, ParsedInv, Means
  <2>5. IsFiniteSet(B) /\ Cardinality(B) = n
    <3> HIDE DEF B, n
    <3>1. QED  BY <2>3, <2>4, ListsCount
  <2>6. pos \in Arguments(k) /\ pos \notin B
    BY <2>1, <2>2 DEF Arguments, Before
  <2>7. Cardinality(B \cup {pos}) = n + 1
    <3> HIDE DEF B, n
    <3>1. QED  BY <2>5, <2>6, FS_AddElement
  <2>8. B \cup {pos} \subseteq Arguments(k)
    BY <2>6 DEF Before
  <2>9. IsFiniteSet(Arguments(k)) /\ Cardinality(Arguments(k)) \in Nat
    <3>1. Arguments(k) \subseteq 1 .. Len(line) /\ IsFiniteSet(1 .. Len(line))
      BY <2>2, FS_Interval DEF Arguments
    <3>2. QED  BY <3>1, FS_Subset, FS_CardinalityType
  <2>10. Cardinality(B \cup {pos}) <= Cardinality(Arguments(k))
    <3> HIDE DEF B, k
    <3>1. QED  BY <2>8, <2>9, FS_Subset
  <2>11. Cardinality(Arguments(k)) >= MAXARGS
    <3> HIDE DEF B, k, n
    <3>1. QED  BY <2>1, <2>3, <2>7, <2>9, <2>10, ShellParserAssumption
  <2> HIDE DEF k
  <2>12. QED  BY <2>1, <2>2, <2>11, ExitsInv
<1>3. QED  BY <1>1, <1>2

-----------------------------------------------------------------------------
(* The invariant, and what it says.                                        *)

\* Nothing has been parsed at first.
LEMMA InitInv == Init => IInv
<1> SUFFICES ASSUME Init PROVE IInv
  OBVIOUS
<1>1. /\ line \in Lines /\ pos = 1 /\ cmds = <<>> /\ cmd = NewCommand /\ at = "start"
  BY DEF Init
<1>2. Len(line) \in Nat /\ DOMAIN line = 1 .. Len(line)
  BY <1>1, LineFacts
<1>3. cmds \in Seq(Command) /\ Len(cmds) = 0 /\ DOMAIN cmds = {}
  BY <1>1, EmptySeq
<1>4. KindInv
  BY <1>1, <1>2, <1>3, NewCommandFacts DEF KindInv
<1>5. FitInv
  BY <1>1, <1>3, NewCommandFacts DEF FitInv
<1>6. ~File[1] /\ CommandOf(1) = 1
  <2>1. 1 \in Nat /\ ~(1 > 1)
    OBVIOUS
  <2>2. ~File[1]
    BY <1>1, <2>1, FileIs
  <2>3. QED  BY <1>1, <2>2, Numbering
<1>7. Before(Arguments(1)) = {} /\ Before(Files(1)) = {}
  <2>1. \A i \in DOMAIN line : ~(i < 1)
    BY <1>2
  <2>2. QED  BY <1>1, <2>1 DEF Before, Arguments, Files
<1>8. ParsedInv
  <2>1. Means(cmd, Before(Arguments(CommandOf(pos))), Before(Files(CommandOf(pos))))
    BY <1>1, <1>6, <1>7, NewCommandFacts
  <2>2. Len(cmds) + 1 = CommandOf(pos) /\ ~File[pos]
    BY <1>1, <1>3, <1>6
  <2>3. QED  BY <1>1, <1>3, <2>1, <2>2 DEF ParsedInv
<1>9. QED  BY <1>1, <1>4, <1>5, <1>8 DEF IInv, RefusesOnlyBad

\* Every step keeps the invariant.
LEMMA NextInv == IInv /\ [Next]_vars => IInv'
<1> SUFFICES ASSUME IInv, [Next]_vars PROVE IInv'
  OBVIOUS
<1>1. CASE UNCHANGED vars
  <2>1. /\ line' = line /\ pos' = pos /\ cmds' = cmds /\ cmd' = cmd /\ at' = at
    BY <1>1 DEF vars
  <2>2. /\ File' = File /\ Bars' = Bars /\ Commands' = Commands
        /\ \A i : CommandOf(i)' = CommandOf(i)
        /\ \A k : Arguments(k)' = Arguments(k) /\ Files(k)' = Files(k)
        /\ FileMissing' = FileMissing
    BY <2>1, SameMeaning
  <2>3. KindInv' /\ FitInv' /\ RefusesOnlyBad'
    BY <2>1, <2>2 DEF IInv, KindInv, FitInv, Command, RefusesOnlyBad
  <2>4. (\A k \in DOMAIN cmds : Means(cmds[k], Arguments(k), Files(k)))'
    BY <2>1, <2>2 DEF IInv, ParsedInv, Means
  <2>5. CommandOf(pos)' = CommandOf(pos)
    BY <2>1, <2>2
  <2>6. at \in {"start", "loop"} =>
          (Means(cmd, Before(Arguments(CommandOf(pos))), Before(Files(CommandOf(pos)))))'
    BY <2>1, <2>2, <2>5 DEF IInv, ParsedInv, Means, Before
  <2>7. ParsedInv'
    BY <2>1, <2>2, <2>4, <2>5, <2>6 DEF IInv, ParsedInv
  <2>8. QED  BY <2>3, <2>7 DEF IInv
<1>2. CASE Next
  BY <1>2, RedirectInv, CastInv, WordInv, PipeInv, EndInv, FailsInv DEF Next
<1>3. QED  BY <1>1, <1>2

\* What has been parsed is what the line up to the cursor means, for lines of any
\* length and any MAXARGS.
THEOREM Inductive == Spec => []IInv
BY InitInv, NextInv, PTL DEF Spec

\* The parser's variables are of their kinds and the cursor in the line.
THEOREM Typed == Spec => []TypeOK
<1>1. IInv => TypeOK
  <2> SUFFICES ASSUME IInv PROVE TypeOK
    OBVIOUS
  <2>1. line \in Lines /\ cmds \in Seq(Command) /\ cmd \in Command
    BY DEF IInv, KindInv
  <2>2. \A c \in Range(cmds) : c \in Command
    <3>1. DOMAIN cmds = 1 .. Len(cmds) /\ \A i \in 1 .. Len(cmds) : cmds[i] \in Command
      BY <2>1, LenProperties, ElementOfSeq
    <3>2. QED  BY <3>1 DEF Range
  <2>3. ASSUME NEW c \in Command
        PROVE  /\ Range(c.argv) \subseteq DOMAIN line
               /\ Range(c.redirs) \subseteq Redirections \X DOMAIN line
    <3>1. c.argv \in Seq(DOMAIN line) /\ c.redirs \in Seq(Redirections \X DOMAIN line)
      BY DEF Command
    <3>2. /\ c.argv \in [1 .. Len(c.argv) -> DOMAIN line]
          /\ c.redirs \in [1 .. Len(c.redirs) -> Redirections \X DOMAIN line]
      BY <3>1, LenProperties
    <3>3. QED  BY <3>2 DEF Range
  <2>4. QED  BY <2>1, <2>2, <2>3 DEF IInv, KindInv, TypeOK
<1>2. QED  BY <1>1, Inductive, PTL

\* The NULL after the last argument is stored in argv, in a command_exec.
THEOREM ArgvIsLongEnough == Spec => []ArgvFits
<1>1. IInv => ArgvFits
  BY DEF IInv, FitInv, ArgvFits, Range
<1>2. QED  BY <1>1, Inductive, PTL

\* A line is refused only if it lacks a file or has too many arguments in some
\* command.
THEOREM RefusalsAreJust == Spec => []RefusesOnlyBad
<1>1. IInv => RefusesOnlyBad
  BY DEF IInv
<1>2. QED  BY <1>1, Inductive, PTL

\* A line that is parsed gives the commands it means, with their arguments and
\* redirects.
THEOREM ParsedIsMeant == Spec => []ParsesAsMeant
<1>1. IInv => ParsesAsMeant
  <2> SUFFICES ASSUME IInv, at = "done"
               PROVE  /\ ~FileMissing /\ Len(cmds) = Cardinality(Bars) + 1
                      /\ \A k \in Commands :
                           cmds[k].overwritten \/ Means(cmds[k], Arguments(k), Files(k))
    BY DEF ParsesAsMeant
  <2>1. ~FileMissing /\ Len(cmds) = Cardinality(Bars) + 1
    BY DEF IInv, ParsedInv
  <2>2. DOMAIN cmds = 1 .. Len(cmds)
    BY LenProperties DEF IInv, KindInv
  <2>3. QED  BY <2>1, <2>2 DEF IInv, ParsedInv, Commands
<1>2. QED  BY <1>1, Inductive, PTL
=============================================================================
