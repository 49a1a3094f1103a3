--------------------------- MODULE ShellRunProofs ---------------------------
(***************************************************************************)
(* Proofs about the processes that run a command line (ShellRun), for any  *)
(* trees that the parser may build, whatever fails in them.                *)
(***************************************************************************)
EXTENDS ShellRun, SequenceTheorems, FiniteSetTheorems,
        WellFoundedInduction, TLAPS

\* Every nonempty set of natural numbers has a least element.
LEMMA NatMin ==
  ASSUME NEW T, T \subseteq Nat, T # {}
  PROVE  \E x \in T : \A y \in T : x <= y
<1> DEFINE R == {ss \in Nat \X Nat : ss[1] < ss[2]}
<1>1. IsWellFoundedOn(R, Nat)
  BY NatLessThanWellFounded DEF OpToRel
<1> HIDE DEF R
<1>2. PICK x \in T : \A y \in T : <<y, x>> \notin R
  BY <1>1, WFMin
<1>3. \A y \in Nat : y < x => <<y, x>> \in R
  BY DEF R
<1>4. ASSUME NEW y \in T PROVE x <= y
  <2>1. x \in Nat /\ y \in Nat /\ ~(y < x)
    BY <1>2, <1>3
  <2>2. QED  BY <2>1
<1>5. QED  BY <1>4

\* A sequence without its last element, and with one more.
LEMMA FrontLast ==
  ASSUME NEW S, NEW s \in Seq(S), s # <<>>
  PROVE  /\ Front(s) \in Seq(S)
         /\ Last(s) \in S
         /\ Len(Front(s)) = Len(s) - 1
<1>1. Len(s) \in Nat /\ Len(s) # 0 /\ \A i \in 1 .. Len(s) : s[i] \in S
  BY EmptySeq, LenProperties, ElementOfSeq
<1>2. /\ SubSeq(s, 1, Len(s) - 1) \in Seq(S)
      /\ Len(SubSeq(s, 1, Len(s) - 1)) = Len(s) - 1
  BY <1>1, SubSeqProperties
<1>3. QED  BY <1>1, <1>2 DEF Front, Last

\* A stack with one more call on it.
LEMMA AppendTop ==
  ASSUME NEW S, NEW s \in Seq(S), NEW e \in S
  PROVE  /\ Append(s, e) \in Seq(S)
         /\ Append(s, e) # <<>>
         /\ Front(Append(s, e)) = s
         /\ Last(Append(s, e)) = e
<1> DEFINE a == Append(s, e)
<1>1. /\ a \in Seq(S) /\ a # <<>> /\ Len(a) = Len(s) + 1 /\ Len(s) \in Nat
      /\ \A i \in 1 .. Len(s) : a[i] = s[i]
      /\ a[Len(s) + 1] = e
  BY AppendProperties, LenProperties
<1>2. \A i \in 1 .. Len(s) : a[i] \in S
  BY <1>1, ElementOfSeq
<1> HIDE DEF a
<1>3. /\ SubSeq(a, 1, Len(s)) \in Seq(S)
      /\ Len(SubSeq(a, 1, Len(s))) = Len(s)
      /\ \A i \in 1 .. Len(s) : SubSeq(a, 1, Len(s))[i] = a[1 + i - 1]
  BY <1>1, <1>2, SubSeqProperties
<1>4. \A i \in 1 .. Len(s) : SubSeq(a, 1, Len(s))[i] = s[i]
  BY <1>1, <1>3
<1>5. SubSeq(a, 1, Len(s)) = s
  BY <1>3, <1>4, SeqEqual
<1>6. Front(a) = s /\ Last(a) = e
  BY <1>1, <1>5 DEF Front, Last
<1>7. QED  BY <1>1, <1>6 DEF a

\* The lowest descriptor that is free is one of them.
LEMMA LowestFree ==
  ASSUME NEW t, NEW d \in Numbers, t[d] = Closed
  PROVE  Lowest(t) \in Numbers /\ t[Lowest(t)] = Closed /\ Lowest(t) <= d
<1> DEFINE F == {e \in Numbers : t[e] = Closed}
<1>1. F \subseteq Nat /\ d \in F
  BY DEF Numbers
<1>2. \E m \in F : \A e \in F : m <= e
  BY <1>1, NatMin
<1>3. Min(F) \in F /\ \A e \in F : Min(F) <= e
  BY <1>2 DEF Min
<1>4. QED  BY <1>1, <1>3 DEF Lowest

-----------------------------------------------------------------------------
(* What the steps have in common.                                          *)

\* What a call is and does, where there is one.
LEMMA TopType ==
  ASSUME ProcInv, NEW p \in DOMAIN procs, procs[p].state = "shell"
  PROVE  /\ procs[p].stack \in Seq(Frame) /\ procs[p].stack # <<>>
         /\ Front(procs[p].stack) \in Seq(Frame)
         /\ Top(p) \in Frame
BY FrontLast DEF ProcInv, Process, Top

\* A call that goes on to another place.
LEMMA GotoType ==
  ASSUME ProcInv, NEW p \in DOMAIN procs, procs[p].state = "shell",
         Top(p).at # "start",
         NEW at \in {"start", "fork_left", "left", "fork_right", "right",
                     "close", "wait", "wait_again"}
  PROVE  /\ Goto(p, at) \in Seq(Frame) /\ Goto(p, at) # <<>>
         /\ Last(Goto(p, at)) = [Top(p) EXCEPT !.at = at]
         /\ Last(Goto(p, at)) \in Frame
<1>1. [Top(p) EXCEPT !.at = at] \in Frame
  BY TopType DEF Frame
<1>2. QED  BY <1>1, TopType, AppendTop DEF Goto

\* A new call.
LEMMA CallType ==
  ASSUME NEW n \in Nodes
  PROVE  Call(n) \in Frame
<1>1. 0 \in Numbers
  BY ShellAssumption DEF Numbers
<1>2. <<0, 0>> \in Numbers \X Numbers
  BY <1>1
<1>3. QED  BY <1>2 DEF Call, Frame

\* A call that calls run_cmd again.
LEMMA EnterType ==
  ASSUME ProcInv, NEW p \in DOMAIN procs, procs[p].state = "shell",
         Top(p).at # "start",
         NEW n \in Nodes, NEW back \in {"fork_right", "close"}
  PROVE  /\ Enter(p, n, back) \in Seq(Frame) /\ Enter(p, n, back) # <<>>
         /\ Last(Enter(p, n, back)) = Call(n)
<1>1. Goto(p, back) \in Seq(Frame) /\ Call(n) \in Frame
  BY GotoType, CallType
<1>2. QED  BY <1>1, AppendTop DEF Enter

\* The parts of a node are nodes.
LEMMA SubNodes ==
  ASSUME NEW n \in Nodes
  PROVE  /\ node[n].type \in {"exec", "empty", "redirect", "pipe"}
         /\ node[n].fd \in {0, 1}
         /\ node[n].type \in {"redirect", "pipe"} => node[n].sub[1] \in Nodes
         /\ node[n].type = "pipe" => node[n].sub[2] \in Nodes
<1>1. n \in 1 .. Len(node)
  BY ShellAssumption, LenProperties DEF Nodes
<1>2. node[n] \in [type : Simple \cup {"pipe"}, sub : Seq(Nat), fd : {0, 1},
                   ok : BOOLEAN, forks : SUBSET {1, 2}]
  BY <1>1, ShellAssumption, ElementOfSeq
<1>3. /\ node[n].sub \in Seq({m \in Nodes : m > n})
      /\ node[n].type = "pipe" => Len(node[n].sub) = 2
      /\ node[n].type = "redirect" => Len(node[n].sub) = 1
  BY ShellAssumption
<1>4. \A i \in 1 .. Len(node[n].sub) : node[n].sub[i] \in Nodes
  BY <1>3, ElementOfSeq
<1>5. QED  BY <1>2, <1>3, <1>4 DEF Simple

\* No process is named afresh: all have the children that they had.
LEMMA SameNames ==
  ASSUME NameInv, DOMAIN procs' = DOMAIN procs
  PROVE  /\ NameInv'
         /\ \A r \in DOMAIN procs : Children(r)' = Children(r)
<1>1. \A r \in DOMAIN procs : Children(r)' = Children(r)
  BY DEF Children
<1>2. QED  BY <1>1 DEF NameInv

\* There are finitely many children to wait for.
LEMMA UnreapedFinite ==
  ASSUME NameInv, NEW r \in DOMAIN procs
  PROVE  IsFiniteSet(Unreaped(r)) /\ Cardinality(Unreaped(r)) \in Nat
<1>1. IsFiniteSet(Children(r)) /\ Unreaped(r) \subseteq Children(r)
  BY DEF NameInv, Unreaped
<1>2. QED  BY <1>1, FS_Subset, FS_CardinalityType

\* A process may come to have a wait less once it has reaped a child, or when
\* it has none.
Answered(r) ==
  \/ Waits(procs'[r]) >= Waits(procs[r])
  \/ Unreaped(r) = {}
  \/ /\ Waits(procs'[r]) >= Waits(procs[r]) - 1
     /\ \E q \in Unreaped(r) : procs'[q].state = "reaped"

\* A step that makes no process: each keeps the waits that it needs.
LEMMA SameNamesInv ==
  ASSUME IInv, root' = root, DOMAIN procs' = DOMAIN procs,
         \A r \in DOMAIN procs :
           /\ procs'[r] \in Process /\ Tight(procs'[r])
           /\ procs[r].state = "reaped" => procs'[r].state = "reaped"
           /\ Answered(r)
  PROVE  IInv'
<1>1. ProcInv'
  BY DEF IInv, ProcInv
<1>2. NameInv' /\ \A r \in DOMAIN procs : Children(r)' = Children(r)
  BY SameNames DEF IInv
<1>3. EndInv'
  BY DEF IInv, EndInv, Tight
<1>4. ASSUME NEW r \in DOMAIN procs
      PROVE  Cardinality(Unreaped(r)') <= Waits(procs'[r])
  <2>1. Unreaped(r)' \subseteq Unreaped(r)
    BY <1>2 DEF Unreaped, Children
  <2>2. /\ IsFiniteSet(Unreaped(r)) /\ Cardinality(Unreaped(r)) \in Nat
        /\ Cardinality(Unreaped(r)) <= Waits(procs[r])
    BY UnreapedFinite DEF IInv, WaitInv
  <2>3. /\ IsFiniteSet(Unreaped(r)') /\ Cardinality(Unreaped(r)') \in Nat
        /\ Cardinality(Unreaped(r)') <= Cardinality(Unreaped(r))
    BY <2>1, <2>2, FS_Subset, FS_CardinalityType
  <2>4. Waits(procs[r]) \in {0, 1, 2} /\ Waits(procs'[r]) \in {0, 1, 2}
    BY DEF Waits
  <2>5. CASE Waits(procs'[r]) >= Waits(procs[r])
    BY <2>2, <2>3, <2>4, <2>5
  <2>6. CASE Unreaped(r) = {}
    <3>1. Cardinality(Unreaped(r)) = 0
      BY <2>6, FS_EmptySet
    <3>2. QED  BY <2>3, <2>4, <3>1
  <2>7. CASE /\ Waits(procs'[r]) >= Waits(procs[r]) - 1
             /\ \E q \in Unreaped(r) : procs'[q].state = "reaped"
    <3>1. PICK q \in Unreaped(r) : procs'[q].state = "reaped"
      BY <2>7
    <3>2. Unreaped(r)' \subseteq Unreaped(r) \ {q}
      BY <2>1, <3>1 DEF Unreaped
    <3>3. /\ IsFiniteSet(Unreaped(r) \ {q})
          /\ Cardinality(Unreaped(r) \ {q}) = Cardinality(Unreaped(r)) - 1
      BY <2>2, <3>1, FS_RemoveElement
    <3>4. Cardinality(Unreaped(r)') <= Cardinality(Unreaped(r)) - 1
      BY <3>2, <3>3, FS_Subset
    <3>5. QED  BY <2>2, <2>3, <2>4, <2>7, <3>4
  <2>8. QED  BY <2>5, <2>6, <2>7 DEF Answered
<1>5. WaitInv'
  BY <1>4 DEF WaitInv, Waits
<1>6. QED  BY <1>1, <1>2, <1>3, <1>5 DEF IInv

\* A process that changes alone.
Alone(p) ==
  /\ root' = root
  /\ DOMAIN procs' = DOMAIN procs
  /\ \A r \in DOMAIN procs \ {p} : procs'[r] = procs[r]
  /\ procs[p].state # "reaped"

\* A step of one process that loses none of its waits.
LEMMA AloneInv ==
  ASSUME IInv, NEW p \in DOMAIN procs, Alone(p),
         procs'[p] \in Process, Tight(procs'[p]),
         Waits(procs'[p]) >= Waits(procs[p])
  PROVE  IInv'
<1>1. ASSUME NEW r \in DOMAIN procs
      PROVE  /\ procs'[r] \in Process /\ Tight(procs'[r])
             /\ procs[r].state = "reaped" => procs'[r].state = "reaped"
             /\ Answered(r)
  <2>1. CASE r = p
    BY <2>1 DEF Alone, Answered
  <2>2. CASE r # p
    <3>1. procs'[r] = procs[r]
      BY <2>2 DEF Alone
    <3>2. Waits(procs[r]) \in {0, 1, 2}
      BY DEF Waits
    <3>3. QED  BY <3>1, <3>2 DEF IInv, ProcInv, EndInv, Answered
  <2>3. QED  BY <2>1, <2>2
<1>2. QED  BY <1>1, SameNamesInv DEF Alone

\* The name of a child is fresh.
LEMMA Fresh ==
  ASSUME NameInv, NEW p \in DOMAIN procs,
         NEW q, q = Append(p, Cardinality(Children(p)) + 1)
  PROVE  /\ q \in Seq(Nat) /\ q # <<>> /\ Front(q) = p
         /\ q \notin DOMAIN procs
         /\ Cardinality(Children(p)) \in Nat
         /\ \A r \in DOMAIN procs : r # <<>> => Front(r) # q
<1> DEFINE n == Cardinality(Children(p))
<1>1. n \in Nat /\ n + 1 \in Nat /\ p \in Seq(Nat)
  BY FS_CardinalityType DEF NameInv
<1>2. /\ q \in Seq(Nat) /\ q # <<>> /\ Front(q) = p
  BY <1>1, AppendTop
<1>3. ASSUME q \in DOMAIN procs PROVE FALSE
  <2>1. q \in Children(p)
    BY <1>2, <1>3 DEF Children
  <2>2. Children(p) = {Append(p, i) : i \in 1 .. n}
    BY DEF NameInv
  <2>3. PICK i \in 1 .. n : q = Append(p, i)
    BY <2>1, <2>2
  <2>4. i = n + 1
    BY <1>1, <2>3, AppendInjective
  <2>5. QED  BY <1>1, <2>4
<1>4. \A r \in DOMAIN procs : r # <<>> => Front(r) # q
  BY <1>3 DEF NameInv
<1>5. QED  BY <1>1, <1>2, <1>3, <1>4

\* A fork: the new process has no children, and the other waits for one more.
LEMMA ForkInv ==
  ASSUME IInv, root' = root, NEW p \in DOMAIN procs,
         NEW q, q = Append(p, Cardinality(Children(p)) + 1),
         DOMAIN procs' = DOMAIN procs \cup {q},
         \A r \in DOMAIN procs \ {p} : procs'[r] = procs[r],
         procs[p].state # "reaped",
         procs'[p] \in Process, Tight(procs'[p]),
         procs'[q] \in Process, Tight(procs'[q]),
         Waits(procs'[p]) >= Waits(procs[p]) + 1
  PROVE  IInv'
<1>1. ProcInv'
  BY DEF IInv, ProcInv
<1>2. EndInv'
  <2>1. \A r \in DOMAIN procs' : Tight(procs'[r])
    BY DEF IInv, EndInv
  <2>2. QED  BY <2>1 DEF EndInv, Tight
<1>3. /\ q \in Seq(Nat) /\ q # <<>> /\ Front(q) = p /\ q \notin DOMAIN procs
      /\ Cardinality(Children(p)) \in Nat
      /\ \A r \in DOMAIN procs : r # <<>> => Front(r) # q
  BY Fresh DEF IInv
<1>4. /\ Children(p)' = Children(p) \cup {q}
      /\ Children(q)' = {}
      /\ \A r \in DOMAIN procs \ {p} : Children(r)' = Children(r)
  BY <1>3 DEF Children
<1>5. IsFiniteSet(Children(p)) /\ q \notin Children(p)
  BY <1>3 DEF IInv, NameInv, Children
<1>6. /\ IsFiniteSet(Children(p)')
      /\ Cardinality(Children(p)') = Cardinality(Children(p)) + 1
  <2>1. /\ IsFiniteSet(Children(p) \cup {q})
        /\ Cardinality(Children(p) \cup {q}) = Cardinality(Children(p)) + 1
    BY <1>5, FS_AddElement
  <2>2. QED  BY <1>4, <2>1
<1>7. Children(p)' = {Append(p, i) : i \in 1 .. Cardinality(Children(p)')}
  <2>1. Children(p) = {Append(p, i) : i \in 1 .. Cardinality(Children(p))}
    BY DEF IInv, NameInv
  <2>2. 1 .. Cardinality(Children(p)') =
          (1 .. Cardinality(Children(p))) \cup {Cardinality(Children(p)) + 1}
    BY <1>3, <1>6
  <2> DEFINE n == Cardinality(Children(p))
             m == Cardinality(Children(p)')
  <2>3. {Append(p, i) : i \in 1 .. m} = {Append(p, i) : i \in 1 .. n} \cup {Append(p, n + 1)}
    <3> HIDE DEF n, m
    <3>1. 1 .. m = (1 .. n) \cup {n + 1}
      BY <2>2 DEF n, m
    <3>2. QED  BY <3>1
  <2>4. QED  BY <1>4, <2>1, <2>3
<1>8. /\ IsFiniteSet(Children(q)')
      /\ Children(q)' = {Append(q, i) : i \in 1 .. Cardinality(Children(q)')}
  <2>1. Cardinality(Children(q)') = 0
    BY <1>4, FS_EmptySet
  <2>2. 1 .. Cardinality(Children(q)') = {}
    BY <2>1
  <2>3. QED  BY <1>4, <2>2, FS_EmptySet
<1>9. NameInv'
  <2>1. ASSUME NEW r \in DOMAIN procs'
        PROVE  /\ r \in Seq(Nat)
               /\ r # <<>> => Front(r) \in DOMAIN procs'
               /\ IsFiniteSet(Children(r)')
               /\ Children(r)' =
                    {Append(r, i) : i \in 1 .. Cardinality(Children(r)')}
    <3>1. CASE r = q
      BY <3>1, <1>3, <1>8
    <3>2. CASE r = p
      BY <3>2, <1>6, <1>7 DEF IInv, NameInv
    <3>3. CASE r # p /\ r # q
      BY <3>3, <1>4 DEF IInv, NameInv
    <3>4. QED  BY <3>1, <3>2, <3>3
  <2>2. QED  BY <2>1 DEF NameInv
<1>10. ASSUME NEW r \in DOMAIN procs'
       PROVE  Cardinality(Unreaped(r)') <= Waits(procs'[r])
  <2>1. Waits(procs[r]) \in {0, 1, 2} /\ Waits(procs'[r]) \in {0, 1, 2}
    BY DEF Waits
  <2>2. CASE r = q
    <3>1. Unreaped(r)' = {}
      BY <2>2, <1>4 DEF Unreaped
    <3>2. QED  BY <2>1, <3>1, FS_EmptySet
  <2>3. CASE r # q
    <3>1. /\ IsFiniteSet(Unreaped(r)) /\ Cardinality(Unreaped(r)) \in Nat
          /\ Cardinality(Unreaped(r)) <= Waits(procs[r])
      BY <2>3, UnreapedFinite DEF IInv, WaitInv
    <3>2. CASE r = p
      <4>1. Unreaped(r)' \subseteq Unreaped(r) \cup {q}
        BY <3>2, <1>3, <1>4 DEF Unreaped, Children
      <4>2. /\ IsFiniteSet(Unreaped(r) \cup {q})
            /\ Cardinality(Unreaped(r) \cup {q}) <= Cardinality(Unreaped(r)) + 1
            /\ Cardinality(Unreaped(r) \cup {q}) \in Nat
        <5>1. /\ IsFiniteSet(Unreaped(r) \cup {q})
              /\ Cardinality(Unreaped(r) \cup {q}) =
                   IF q \in Unreaped(r) THEN Cardinality(Unreaped(r))
                   ELSE Cardinality(Unreaped(r)) + 1
          BY <3>1, FS_AddElement
        <5>2. QED  BY <3>1, <5>1
      <4>3. /\ Cardinality(Unreaped(r)') <= Cardinality(Unreaped(r) \cup {q})
            /\ Cardinality(Unreaped(r)') \in Nat
        BY <4>1, <4>2, FS_Subset, FS_CardinalityType
      <4>4. QED  BY <3>1, <3>2, <2>1, <4>2, <4>3
    <3>3. CASE r # p
      <4>1. Unreaped(r)' \subseteq Unreaped(r)
        BY <2>3, <3>3, <1>3, <1>4 DEF Unreaped, Children
      <4>2. /\ Cardinality(Unreaped(r)') <= Cardinality(Unreaped(r))
            /\ Cardinality(Unreaped(r)') \in Nat
        BY <3>1, <4>1, FS_Subset, FS_CardinalityType
      <4>3. procs'[r] = procs[r]
        BY <2>3, <3>3
      <4>4. QED  BY <3>1, <4>2, <4>3, <2>1
    <3>4. QED  BY <3>2, <3>3
  <2>4. QED  BY <2>2, <2>3
<1>11. WaitInv'
  BY <1>10 DEF WaitInv, Waits
<1>12. QED  BY <1>1, <1>2, <1>9, <1>11 DEF IInv

-----------------------------------------------------------------------------
(* The steps of a process.                                                 *)

\* What a descriptor may lead to.
LEMMA ThingTypes ==
  /\ Closed \in Things /\ Terminal \in Things
  /\ \A n \in Nodes : File(n) \in Things
  /\ \A p \in Seq(Nat), n \in Nodes :
       ReadEnd(p, n) \in Things /\ WriteEnd(p, n) \in Things
  /\ \A n \in Nodes : File(n) # Closed
<1>1. <<>> \in Seq(Nat)
  BY EmptySeq
<1>2. Nodes \subseteq Nat
  BY ShellAssumption, LenProperties DEF Nodes
<1>3. \A a \in {"closed", "terminal", "file", "read", "write"},
         b \in Seq(Nat), c \in Nat : <<a, b, c>> \in Things
  BY DEF Things
<1> HIDE DEF Things
<1>4. Closed \in Things /\ Terminal \in Things
  BY <1>1, <1>3 DEF Closed, Terminal
<1>5. \A n \in Nodes : File(n) \in Things /\ File(n) # Closed
  BY <1>1, <1>2, <1>3 DEF File, Closed
<1>6. \A p \in Seq(Nat), n \in Nodes :
        ReadEnd(p, n) \in Things /\ WriteEnd(p, n) \in Things
  BY <1>2, <1>3 DEF ReadEnd, WriteEnd
<1>7. QED  BY <1>4, <1>5, <1>6

\* What a process is made of.
LEMMA Parts ==
  ASSUME ProcInv, NEW p \in DOMAIN procs
  PROVE  /\ procs[p].state \in {"shell", "program", "returned", "zombie", "reaped"}
         /\ procs[p].stack \in Seq(Frame)
         /\ procs[p].fd \in [Numbers -> Things]
         /\ procs[p].runs \in Nodes \cup {0}
         /\ procs[p].stack # <<>> <=> procs[p].state \in {"shell", "program"}
BY DEF ProcInv, Process, Things

\* Where a process has no pipe to arrange, nothing above stderr is open.
LEMMA NoneAbove ==
  ASSUME IInv, NEW p \in DOMAIN procs,
         \/ procs[p].state # "shell"
         \/ Top(p).at \in {"start", "wait", "wait_again"},
         NEW d \in Numbers, d > 2
  PROVE  Table(p)[d] = Closed
BY DEF IInv, EndInv, Tight, Top, Table

\* A process that goes on in run_cmd.
LEMMA BecomeInv ==
  ASSUME IInv, NEW p \in DOMAIN procs, procs[p].state = "shell",
         NEW stack \in Seq(Frame), stack # <<>>, NEW fd \in [Numbers -> Things],
         Become(p, stack, fd),
         Waits([procs[p] EXCEPT !.stack = stack, !.fd = fd]) >= Waits(procs[p]),
         \A d \in Numbers : d > 2 /\ fd[d] # Closed =>
           /\ Last(stack).at \in {"fork_left", "left", "fork_right", "right",
                                  "close"}
           /\ d \in {Last(stack).fd[1], Last(stack).fd[2]}
  PROVE  IInv'
<1> DEFINE x == [procs[p] EXCEPT !.stack = stack, !.fd = fd]
<1>1. procs' = [procs EXCEPT ![p] = x] /\ root' = root
  BY DEF Become
<1>2. procs[p] \in Process
  BY DEF IInv, ProcInv
<1>3. /\ x \in Process /\ x.state = "shell" /\ x.stack = stack /\ x.fd = fd
  BY <1>2 DEF Process, Things
<1>4. Tight(x)
  BY <1>3 DEF Tight
<1>5. procs'[p] = x /\ Alone(p)
  BY <1>1 DEF Alone
<1>6. QED  BY <1>3, <1>4, <1>5, AloneInv

\* A process that has no child to wait for, and nothing above stderr, returns
\* from a call or ends.
LEMMA ReturnInv ==
  ASSUME IInv, NEW p \in DOMAIN procs, At(p, "start"), Return(p)
  PROVE  IInv'
<1> DEFINE below == Front(procs[p].stack)
           x == [procs[p] EXCEPT !.stack = below,
                   !.state = IF below = <<>> THEN "returned" ELSE "shell"]
<1>1. procs' = [procs EXCEPT ![p] = x] /\ root' = root
  BY DEF Return, Returned
<1>2. procs[p] \in Process /\ below \in Seq(Frame)
  BY TopType DEF IInv, ProcInv, At
<1>3. x \in Process /\ x.fd = procs[p].fd
  BY <1>2 DEF Process
<1>4. Tight(x)
  BY <1>3, NoneAbove DEF Tight, At, Table
<1>5. procs'[p] = x /\ Alone(p)
  BY <1>1 DEF Alone, At
<1>6. Waits(procs[p]) = 0 /\ Waits(x) \in {0, 1, 2}
  BY DEF Waits, At, Top
<1>7. QED  BY <1>3, <1>4, <1>5, <1>6, AloneInv

\* exit.
LEMMA ExitInv ==
  ASSUME IInv, NEW p \in DOMAIN procs,
         At(p, "start") \/ procs[p].state \in {"program", "returned"}, Exit(p)
  PROVE  IInv'
<1> DEFINE x == Gone(p)
<1>1. procs' = [procs EXCEPT ![p] = x] /\ root' = root
  BY DEF Exit
<1>2. procs[p] \in Process
  BY DEF IInv, ProcInv
<1>3. x.state = "zombie" /\ x.fd = [d \in Numbers |-> Closed] /\ x.stack = <<>>
  BY <1>2 DEF Gone, Process
<1>4. x \in Process
  <2>1. <<>> \in Seq(Frame) /\ [d \in Numbers |-> Closed] \in [Numbers -> Things]
    BY EmptySeq, ThingTypes
  <2>2. QED  BY <1>2, <2>1 DEF Gone, Process, Things
<1>5. Tight(x)
  BY <1>3 DEF Tight
<1>6. procs'[p] = x /\ Alone(p)
  BY <1>1 DEF Alone, At
<1>7. Waits(procs[p]) = 0 /\ Waits(x) \in {0, 1, 2}
  BY DEF Waits, At, Top
<1>8. QED  BY <1>4, <1>5, <1>6, <1>7, AloneInv

\* execv.
LEMMA ExecInv ==
  ASSUME IInv, NEW p \in DOMAIN procs, Exec(p)
  PROVE  IInv'
<1> DEFINE x == [procs[p] EXCEPT !.state = "program", !.runs = Top(p).node]
<1>1. procs' = [procs EXCEPT ![p] = x] /\ root' = root
  BY DEF Exec
<1>2. procs[p] \in Process /\ Top(p).node \in Nodes /\ procs[p].state = "shell"
  BY TopType DEF IInv, ProcInv, Exec, At, Frame
<1>3. x \in Process /\ x.fd = procs[p].fd
  BY <1>2 DEF Process
<1>4. Tight(x)
  BY <1>3, NoneAbove DEF Tight, Exec, At, Table
<1>5. procs'[p] = x /\ Alone(p)
  BY <1>1 DEF Alone, Exec, At
<1>6. Waits(procs[p]) = 0 /\ Waits(x) = 0
  BY <1>2 DEF Waits, Exec, At, Top
<1>7. QED  BY <1>3, <1>4, <1>5, <1>6, AloneInv

\* The file of a redirect takes the place of the descriptor that is closed for
\* it, or of a lower one.
LEMMA RedirectInv ==
  ASSUME IInv, NEW p \in DOMAIN procs, Redirect(p)
  PROVE  IInv'
<1> DEFINE n == Node(p)
           freed == Shut(Table(p), n.fd)
           stack == Append(Front(procs[p].stack), Call(n.sub[1]))
           fd == IF n.ok THEN [freed EXCEPT ![Lowest(freed)] = File(Top(p).node)]
                 ELSE freed
<1>1. /\ procs[p].state = "shell" /\ Top(p).at = "start" /\ n.type = "redirect"
      /\ Become(p, stack, fd)
  BY DEF Redirect, At
<1>2. ProcInv
  BY DEF IInv
<1>3. Top(p) \in Frame /\ Front(procs[p].stack) \in Seq(Frame)
  BY <1>1, <1>2, TopType
<1>4. Top(p).node \in Nodes
  BY <1>3 DEF Frame
<1>5. n.sub[1] \in Nodes /\ n.fd \in {0, 1}
  BY <1>1, <1>4, SubNodes DEF Node
<1>6. stack \in Seq(Frame) /\ stack # <<>> /\ Last(stack) = Call(n.sub[1])
  BY <1>3, <1>5, CallType, AppendTop
<1>7. Table(p) \in [Numbers -> Things]
  BY <1>2, Parts DEF Table
<1>8. n.fd \in Numbers /\ OPEN_MAX \in Nat
  BY <1>5, ShellAssumption DEF Numbers
<1>9. freed \in [Numbers -> Things] /\ freed[n.fd] = Closed
  BY <1>7, <1>8, ThingTypes DEF Shut
<1>10. Lowest(freed) \in Numbers /\ Lowest(freed) <= n.fd
  BY <1>8, <1>9, LowestFree
<1>11. fd \in [Numbers -> Things]
  BY <1>4, <1>9, ThingTypes
<1>12. ASSUME NEW d \in Numbers, d > 2 PROVE fd[d] = Closed
  <2>1. Table(p)[d] = Closed
    BY <1>1, <1>12, NoneAbove
  <2>2. freed[d] = Closed
    BY <2>1, <1>7, <1>8 DEF Shut
  <2>3. d # Lowest(freed)
    BY <1>5, <1>10, <1>12 DEF Numbers
  <2>4. QED  BY <1>9, <2>2, <2>3
<1>13. Waits([procs[p] EXCEPT !.stack = stack, !.fd = fd]) >= Waits(procs[p])
  <2>1. Waits(procs[p]) = 0
    BY <1>1 DEF Waits, Top
  <2>2. Waits([procs[p] EXCEPT !.stack = stack, !.fd = fd]) \in {0, 1, 2}
    BY DEF Waits
  <2>3. QED  BY <2>1, <2>2
<1>14. \A d \in Numbers : d > 2 => fd[d] = Closed
  BY <1>12
<1> HIDE DEF stack, fd
<1>15. QED  BY <1>1, <1>6, <1>11, <1>13, <1>14, BecomeInv

\* The ends of a pipe are two descriptors.
LEMMA PipeInv ==
  ASSUME IInv, NEW p \in DOMAIN procs, Pipe(p)
  PROVE  IInv'
<1> DEFINE n == Top(p).node
           t == Table(p)
           r == Lowest(t)
           t2 == [t EXCEPT ![r] = Terminal]
           w == Lowest(t2)
           top == [Top(p) EXCEPT !.at = "fork_left", !.fd = <<r, w>>]
           stack == Append(Front(procs[p].stack), top)
           fd == [t EXCEPT ![r] = ReadEnd(p, n), ![w] = WriteEnd(p, n)]
<1>1. /\ procs[p].state = "shell" /\ Top(p).at = "start" /\ Become(p, stack, fd)
      /\ node[n].type = "pipe"
  BY DEF Pipe, At, Node
<1>2. ProcInv /\ p \in Seq(Nat)
  BY DEF IInv, NameInv
<1>3. Top(p) \in Frame /\ Front(procs[p].stack) \in Seq(Frame)
  BY <1>1, <1>2, TopType
<1>4. n \in Nodes
  BY <1>3 DEF Frame
<1>5. t \in [Numbers -> Things]
  BY <1>2, Parts DEF Table
<1>6. \A d \in Numbers : d > 2 => t[d] = Closed
  BY <1>1, NoneAbove
<1>7. 3 \in Numbers /\ 4 \in Numbers
  BY ShellAssumption DEF Numbers
<1>8. r \in Numbers /\ t[3] = Closed /\ t[4] = Closed
  BY <1>6, <1>7, LowestFree
<1>9. t2[3] = Closed \/ t2[4] = Closed
  BY <1>5, <1>7, <1>8
<1>10. w \in Numbers
  <2> HIDE DEF t2
  <2>1. QED  BY <1>7, <1>9, LowestFree
<1> HIDE DEF r, w
<1>11. top \in Frame /\ top.at = "fork_left" /\ top.fd = <<r, w>>
  BY <1>1, <1>3, <1>8, <1>10 DEF Frame
<1> HIDE DEF top
<1>12. stack \in Seq(Frame) /\ stack # <<>> /\ Last(stack) = top
  BY <1>3, <1>11, AppendTop
<1>13. fd \in [Numbers -> Things]
  BY <1>2, <1>4, <1>5, ThingTypes
<1>14. ASSUME NEW d \in Numbers, d > 2, fd[d] # Closed
       PROVE  d \in {Last(stack).fd[1], Last(stack).fd[2]}
  <2>1. d = r \/ d = w
    BY <1>5, <1>6, <1>14
  <2>2. QED  BY <2>1, <1>11, <1>12
<1>15. Waits([procs[p] EXCEPT !.stack = stack, !.fd = fd]) >= Waits(procs[p])
  <2>1. Waits(procs[p]) = 0
    BY <1>1 DEF Waits, Top
  <2>2. Waits([procs[p] EXCEPT !.stack = stack, !.fd = fd]) \in {0, 1, 2}
    BY DEF Waits
  <2>3. QED  BY <2>1, <2>2
<1> HIDE DEF stack, fd
<1>16. \A d \in Numbers : d > 2 /\ fd[d] # Closed =>
         /\ Last(stack).at \in {"fork_left", "left", "fork_right", "right",
                                "close"}
         /\ d \in {Last(stack).fd[1], Last(stack).fd[2]}
  BY <1>11, <1>12, <1>14
<1>17. QED  BY <1>1, <1>12, <1>13, <1>15, <1>16, BecomeInv

\* A fork that fails, and one that does not.
LEMMA ForkFailsInv ==
  ASSUME IInv, NEW p \in DOMAIN procs, ForkLeftFails(p) \/ ForkRightFails(p)
  PROVE  IInv'
<1>1. PICK at \in {"fork_right", "close"} :
        /\ Become(p, Goto(p, at), Table(p))
        /\ procs[p].state = "shell"
        /\ \/ Top(p).at = "fork_left"
           \/ Top(p).at = "fork_right" /\ at = "close"
  BY DEF ForkLeftFails, ForkRightFails, At
<1>2. ProcInv /\ Tight(procs[p])
  BY DEF IInv, EndInv
<1>3. /\ Goto(p, at) \in Seq(Frame) /\ Goto(p, at) # <<>>
      /\ Last(Goto(p, at)) = [Top(p) EXCEPT !.at = at]
      /\ Top(p) \in Frame
  BY <1>1, <1>2, GotoType, TopType
<1>4. Last(Goto(p, at)).at = at /\ Last(Goto(p, at)).fd = Top(p).fd
  BY <1>3 DEF Frame
<1>5. Table(p) \in [Numbers -> Things] /\ procs[p] \in Process
  BY <1>2, Parts DEF Table, ProcInv
<1> DEFINE x == [procs[p] EXCEPT !.stack = Goto(p, at), !.fd = Table(p)]
<1>6. x.state = "shell" /\ x.stack = Goto(p, at)
  BY <1>1, <1>5 DEF Process
<1>7. Waits(x) >= Waits(procs[p])
  BY <1>1, <1>4, <1>6 DEF Waits, Top
<1>8. \A d \in Numbers : d > 2 /\ Table(p)[d] # Closed =>
        /\ Last(Goto(p, at)).at \in {"fork_left", "left", "fork_right", "right",
                                     "close"}
        /\ d \in {Last(Goto(p, at)).fd[1], Last(Goto(p, at)).fd[2]}
  BY <1>2, <1>4 DEF Tight, Top, Table
<1>9. QED  BY <1>1, <1>3, <1>5, <1>7, <1>8, BecomeInv

\* The two forks of a pipe, when they succeed.
LEMMA ForkSucceedsInv ==
  ASSUME IInv, NEW p \in DOMAIN procs, ForkLeft(p) \/ ForkRight(p)
  PROVE  IInv'
<1>1. PICK child \in {"left", "right"}, parent \in {"fork_right", "close"} :
        /\ Fork(p, child, parent)
        /\ procs[p].state = "shell"
        /\ \/ Top(p).at = "fork_left" /\ parent = "fork_right"
           \/ Top(p).at = "fork_right" /\ parent = "close"
  BY DEF ForkLeft, ForkRight, At
<1> DEFINE q == Append(p, Cardinality(Children(p)) + 1)
           x == [procs[p] EXCEPT !.stack = Goto(p, parent)]
           y == [procs[p] EXCEPT !.stack = Goto(p, child)]
<1>2. ProcInv /\ Tight(procs[p]) /\ NameInv
  BY DEF IInv, EndInv
<1>3. q \notin DOMAIN procs
  BY <1>2, Fresh
<1>4. procs[p] \in Process /\ Top(p) \in Frame
  BY <1>1, <1>2, TopType DEF ProcInv
<1>5. ASSUME NEW at \in {"left", "fork_right", "right", "close"},
             NEW z, z = [procs[p] EXCEPT !.stack = Goto(p, at)]
      PROVE  /\ z \in Process /\ Tight(z) /\ z.state = "shell"
             /\ Last(z.stack).at = at
  <2>1. /\ Goto(p, at) \in Seq(Frame) /\ Goto(p, at) # <<>>
        /\ Last(Goto(p, at)) = [Top(p) EXCEPT !.at = at]
    BY <1>1, <1>2, GotoType
  <2>2. Last(Goto(p, at)).at = at /\ Last(Goto(p, at)).fd = Top(p).fd
    BY <1>4, <2>1 DEF Frame
  <2>3. z \in Process /\ z.state = "shell" /\ z.stack = Goto(p, at)
        /\ z.fd = procs[p].fd
    BY <1>1, <1>4, <1>5, <2>1 DEF Process
  <2>4. Tight(z)
    BY <1>2, <2>2, <2>3 DEF Tight, Top
  <2>5. QED  BY <2>2, <2>3, <2>4
<1>6. /\ DOMAIN procs' = DOMAIN procs \cup {q} /\ root' = root
      /\ procs'[q] = y /\ procs'[p] = x
      /\ \A r \in DOMAIN procs \ {p} : procs'[r] = procs[r]
  <2> HIDE DEF q, x, y
  <2>1. /\ procs' = [z \in DOMAIN procs \cup {q} |->
                       CASE z = q -> y [] z = p -> x [] OTHER -> procs[z]]
        /\ root' = root
    BY <1>1 DEF Fork, q, x, y
  <2>2. QED  BY <2>1, <1>3
<1>7. /\ x \in Process /\ Tight(x) /\ x.state = "shell" /\ Last(x.stack).at = parent
      /\ y \in Process /\ Tight(y)
  BY <1>5
<1> HIDE DEF x, y
<1>8. Waits(x) >= Waits(procs[p]) + 1
  BY <1>1, <1>7 DEF Waits, Top
<1> HIDE DEF q
<1>9. q = Append(p, Cardinality(Children(p)) + 1)
  BY DEF q
<1>10. QED  BY <1>1, <1>6, <1>7, <1>8, <1>9, ForkInv

\* A child that arranges its descriptors closes both ends of the pipe, but for
\* the one that it has as its input or output.
LEMMA SideInv ==
  ASSUME IInv, NEW p \in DOMAIN procs, Left(p) \/ Right(p)
  PROVE  IInv'
<1> DEFINE r == Top(p).fd[1]
           w == Top(p).fd[2]
           t == Table(p)
<1>1. PICK n \in Nodes, back \in {"fork_right", "close"}, fd \in [Numbers -> Things] :
        /\ Become(p, Enter(p, n, back), fd)
        /\ procs[p].state = "shell" /\ Top(p).at \in {"left", "right"}
        /\ \A d \in Numbers : d > 2 => fd[d] = Closed
  <2>1. ProcInv /\ Tight(procs[p])
    BY DEF IInv, EndInv
  <2>2. procs[p].state = "shell" /\ Top(p).at \in {"left", "right"}
    BY DEF Left, Right, At
  <2>3. Top(p) \in Frame
    BY <2>1, <2>2, TopType
  <2>4. r \in Numbers /\ w \in Numbers /\ Top(p).node \in Nodes
    BY <2>3 DEF Frame
  <2>5. t \in [Numbers -> Things]
    BY <2>1, Parts DEF Table
  <2>6. \A d \in Numbers : d > 2 /\ t[d] # Closed => d = r \/ d = w
    BY <2>1 DEF Tight, Top, Table
  <2>7. Closed \in Things /\ 0 \in Numbers /\ 1 \in Numbers
    BY ThingTypes, ShellAssumption DEF Numbers
  <2>8. Node(p).sub[1] \in Nodes /\ Node(p).sub[2] \in Nodes
    <3>1. node[Top(p).node].type = "pipe"
      BY <2>2, <2>3 DEF Frame
    <3>2. QED  BY <2>4, <3>1, SubNodes DEF Node
  <2>9. CASE Left(p)
    <3> DEFINE out == IF w = 1 THEN t ELSE Shut(Dup2(t, w, 1), w)
               fd == Shut(out, r)
    <3>1. Become(p, Enter(p, Node(p).sub[1], "fork_right"), fd)
      BY <2>9 DEF Left
    <3>2. /\ out \in [Numbers -> Things]
          /\ \A d \in Numbers : d > 2 /\ out[d] # Closed => d = r
      BY <2>4, <2>5, <2>6, <2>7 DEF Shut, Dup2, Numbers
    <3>3. /\ fd \in [Numbers -> Things]
          /\ \A d \in Numbers : d > 2 => fd[d] = Closed
      <4> HIDE DEF out
      <4>1. QED  BY <2>4, <2>7, <3>2 DEF Shut
    <3> HIDE DEF fd
    <3>4. QED  BY <2>2, <2>8, <3>1, <3>3
  <2>10. CASE Right(p)
    <3> DEFINE in == IF r = 0 THEN t ELSE Shut(Dup2(t, r, 0), r)
               fd == Shut(in, w)
    <3>1. Become(p, Enter(p, Node(p).sub[2], "close"), fd)
      BY <2>10 DEF Right
    <3>2. /\ in \in [Numbers -> Things]
          /\ \A d \in Numbers : d > 2 /\ in[d] # Closed => d = w
      BY <2>4, <2>5, <2>6, <2>7 DEF Shut, Dup2, Numbers
    <3>3. /\ fd \in [Numbers -> Things]
          /\ \A d \in Numbers : d > 2 => fd[d] = Closed
      <4> HIDE DEF in
      <4>1. QED  BY <2>4, <2>7, <3>2 DEF Shut
    <3> HIDE DEF fd
    <3>4. QED  BY <2>2, <2>8, <3>1, <3>3
  <2>11. QED  BY <2>9, <2>10
<1>2. ProcInv
  BY DEF IInv
<1>3. /\ Enter(p, n, back) \in Seq(Frame) /\ Enter(p, n, back) # <<>>
  BY <1>1, <1>2, EnterType
<1>4. Waits([procs[p] EXCEPT !.stack = Enter(p, n, back), !.fd = fd])
        >= Waits(procs[p])
  <2>1. Waits(procs[p]) = 0
    BY <1>1 DEF Waits, Top
  <2>2. Waits([procs[p] EXCEPT !.stack = Enter(p, n, back), !.fd = fd]) \in {0, 1, 2}
    BY DEF Waits
  <2>3. QED  BY <2>1, <2>2
<1>5. QED  BY <1>1, <1>3, <1>4, BecomeInv

\* The closes between the forks and the waits.
LEMMA CloseInv ==
  ASSUME IInv, NEW p \in DOMAIN procs, CloseBoth(p)
  PROVE  IInv'
<1> DEFINE r == Top(p).fd[1]
           w == Top(p).fd[2]
           t == Table(p)
           fd == Shut(Shut(t, r), w)
           x == [procs[p] EXCEPT !.stack = Goto(p, "wait"), !.fd = fd]
<1>1. /\ procs[p].state = "shell" /\ Top(p).at = "close"
      /\ Become(p, Goto(p, "wait"), fd)
  BY DEF CloseBoth, At
<1>2. ProcInv /\ Tight(procs[p])
  BY DEF IInv, EndInv
<1>3. /\ Goto(p, "wait") \in Seq(Frame) /\ Goto(p, "wait") # <<>>
      /\ Last(Goto(p, "wait")) = [Top(p) EXCEPT !.at = "wait"]
      /\ Top(p) \in Frame
  BY <1>1, <1>2, GotoType, TopType
<1>4. t \in [Numbers -> Things] /\ Closed \in Things /\ procs[p] \in Process
  BY <1>2, Parts, ThingTypes DEF Table, ProcInv
<1>5. \A d \in Numbers : d > 2 /\ t[d] # Closed => d = r \/ d = w
  BY <1>2 DEF Tight, Top, Table
<1>6. /\ fd \in [Numbers -> Things]
      /\ \A d \in Numbers : d > 2 => fd[d] = Closed
  BY <1>4, <1>5 DEF Shut
<1> HIDE DEF fd
<1>7. Waits(x) >= Waits(procs[p])
  <2>1. Last(Goto(p, "wait")).at = "wait"
    BY <1>3 DEF Frame
  <2>2. x.state = "shell" /\ x.stack = Goto(p, "wait")
    BY <1>1, <1>4 DEF Process
  <2>3. QED  BY <1>1, <2>1, <2>2 DEF Waits, Top
<1> HIDE DEF x
<1>8. Waits([procs[p] EXCEPT !.stack = Goto(p, "wait"), !.fd = fd])
        >= Waits(procs[p])
  BY <1>7 DEF x
<1>9. QED  BY <1>1, <1>3, <1>6, <1>8, BecomeInv

\* A wait that reaps a child, or has none, is one the process has less to do.
LEMMA WaitOnceInv ==
  ASSUME IInv, root' = root, NEW p \in DOMAIN procs,
         procs[p].state # "reaped",
         NEW x, x \in Process, Tight(x), Waits(x) >= Waits(procs[p]) - 1,
         WaitOnce(p, [procs EXCEPT ![p] = x])
  PROVE  IInv'
<1> DEFINE then == [procs EXCEPT ![p] = x]
<1>1. ProcInv /\ EndInv /\ NameInv
  BY DEF IInv
<1>2. \A r \in DOMAIN procs : Waits(procs[r]) \in {0, 1, 2}
  BY DEF Waits
<1>3. \/ /\ Unreaped(p) = {}
         /\ procs' = then
      \/ \E q \in Unreaped(p) : /\ procs[q].state = "zombie"
                                /\ procs' = [then EXCEPT ![q].state = "reaped"]
  <2> HIDE DEF then
  <2>1. WaitOnce(p, then)
    BY DEF then
  <2>2. QED  BY <2>1 DEF WaitOnce, Unreaped
<1>4. CASE Unreaped(p) = {} /\ procs' = then
  <2>1. ASSUME NEW r \in DOMAIN procs
        PROVE  /\ procs'[r] \in Process /\ Tight(procs'[r])
               /\ procs[r].state = "reaped" => procs'[r].state = "reaped"
               /\ Answered(r)
    <3>1. CASE r = p
      BY <1>4, <3>1 DEF Answered
    <3>2. CASE r # p
      BY <1>1, <1>2, <1>4, <3>2 DEF ProcInv, EndInv, Answered
    <3>3. QED  BY <3>1, <3>2
  <2>2. QED  BY <1>4, <2>1, SameNamesInv
<1>5. ASSUME NEW q \in Unreaped(p), procs[q].state = "zombie",
             procs' = [then EXCEPT ![q].state = "reaped"]
      PROVE  IInv'
  <2>1. q \in DOMAIN procs /\ q # p
    <3>1. q \in DOMAIN procs /\ q # <<>> /\ Front(q) = p
      BY DEF Unreaped, Children
    <3>2. q \in Seq(Nat) /\ p \in Seq(Nat)
      BY <1>1, <3>1 DEF NameInv
    <3>3. Len(Front(q)) = Len(q) - 1 /\ Len(q) \in Nat
      BY <3>1, <3>2, FrontLast, LenProperties
    <3>4. QED  BY <3>1, <3>3
  <2>2. DOMAIN procs' = DOMAIN procs
    BY <1>5
  <2>3. procs[q] \in Process /\ Tight(procs[q])
    BY <1>1, <2>1 DEF ProcInv, EndInv
  <2>4. procs'[p] = x /\ procs'[q] = [procs[q] EXCEPT !.state = "reaped"]
    BY <1>5, <2>1
  <2>5. /\ procs'[q] \in Process /\ Tight(procs'[q])
        /\ procs'[q].state = "reaped"
    <3>1. /\ procs'[q].state = "reaped" /\ procs'[q].fd = procs[q].fd
          /\ procs'[q] \in Process
      <4>1. /\ procs[q] \in Process /\ procs[q].state = "zombie"
            /\ procs'[q] = [procs[q] EXCEPT !.state = "reaped"]
        BY <1>5, <2>3, <2>4
      <4>2. QED  BY <4>1 DEF Process
    <3>2. \A d \in Numbers : d > 2 => procs[q].fd[d] = Closed
      BY <1>5, <2>3 DEF Tight
    <3>3. QED  BY <3>1, <3>2 DEF Tight
  <2>6. ASSUME NEW r \in DOMAIN procs
        PROVE  /\ procs'[r] \in Process /\ Tight(procs'[r])
               /\ procs[r].state = "reaped" => procs'[r].state = "reaped"
               /\ Answered(r)
    <3>1. CASE r = p
      BY <2>4, <2>5, <3>1 DEF Answered
    <3>2. CASE r = q
      <4>1. Waits(procs[q]) = 0 /\ Waits(procs'[q]) = 0
        BY <1>5, <2>5 DEF Waits
      <4>2. QED  BY <1>5, <2>5, <3>2, <4>1 DEF Answered
    <3>3. CASE r # p /\ r # q
      <4>1. procs'[r] = procs[r]
        BY <1>5, <3>3
      <4>2. QED  BY <1>1, <1>2, <4>1 DEF ProcInv, EndInv, Answered
    <3>4. QED  BY <3>1, <3>2, <3>3
  <2>7. QED  BY <2>2, <2>6, SameNamesInv
<1>6. QED  BY <1>3, <1>4, <1>5

\* The first wait.
LEMMA WaitInvStep ==
  ASSUME IInv, NEW p \in DOMAIN procs, Wait(p)
  PROVE  IInv'
<1> DEFINE x == [procs[p] EXCEPT !.stack = Goto(p, "wait_again")]
<1>1. /\ procs[p].state = "shell" /\ Top(p).at = "wait" /\ root' = root
      /\ WaitOnce(p, [procs EXCEPT ![p] = x])
  BY DEF Wait, At
<1>2. ProcInv /\ procs[p] \in Process
  BY DEF IInv, ProcInv
<1>3. /\ Goto(p, "wait_again") \in Seq(Frame) /\ Goto(p, "wait_again") # <<>>
      /\ Last(Goto(p, "wait_again")) = [Top(p) EXCEPT !.at = "wait_again"]
      /\ Top(p) \in Frame
  BY <1>1, <1>2, GotoType, TopType
<1>4. /\ x \in Process /\ x.state = "shell" /\ x.stack = Goto(p, "wait_again")
      /\ x.fd = procs[p].fd
  BY <1>1, <1>2, <1>3 DEF Process
<1>5. Tight(x)
  BY <1>1, <1>4, NoneAbove DEF Tight, Table
<1>6. Waits(x) = 1 /\ Waits(procs[p]) = 2
  <2>1. Last(x.stack).at = "wait_again"
    BY <1>3, <1>4 DEF Frame
  <2>2. QED  BY <1>1, <1>4, <2>1 DEF Waits, Top
<1> HIDE DEF x
<1>7. QED  BY <1>1, <1>4, <1>5, <1>6, WaitOnceInv

\* The second wait.
LEMMA WaitAgainInv ==
  ASSUME IInv, NEW p \in DOMAIN procs, WaitAgain(p)
  PROVE  IInv'
<1> DEFINE below == Front(procs[p].stack)
           x == [procs[p] EXCEPT !.stack = below,
                   !.state = IF below = <<>> THEN "returned" ELSE "shell"]
<1>1. /\ procs[p].state = "shell" /\ Top(p).at = "wait_again" /\ root' = root
      /\ WaitOnce(p, [procs EXCEPT ![p] = x])
  <2>1. Returned(p) = [procs EXCEPT ![p] = x]
    BY DEF Returned
  <2>2. QED  BY <2>1 DEF WaitAgain, At
<1>2. procs[p] \in Process /\ below \in Seq(Frame)
  BY <1>1, TopType DEF IInv, ProcInv
<1>3. x \in Process /\ x.fd = procs[p].fd
  BY <1>2 DEF Process
<1>4. Tight(x)
  BY <1>1, <1>3, NoneAbove DEF Tight, Table
<1>5. Waits(procs[p]) = 1 /\ Waits(x) \in {0, 1, 2}
  BY <1>1 DEF Waits, Top
<1> HIDE DEF x
<1>6. QED  BY <1>1, <1>3, <1>4, <1>5, WaitOnceInv

-----------------------------------------------------------------------------
(* The invariant, and what it says.                                        *)

\* One process, with the root to run and no children.
LEMMA InitInv == Init => IInv
<1> SUFFICES ASSUME Init PROVE IInv
  OBVIOUS
<1>1. root \in Nodes /\ root \in Roots
  BY ShellAssumption DEF Init
<1>2. DOMAIN procs = {<<>>} /\ <<>> \in Seq(Nat)
  BY EmptySeq DEF Init
<1>3. /\ procs[<<>>].state = "shell" /\ procs[<<>>].stack = <<Call(root)>>
      /\ procs[<<>>].runs = 0
      /\ procs[<<>>].fd = [d \in Numbers |-> IF d <= 2 THEN Terminal ELSE Closed]
  BY DEF Init
<1>4. procs[<<>>] \in Process
  <2>1. <<Call(root)>> \in Seq(Frame) /\ <<Call(root)>> # <<>>
    BY <1>1, CallType
  <2>2. [d \in Numbers |-> IF d <= 2 THEN Terminal ELSE Closed]
          \in [Numbers -> Things]
    BY ThingTypes
  <2>3. QED  BY <2>1, <2>2 DEF Init, Process, Things
<1>5. \A d \in Numbers : d > 2 => procs[<<>>].fd[d] = Closed
  BY <1>3 DEF Numbers
<1>6. Tight(procs[<<>>])
  BY <1>5 DEF Tight
<1>7. Children(<<>>) = {} /\ Unreaped(<<>>) = {}
  BY <1>2 DEF Children, Unreaped
<1>8. IsFiniteSet({}) /\ Cardinality({}) = 0
  BY FS_EmptySet
<1>9. NameInv
  <2>1. Cardinality(Children(<<>>)) = 0
    BY <1>7, <1>8
  <2>2. 1 .. Cardinality(Children(<<>>)) = {}
    BY <2>1
  <2>3. QED  BY <1>2, <1>7, <1>8, <2>2 DEF NameInv
<1>10. WaitInv
  BY <1>2, <1>7, <1>8 DEF WaitInv, Waits
<1>11. QED  BY <1>1, <1>2, <1>4, <1>6, <1>9, <1>10 DEF IInv, ProcInv, EndInv

\* Every step keeps the invariant.
LEMMA NextInv == IInv /\ [Next]_vars => IInv'
<1> SUFFICES ASSUME IInv, [Next]_vars PROVE IInv'
  OBVIOUS
<1>1. CASE UNCHANGED vars
  BY <1>1 DEF vars, IInv, ProcInv, NameInv, WaitInv, EndInv, Tight, Waits,
              Unreaped, Children
<1>2. ASSUME NEW p \in DOMAIN procs, RunCmd(p) PROVE IInv'
  <2>1. CASE Exec(p)
    BY <2>1, ExecInv
  <2>2. CASE ExecFails(p)
    BY <2>2, ReturnInv DEF ExecFails
  <2>3. CASE ExecEmpty(p) \/ PipeFails(p)
    BY <2>3, ExitInv DEF ExecEmpty, PipeFails
  <2>4. CASE Redirect(p)
    BY <2>4, RedirectInv
  <2>5. CASE Pipe(p)
    BY <2>5, PipeInv
  <2>6. CASE ForkLeft(p) \/ ForkRight(p)
    BY <2>6, ForkSucceedsInv
  <2>7. CASE ForkLeftFails(p) \/ ForkRightFails(p)
    BY <2>7, ForkFailsInv
  <2>8. CASE Left(p) \/ Right(p)
    BY <2>8, SideInv
  <2>9. CASE CloseBoth(p)
    BY <2>9, CloseInv
  <2>10. CASE Wait(p)
    BY <2>10, WaitInvStep
  <2>11. CASE WaitAgain(p)
    BY <2>11, WaitAgainInv
  <2>12. QED
    BY <1>2, <2>1, <2>2, <2>3, <2>4, <2>5, <2>6, <2>7, <2>8, <2>9, <2>10, <2>11
       DEF RunCmd
<1>3. ASSUME NEW p \in DOMAIN procs, ProgramEnds(p) \/ MainEnds(p) \/ TerminalEnds(p)
      PROVE  IInv'
  BY <1>3, ExitInv DEF ProgramEnds, MainEnds, TerminalEnds, Prompts
<1>4. QED  BY <1>1, <1>2, <1>3 DEF Next

\* Every process has fields of its kind, a call of run_cmd where it runs one, no
\* more children than waits for them, and no end of a pipe that it does not close.
THEOREM Inductive == Spec => []IInv
BY InitInv, NextInv, PTL DEF Spec

\* Every process has fields of its kind.
THEOREM Typed == Spec => []TypeOK
<1>1. IInv => TypeOK
  <2> SUFFICES ASSUME IInv PROVE TypeOK
    OBVIOUS
  <2>1. \A p \in DOMAIN procs :
          /\ procs[p].fd \in [Numbers -> Things]
          /\ procs[p].state \in {"shell", "program", "returned", "zombie", "reaped"}
          /\ procs[p].stack # <<>> <=> procs[p].state \in {"shell", "program"}
          /\ procs[p].runs \in Nodes \cup {0}
    BY Parts DEF IInv
  <2>2. \A p \in DOMAIN procs : \A i \in DOMAIN procs[p].stack :
          procs[p].stack[i].at # "start" => node[procs[p].stack[i].node].type = "pipe"
    <3> SUFFICES ASSUME NEW p \in DOMAIN procs, NEW i \in DOMAIN procs[p].stack
                 PROVE  procs[p].stack[i] \in Frame
      BY DEF Frame
    <3>1. procs[p].stack \in Seq(Frame)
      BY Parts DEF IInv
    <3>2. QED  BY <3>1
  <2>3. QED  BY <2>1, <2>2 DEF TypeOK, IInv, ProcInv, Table, Nodes
<1>2. QED  BY <1>1, Inductive, PTL

\* A process that has returned has waited for all its children.
THEOREM ChildrenAreWaitedFor == Spec => []NoOrphans
<1>1. IInv => NoOrphans
  <2> SUFFICES ASSUME IInv, NEW p \in DOMAIN procs,
                      Ended(p) \/ procs[p].state = "returned",
                      NEW q \in Children(p)
               PROVE  procs[q].state = "reaped"
    BY DEF NoOrphans
  <2>1. procs[p].state # "shell"
    BY DEF Ended
  <2>2. Waits(procs[p]) = 0
    BY <2>1 DEF Waits
  <2>3. /\ IsFiniteSet(Unreaped(p)) /\ Cardinality(Unreaped(p)) \in Nat
        /\ Cardinality(Unreaped(p)) <= 0
    BY <2>2, UnreapedFinite DEF IInv, WaitInv
  <2>4. Unreaped(p) = {}
    BY <2>3, FS_EmptySet
  <2>5. QED  BY <2>4 DEF Unreaped
<1>2. QED  BY <1>1, Inductive, PTL

\* A program, and a process that waits for its children or has returned, has
\* no end of a pipe beyond its input and output.
THEOREM EndsAreClosed == Spec => []NoEndKept
<1>1. IInv => NoEndKept
  BY NoneAbove DEF NoEndKept, At
<1>2. QED  BY <1>1, Inductive, PTL

-----------------------------------------------------------------------------
(* The trees.                                                              *)

PartsOf(n) == {node[n].sub[i] : i \in DOMAIN node[n].sub}
Whole(S) == \A k \in S : PartsOf(k) \subseteq S

\* What belongs to every set of nodes that has n and the parts of its members.
Tree(n) ==
  {m \in Nodes : \A S \in SUBSET Nodes : n \in S /\ Whole(S) => m \in S}

\* The parts of a node are behind it.
LEMMA PartFacts ==
  ASSUME NEW n \in Nodes
  PROVE  /\ n \in Nat /\ n <= Len(node) /\ Len(node) \in Nat
         /\ DOMAIN node[n].sub = 1 .. Len(node[n].sub)
         /\ \A i \in DOMAIN node[n].sub :
              node[n].sub[i] \in Nodes /\ node[n].sub[i] > n
         /\ \A k \in PartsOf(n) : k \in Nodes /\ k > n
<1>1. Len(node) \in Nat /\ Nodes = 1 .. Len(node)
  BY ShellAssumption, LenProperties DEF Nodes
<1>2. node[n].sub \in Seq({m \in Nodes : m > n})
  BY ShellAssumption
<1>3. DOMAIN node[n].sub = 1 .. Len(node[n].sub)
  BY <1>2, LenProperties
<1>4. \A i \in 1 .. Len(node[n].sub) : node[n].sub[i] \in {m \in Nodes : m > n}
  BY <1>2, ElementOfSeq
<1>5. QED  BY <1>1, <1>3, <1>4 DEF PartsOf

\* A node is part of one node only.
LEMMA OneWhole ==
  ASSUME NEW n \in Nodes, NEW m \in Nodes, NEW k, k \in PartsOf(n), k \in PartsOf(m)
  PROVE  n = m
BY ShellAssumption DEF PartsOf

\* Tree(n) is the least set with n that has the parts of its nodes.
LEMMA TreeHas ==
  ASSUME NEW n \in Nodes
  PROVE  /\ n \in Tree(n) /\ Tree(n) \subseteq Nodes /\ Whole(Tree(n))
         /\ \A S \in SUBSET Nodes : n \in S /\ Whole(S) => Tree(n) \subseteq S
<1>1. n \in Tree(n) /\ Tree(n) \subseteq Nodes
  BY DEF Tree
<1>2. \A S \in SUBSET Nodes : n \in S /\ Whole(S) => Tree(n) \subseteq S
  BY DEF Tree
<1>3. ASSUME NEW k \in Tree(n), NEW m \in PartsOf(k) PROVE m \in Tree(n)
  <2>1. m \in Nodes
    BY <1>1, PartFacts
  <2>2. ASSUME NEW S \in SUBSET Nodes, n \in S, Whole(S) PROVE m \in S
    <3>1. k \in S
      BY <1>2, <2>2
    <3>2. QED  BY <2>2, <3>1 DEF Whole
  <2>3. QED  BY <2>1, <2>2 DEF Tree
<1>4. QED  BY <1>1, <1>2, <1>3 DEF Whole

\* It is n and the trees of its parts.
LEMMA TreeIs ==
  ASSUME NEW n \in Nodes
  PROVE  Tree(n) = {n} \cup UNION {Tree(node[n].sub[i]) : i \in DOMAIN node[n].sub}
<1> DEFINE T == {n} \cup UNION {Tree(node[n].sub[i]) : i \in DOMAIN node[n].sub}
<1>1. \A i \in DOMAIN node[n].sub : node[n].sub[i] \in PartsOf(n)
                                    /\ node[n].sub[i] \in Nodes
  BY PartFacts DEF PartsOf
<1>2. T \subseteq Tree(n)
  <2>1. ASSUME NEW i \in DOMAIN node[n].sub PROVE Tree(node[n].sub[i]) \subseteq Tree(n)
    <3>1. node[n].sub[i] \in Tree(n)
      BY <1>1, TreeHas DEF Whole
    <3>2. QED  BY <1>1, <3>1, TreeHas
  <2>2. QED  BY <2>1, TreeHas
<1>3. T \subseteq Nodes /\ n \in T
  BY <1>1, TreeHas
<1>4. Whole(T)
  <2>1. PartsOf(n) \subseteq T
    BY <1>1, TreeHas DEF PartsOf
  <2>2. ASSUME NEW i \in DOMAIN node[n].sub, NEW k \in Tree(node[n].sub[i])
        PROVE  PartsOf(k) \subseteq T
    BY <1>1, TreeHas DEF Whole
  <2>3. QED  BY <2>1, <2>2 DEF Whole
<1>5. Tree(n) \subseteq T
  BY <1>3, <1>4, TreeHas
<1>6. QED  BY <1>2, <1>5

\* Below is defined, and is the tree.
LEMMA BelowIs ==
  Below = [n \in Nodes |->
             {n} \cup UNION {Below[node[n].sub[i]] : i \in DOMAIN node[n].sub}]
<1> DEFINE t == [n \in Nodes |-> Tree(n)]
<1>1. ASSUME NEW n \in Nodes
      PROVE  t[n] = {n} \cup UNION {t[node[n].sub[i]] : i \in DOMAIN node[n].sub}
  <2>1. \A i \in DOMAIN node[n].sub : t[node[n].sub[i]] = Tree(node[n].sub[i])
    BY PartFacts
  <2>2. t[n] = Tree(n)
    OBVIOUS
  <2> HIDE DEF t
  <2>3. {t[node[n].sub[i]] : i \in DOMAIN node[n].sub}
          = {Tree(node[n].sub[i]) : i \in DOMAIN node[n].sub}
    BY <2>1
  <2>4. QED  BY <2>2, <2>3, TreeIs
<1>2. t = [n \in Nodes |->
             {n} \cup UNION {t[node[n].sub[i]] : i \in DOMAIN node[n].sub}]
  <2> DEFINE u == [n \in Nodes |->
                {n} \cup UNION {t[node[n].sub[i]] : i \in DOMAIN node[n].sub}]
  <2>1. \A n \in Nodes : t[n] = u[n]
    BY <1>1
  <2>2. DOMAIN t = Nodes /\ DOMAIN u = Nodes
    OBVIOUS
  <2>3. QED  BY <2>1, <2>2
<1> HIDE DEF t
<1>3. \E f : f = [n \in Nodes |->
             {n} \cup UNION {f[node[n].sub[i]] : i \in DOMAIN node[n].sub}]
  BY <1>2
<1>4. QED  BY <1>3 DEF Below, Nodes

\* Below is the tree: its equation has one solution, as parts are behind
\* their node.
LEMMA BelowTree ==
  ASSUME NEW n \in Nodes
  PROVE  Below[n] = Tree(n)
<1> DEFINE Bad == {m \in Nodes : Below[m] # Tree(m)}
           Height == {Len(node) - m : m \in Bad}
<1>1. SUFFICES ASSUME Bad # {} PROVE FALSE
  OBVIOUS
<1>2. Height \subseteq Nat /\ Height # {}
  BY <1>1, PartFacts
<1>3. PICK h \in Height : \A k \in Height : h <= k
  <2> HIDE DEF Height
  <2>1. QED  BY <1>2, NatMin
<1>4. PICK m \in Bad : h = Len(node) - m
  OBVIOUS
<1>5. \A k \in Nodes : k > m => Below[k] = Tree(k)
  <2>1. ASSUME NEW k \in Bad PROVE k <= m
    <3>1. Len(node) - m <= Len(node) - k
      BY <1>3, <1>4
    <3>2. k \in Nat /\ m \in Nat /\ Len(node) \in Nat
      BY PartFacts
    <3>3. QED  BY <3>1, <3>2
  <2>2. ASSUME NEW k \in Nodes, k > m PROVE k \notin Bad
    <3>1. k \in Nat /\ m \in Nat
      BY PartFacts
    <3>2. QED  BY <2>1, <2>2, <3>1
  <2>3. QED  BY <2>2
<1>6. {Below[node[m].sub[i]] : i \in DOMAIN node[m].sub}
        = {Tree(node[m].sub[i]) : i \in DOMAIN node[m].sub}
  BY <1>5, PartFacts
<1>7. Below[m] = {m} \cup UNION {Below[node[m].sub[i]] : i \in DOMAIN node[m].sub}
  BY BelowIs
<1>8. QED  BY <1>6, <1>7, TreeIs

\* What lies below a node: the node, and what lies below its parts.
LEMMA BelowHas ==
  ASSUME NEW n \in Nodes
  PROVE  /\ n \in Below[n] /\ Below[n] \subseteq Nodes
         /\ \A m \in Below[n] : m >= n
         /\ \A m \in Below[n] : Below[m] \subseteq Below[n]
         /\ \A i \in DOMAIN node[n].sub : Below[node[n].sub[i]] \subseteq Below[n]
         /\ \A m \in Below[n] : m = n \/ \E i \in DOMAIN node[n].sub :
                                           m \in Below[node[n].sub[i]]
<1>1. Below[n] = Tree(n)
  BY BelowTree
<1>2. /\ n \in Below[n] /\ Below[n] \subseteq Nodes /\ Whole(Below[n])
      /\ \A S \in SUBSET Nodes : n \in S /\ Whole(S) => Below[n] \subseteq S
  BY <1>1, TreeHas
<1>3. \A m \in Below[n] : m >= n
  <2> DEFINE S == {m \in Nodes : m >= n}
  <2>1. n \in S
    BY PartFacts
  <2>2. ASSUME NEW k \in S, NEW m \in PartsOf(k) PROVE m \in S
    <3>1. k \in Nat /\ m \in Nodes /\ m \in Nat /\ m > k /\ n \in Nat
      BY PartFacts
    <3>2. QED  BY <3>1
  <2>3. Whole(S)
    BY <2>2 DEF Whole
  <2>4. QED  BY <1>2, <2>1, <2>3
<1>4. \A m \in Below[n] : Below[m] \subseteq Below[n]
  BY <1>2, BelowTree, TreeHas
<1>5. Below[n] = {n} \cup UNION {Below[node[n].sub[i]] : i \in DOMAIN node[n].sub}
  BY BelowIs
<1>6. QED  BY <1>2, <1>3, <1>4, <1>5

\* A node below another is it or part of a node below it.
LEMMA BelowPart ==
  ASSUME NEW n \in Nodes, NEW k \in Below[n], k # n
  PROVE  \E m \in Below[n] : k \in PartsOf(m)
<1> DEFINE S == {m \in Below[n] : m = n \/ \E l \in Below[n] : m \in PartsOf(l)}
<1>1. Below[n] = Tree(n) /\ Below[n] \subseteq Nodes /\ n \in Below[n]
  BY BelowTree, BelowHas
<1>2. Whole(Below[n])
  BY <1>1, TreeHas
<1>3. Whole(S)
  BY <1>2 DEF Whole
<1>4. Below[n] \subseteq S
  BY <1>1, <1>3, TreeHas
<1>5. QED  BY <1>4

\* What lies above a part lies above its whole, or is the part.
LEMMA AbovePart ==
  ASSUME NEW n \in Nodes, NEW k \in PartsOf(n), NEW m \in Nodes, k \in Below[m]
  PROVE  k = m \/ n \in Below[m]
<1>1. CASE k # m
  <2>1. PICK l \in Below[m] : k \in PartsOf(l)
    BY <1>1, BelowPart
  <2>2. l \in Nodes
    BY BelowHas
  <2>3. QED  BY <2>1, <2>2, OneWhole
<1>2. QED  BY <1>1

\* Two trees with a node in common are one in the other.
LEMMA OneInOther ==
  ASSUME NEW a \in Nodes, NEW b \in Nodes, NEW x, x \in Below[a], x \in Below[b]
  PROVE  a \in Below[b] \/ b \in Below[a]
<1> DEFINE Common == {y \in Nodes : y \in Below[a] /\ y \in Below[b]}
<1>1. Common \subseteq Nat /\ Common # {}
  BY PartFacts, BelowHas
<1>2. PICK y \in Common : \A z \in Common : y <= z
  <2> HIDE DEF Common
  <2>1. QED  BY <1>1, NatMin
<1>3. CASE y = a \/ y = b
  BY <1>3
<1>4. CASE y # a /\ y # b
  <2>1. PICK m \in Below[a] : y \in PartsOf(m)
    BY <1>4, BelowPart
  <2>2. m \in Nodes
    BY BelowHas
  <2>3. m \in Below[b]
    BY <1>4, <2>1, <2>2, AbovePart
  <2>4. m \in Common /\ y > m /\ m \in Nat /\ y \in Nat
    BY <2>1, <2>2, <2>3, PartFacts
  <2>5. y <= m
    BY <1>2, <2>4
  <2>6. QED  BY <2>4, <2>5
<1>5. QED  BY <1>3, <1>4

\* The parts of a node have nothing in common.
LEMMA PartsApart ==
  ASSUME NEW n \in Nodes, NEW i \in DOMAIN node[n].sub,
         NEW j \in DOMAIN node[n].sub, i # j
  PROVE  Below[node[n].sub[i]] \cap Below[node[n].sub[j]] = {}
<1> DEFINE a == node[n].sub[i]
           b == node[n].sub[j]
<1>1. /\ a \in Nodes /\ b \in Nodes /\ a > n /\ b > n /\ n \in Nat
      /\ a \in Nat /\ b \in Nat /\ a \in PartsOf(n) /\ b \in PartsOf(n)
  BY PartFacts DEF PartsOf
<1>2. a # b
  BY ShellAssumption
<1> HIDE DEF a, b
<1>3. a \notin Below[b]
  <2>1. n \notin Below[b]
    BY <1>1, BelowHas
  <2>2. QED  BY <1>1, <1>2, <2>1, AbovePart
<1>4. b \notin Below[a]
  <2>1. n \notin Below[a]
    BY <1>1, BelowHas
  <2>2. QED  BY <1>1, <1>2, <2>1, AbovePart
<1>5. \A x : ~(x \in Below[a] /\ x \in Below[b])
  BY <1>1, <1>3, <1>4, OneInOther
<1>6. QED  BY <1>5 DEF a, b

-----------------------------------------------------------------------------
(* What sets the input and output of a command.                            *)

\* How many parts a node has.
LEMMA PartCount ==
  ASSUME NEW n \in Nodes
  PROVE  /\ node[n].type = "pipe" => DOMAIN node[n].sub = {1, 2}
         /\ node[n].type = "redirect" => DOMAIN node[n].sub = {1}
         /\ node[n].type \in {"exec", "empty"} => DOMAIN node[n].sub = {}
<1>1. Len(node[n].sub) = CASE node[n].type = "pipe" -> 2
                           [] node[n].type = "redirect" -> 1
                           [] OTHER -> 0
  BY ShellAssumption
<1>2. DOMAIN node[n].sub = 1 .. Len(node[n].sub)
  BY PartFacts
<1>3. 1 .. 2 = {1, 2} /\ 1 .. 1 = {1} /\ 1 .. 0 = {}
  OBVIOUS
<1>4. QED  BY <1>1, <1>2, <1>3

\* The node a call is for sets a descriptor of its part, or does not; what is
\* around it stays around.
LEMMA SettersOfPart ==
  ASSUME root \in Nodes, NEW c \in Below[root], NEW i \in DOMAIN node[c].sub,
         NEW d \in {0, 1}
  PROVE  LET k == node[c].sub[i] IN
         Setters(k, d) = Setters(c, d) \cup (IF Around(c, k, d) THEN {c} ELSE {})
<1> DEFINE k == node[c].sub[i]
<1>1. c \in Nodes /\ k \in Nodes /\ k \in PartsOf(c) /\ Below[root] \subseteq Nodes
  BY BelowHas, PartFacts DEF PartsOf
<1>2. k \in Below[c]
  BY <1>1, BelowHas
<1> HIDE DEF k
<1>3. ASSUME NEW m \in Setters(c, d) PROVE m \in Setters(k, d)
  <2>1. m \in Below[root] /\ m \in Nodes /\ Around(m, c, d)
    BY <1>1 DEF Setters
  <2>2. /\ node[m].type = "redirect" => node[m].sub[1] \in Nodes
        /\ node[m].type = "pipe" => node[m].sub[1] \in Nodes /\ node[m].sub[2] \in Nodes
    BY <2>1, SubNodes
  <2>3. \A s \in Nodes : c \in Below[s] => k \in Below[s]
    BY <1>2, BelowHas
  <2>4. Around(m, k, d)
    BY <2>1, <2>2, <2>3 DEF Around
  <2>5. QED  BY <2>1, <2>4 DEF Setters
<1>4. Around(c, k, d) => c \in Setters(k, d)
  BY DEF Setters
<1>5. ASSUME NEW m \in Setters(k, d)
      PROVE  m \in Setters(c, d) \/ (Around(c, k, d) /\ m = c)
  <2>1. m \in Below[root] /\ m \in Nodes /\ Around(m, k, d)
    BY <1>1, <1>5 DEF Setters
  <2>2. PICK s \in PartsOf(m) :
          /\ k \in Below[s]
          /\ \/ node[m].type = "redirect" /\ s = node[m].sub[1] /\ node[m].fd = d
             \/ /\ node[m].type = "pipe"
                /\ s = node[m].sub[IF d = 0 THEN 2 ELSE 1]
    <3>1. /\ node[m].type = "redirect" => 1 \in DOMAIN node[m].sub
          /\ node[m].type = "pipe" =>
               1 \in DOMAIN node[m].sub /\ 2 \in DOMAIN node[m].sub
      BY <2>1, PartCount
    <3>2. QED  BY <2>1, <3>1 DEF Around, PartsOf
  <2>3. s \in Nodes
    BY <2>1, PartFacts
  <2>4. k = s \/ c \in Below[s]
    BY <1>1, <2>2, <2>3, AbovePart
  <2>5. CASE k = s
    <3>1. m = c
      BY <1>1, <2>1, <2>2, <2>5, OneWhole
    <3>2. QED  BY <2>1, <3>1
  <2>6. CASE c \in Below[s]
    <3>1. Around(m, c, d)
      BY <2>2, <2>6 DEF Around
    <3>2. QED  BY <2>1, <3>1 DEF Setters
  <2>7. QED  BY <2>4, <2>5, <2>6
<1>6. Setters(k, d) = Setters(c, d) \cup (IF Around(c, k, d) THEN {c} ELSE {})
  BY <1>3, <1>4, <1>5
<1>7. QED  BY <1>6 DEF k

\* What is around a node has it below.
LEMMA SettersAbove ==
  ASSUME root \in Nodes, NEW c \in Below[root], NEW d \in {0, 1},
         NEW m \in Setters(c, d)
  PROVE  m \in Nodes /\ c \in Below[m] /\ c > m
<1>1. m \in Nodes /\ Around(m, c, d) /\ c \in Nodes
  BY BelowHas DEF Setters
<1>2. /\ node[m].type = "redirect" => 1 \in DOMAIN node[m].sub
      /\ node[m].type = "pipe" =>
           1 \in DOMAIN node[m].sub /\ 2 \in DOMAIN node[m].sub
  BY <1>1, PartCount
<1>3. PICK i \in DOMAIN node[m].sub : c \in Below[node[m].sub[i]]
  BY <1>1, <1>2 DEF Around
<1>4. node[m].sub[i] \in Nodes /\ node[m].sub[i] > m
  BY <1>1, PartFacts
<1>5. c >= node[m].sub[i] /\ c \in Below[m]
  BY <1>1, <1>3, <1>4, BelowHas
<1>6. c \in Nat /\ m \in Nat /\ node[m].sub[i] \in Nat
  BY <1>1, <1>4, PartFacts
<1>7. QED  BY <1>1, <1>4, <1>5, <1>6

\* The part of a node that does not set d for it has d from the node.
LEMMA LeadsKept ==
  ASSUME root \in Nodes, NEW c \in Below[root], NEW i \in DOMAIN node[c].sub,
         NEW d \in {0, 1}, ~Around(c, node[c].sub[i], d), NEW x, Leads(x, c, d)
  PROVE  Leads(x, node[c].sub[i], d)
<1>1. Setters(node[c].sub[i], d) = Setters(c, d)
  BY SettersOfPart
<1>2. QED  BY <1>1 DEF Leads

\* The part of a node that does has what the node has set.
LEMMA LeadsSet ==
  ASSUME root \in Nodes, NEW c \in Below[root], NEW i \in DOMAIN node[c].sub,
         NEW d \in {0, 1}, Around(c, node[c].sub[i], d),
         NEW x, x[1] = End(c, d), x[3] = c
  PROVE  Leads(x, node[c].sub[i], d)
<1>1. Setters(node[c].sub[i], d) = Setters(c, d) \cup {c}
  BY SettersOfPart
<1>2. \A k \in Setters(c, d) : c \in Below[k]
  BY SettersAbove
<1>3. c \in Below[c]
  BY BelowHas
<1>4. QED  BY <1>1, <1>2, <1>3 DEF Leads

\* Nothing sets the descriptors of the root.
LEMMA LeadsAtRoot ==
  ASSUME root \in Nodes, NEW d \in {0, 1}
  PROVE  Leads(Terminal, root, d)
<1>1. root \in Below[root] /\ \A m \in Below[root] : m >= root
  BY BelowHas
<1>2. ASSUME NEW m \in Setters(root, d) PROVE FALSE
  <2>1. m \in Below[root] /\ m \in Nodes /\ root > m
    BY <1>1, SettersAbove DEF Setters
  <2>2. m >= root /\ m \in Nat /\ root \in Nat
    BY <1>1, <2>1, PartFacts
  <2>3. QED  BY <2>1, <2>2
<1>3. Setters(root, d) = {}
  BY <1>2
<1>4. QED  BY <1>3 DEF Leads

\* Which part of a pipe has which end; a redirect has one part.
LEMMA AroundPipe ==
  ASSUME NEW c \in Nodes, node[c].type = "pipe"
  PROVE  /\ 1 \in DOMAIN node[c].sub /\ 2 \in DOMAIN node[c].sub
         /\ Around(c, node[c].sub[1], 1) /\ ~Around(c, node[c].sub[1], 0)
         /\ Around(c, node[c].sub[2], 0) /\ ~Around(c, node[c].sub[2], 1)
         /\ Below[c] = {c} \cup Below[node[c].sub[1]] \cup Below[node[c].sub[2]]
         /\ Below[node[c].sub[1]] \cap Below[node[c].sub[2]] = {}
<1>1. DOMAIN node[c].sub = {1, 2}
  BY PartCount
<1>2. node[c].sub[1] \in Nodes /\ node[c].sub[2] \in Nodes
  BY <1>1, PartFacts
<1>3. Below[node[c].sub[1]] \cap Below[node[c].sub[2]] = {}
  BY <1>1, PartsApart
<1>4. /\ node[c].sub[1] \in Below[node[c].sub[1]]
      /\ node[c].sub[2] \in Below[node[c].sub[2]]
  BY <1>2, BelowHas
<1>5. Below[c] = {c} \cup Below[node[c].sub[1]] \cup Below[node[c].sub[2]]
  <2>1. Below[c] = {c} \cup UNION {Below[node[c].sub[i]] : i \in DOMAIN node[c].sub}
    BY BelowIs
  <2>2. QED  BY <1>1, <2>1
<1>6. QED  BY <1>1, <1>3, <1>4, <1>5 DEF Around

\* A redirect sets its descriptor for its command.
LEMMA AroundRedirect ==
  ASSUME NEW c \in Nodes, node[c].type = "redirect", NEW d \in {0, 1}
  PROVE  /\ 1 \in DOMAIN node[c].sub
         /\ Around(c, node[c].sub[1], d) <=> node[c].fd = d
         /\ Below[c] = {c} \cup Below[node[c].sub[1]]
<1>1. DOMAIN node[c].sub = {1}
  BY PartCount
<1>2. node[c].sub[1] \in Nodes
  BY <1>1, PartFacts
<1>3. node[c].sub[1] \in Below[node[c].sub[1]]
  BY <1>2, BelowHas
<1>4. Below[c] = {c} \cup Below[node[c].sub[1]]
  <2>1. Below[c] = {c} \cup UNION {Below[node[c].sub[i]] : i \in DOMAIN node[c].sub}
    BY BelowIs
  <2>2. QED  BY <1>1, <2>1
<1>5. QED  BY <1>1, <1>3, <1>4 DEF Around

\* A command has no parts.
LEMMA BelowLeaf ==
  ASSUME NEW c \in Nodes, node[c].type \in {"exec", "empty"}
  PROVE  Below[c] = {c}
<1>1. DOMAIN node[c].sub = {}
  BY PartCount
<1>2. Below[c] = {c} \cup UNION {Below[node[c].sub[i]] : i \in DOMAIN node[c].sub}
  BY BelowIs
<1>3. QED  BY <1>1, <1>2

\* What a program's input or output leads to is what Wired says.
LEMMA LeadsWired ==
  ASSUME root \in Nodes, NEW c \in Below[root], node[c].type = "exec",
         NEW d \in {0, 1}, NEW x, Leads(x, c, d)
  PROVE  LET setters == {m \in Below[root] : Sets(m, c, d)}
             innermost == CHOOSE m \in setters : \A k \in setters : m \in Below[k]
         IN IF setters = {} THEN x = Terminal
            ELSE /\ x[3] = innermost
                 /\ x[1] = IF node[innermost].type = "redirect" THEN "file"
                           ELSE IF d = 0 THEN "read" ELSE "write"
<1> DEFINE setters == {m \in Below[root] : Sets(m, c, d)}
           innermost == CHOOSE m \in setters : \A k \in setters : m \in Below[k]
<1>1. Below[root] \subseteq Nodes /\ c \in Nodes
  BY BelowHas
<1>2. ASSUME NEW m \in Below[root] PROVE Sets(m, c, d) <=> Around(m, c, d)
  <2>1. m \in Nodes
    BY <1>1
  <2>2. CASE node[m].type = "redirect"
    <3>1. Below[m] = {m} \cup Below[node[m].sub[1]] /\ c # m
      BY <2>1, <2>2, AroundRedirect
    <3>2. QED  BY <2>2, <3>1 DEF Sets, Around
  <2>3. CASE node[m].type # "redirect"
    BY <2>3 DEF Sets, Around
  <2>4. QED  BY <2>2, <2>3
<1>3. setters = Setters(c, d)
  BY <1>2 DEF Setters
<1> HIDE DEF setters
<1>4. CASE setters = {}
  BY <1>3, <1>4 DEF Leads, setters
<1>5. CASE setters # {}
  <2>1. PICK m \in setters : /\ \A k \in setters : m \in Below[k]
                             /\ x[1] = End(m, d) /\ x[3] = m
    BY <1>3, <1>5 DEF Leads
  <2>2. innermost \in setters /\ \A k \in setters : innermost \in Below[k]
    BY <2>1
  <2> HIDE DEF innermost
  <2>3. innermost \in Below[m] /\ m \in Below[innermost]
        /\ m \in Nodes /\ innermost \in Nodes
    BY <1>1, <1>3, <2>1, <2>2 DEF Setters
  <2>4. innermost >= m /\ m >= innermost /\ m \in Nat /\ innermost \in Nat
    BY <2>3, BelowHas, PartFacts
  <2>5. innermost = m
    BY <2>4
  <2>6. QED  BY <1>5, <2>1, <2>5 DEF End, setters, innermost
<1>6. QED  BY <1>4, <1>5

-----------------------------------------------------------------------------
(* The steps of a line in which nothing fails.                             *)

\* Arranged depends on the process and the root only.
LEMMA ArrangedSame ==
  ASSUME root' = root, NEW p \in DOMAIN procs', Arranged(procs'[p])
  PROVE  Arranged(procs[p])'
BY DEF Arranged, Leads, Setters

\* Clean depends on the root only.
LEMMA CleanSame ==
  ASSUME root' = root
  PROVE  Clean' = Clean
BY DEF Clean

\* A step that makes no process, and moves no share between processes.
LEMMA CleanKept ==
  ASSUME CleanInv, root' = root, DOMAIN procs' = DOMAIN procs,
         Clean => \A r \in DOMAIN procs :
           /\ Arranged(procs'[r])
           /\ Share(procs'[r]) \subseteq Share(procs[r])
           /\ \A n \in Share(procs[r]) :
                node[n].type = "exec" => n \in Share(procs'[r])
  PROVE  CleanInv'
<1> SUFFICES ASSUME Clean
             PROVE /\ \A p \in DOMAIN procs' : Arranged(procs[p])'
                   /\ \A p, q \in DOMAIN procs' :
                        p # q => Share(procs'[p]) \cap Share(procs'[q]) = {}
                   /\ \A n \in Below[root'] : node[n].type = "exec" =>
                        \E p \in DOMAIN procs' : n \in Share(procs'[p])
  BY CleanSame DEF CleanInv, Share
<1>1. \A p \in DOMAIN procs' : Arranged(procs[p])'
  BY ArrangedSame
<1>2. \A p, q \in DOMAIN procs' :
        p # q => Share(procs'[p]) \cap Share(procs'[q]) = {}
  BY DEF CleanInv
<1>3. \A n \in Below[root'] : node[n].type = "exec" =>
        \E p \in DOMAIN procs' : n \in Share(procs'[p])
  BY DEF CleanInv
<1>4. QED  BY <1>1, <1>2, <1>3

\* A fork that splits the share of a process in two.
LEMMA CleanForked ==
  ASSUME CleanInv, root' = root, NEW p \in DOMAIN procs, NEW q, q \notin DOMAIN procs,
         DOMAIN procs' = DOMAIN procs \cup {q},
         \A r \in DOMAIN procs \ {p} : procs'[r] = procs[r],
         Clean =>
           /\ Arranged(procs'[p]) /\ Arranged(procs'[q])
           /\ Share(procs'[p]) \cap Share(procs'[q]) = {}
           /\ Share(procs'[p]) \subseteq Share(procs[p])
           /\ Share(procs'[q]) \subseteq Share(procs[p])
           /\ \A n \in Share(procs[p]) :
                node[n].type = "exec" =>
                  n \in Share(procs'[p]) \/ n \in Share(procs'[q])
  PROVE  CleanInv'
<1> SUFFICES ASSUME Clean
             PROVE /\ \A r \in DOMAIN procs' : Arranged(procs[r])'
                   /\ \A r, s \in DOMAIN procs' :
                        r # s => Share(procs'[r]) \cap Share(procs'[s]) = {}
                   /\ \A n \in Below[root'] : node[n].type = "exec" =>
                        \E r \in DOMAIN procs' : n \in Share(procs'[r])
  BY CleanSame DEF CleanInv, Share
<1>1. \A r \in DOMAIN procs' : Arranged(procs[r])'
  <2>1. \A r \in DOMAIN procs' : Arranged(procs'[r])
    BY DEF CleanInv
  <2>2. QED  BY <2>1, ArrangedSame
<1>2. ASSUME NEW r \in DOMAIN procs', NEW s \in DOMAIN procs', r # s
      PROVE  Share(procs'[r]) \cap Share(procs'[s]) = {}
  <2>1. \A t \in DOMAIN procs \ {p} : Share(procs'[t]) \cap Share(procs[p]) = {}
    BY DEF CleanInv
  <2>2. CASE r \in {p, q} /\ s \in {p, q}
    BY <1>2, <2>2
  <2>3. CASE r \in {p, q} /\ s \notin {p, q}
    BY <2>1, <2>3
  <2>4. CASE r \notin {p, q} /\ s \in {p, q}
    BY <2>1, <2>4
  <2>5. CASE r \notin {p, q} /\ s \notin {p, q}
    <3>1. r \in DOMAIN procs \ {p} /\ s \in DOMAIN procs \ {p}
      BY <2>5
    <3>2. QED  BY <1>2, <3>1 DEF CleanInv
  <2>6. QED  BY <2>2, <2>3, <2>4, <2>5
<1>3. ASSUME NEW n \in Below[root], node[n].type = "exec"
      PROVE  \E r \in DOMAIN procs' : n \in Share(procs'[r])
  <2>1. PICK r \in DOMAIN procs : n \in Share(procs[r])
    BY <1>3 DEF CleanInv
  <2>2. CASE r = p
    BY <1>3, <2>1, <2>2
  <2>3. CASE r # p
    BY <2>1, <2>3
  <2>4. QED  BY <2>2, <2>3
<1>4. QED  BY <1>1, <1>2, <1>3

\* A process that changes alone.
LEMMA CleanAlone ==
  ASSUME CleanInv, NEW p \in DOMAIN procs, root' = root,
         NEW x, procs' = [procs EXCEPT ![p] = x],
         Clean => /\ Arranged(x)
                  /\ Share(x) \subseteq Share(procs[p])
                  /\ \A n \in Share(procs[p]) :
                       node[n].type = "exec" => n \in Share(x)
  PROVE  CleanInv'
<1>1. DOMAIN procs' = DOMAIN procs
  OBVIOUS
<1>2. ASSUME Clean, NEW r \in DOMAIN procs
      PROVE  /\ Arranged(procs'[r])
             /\ Share(procs'[r]) \subseteq Share(procs[r])
             /\ \A n \in Share(procs[r]) :
                  node[n].type = "exec" => n \in Share(procs'[r])
  <2>1. CASE r = p
    BY <1>2, <2>1
  <2>2. CASE r # p
    BY <1>2, <2>2 DEF CleanInv
  <2>3. QED  BY <2>1, <2>2
<1>3. QED  BY <1>1, <1>2, CleanKept

\* What a process that has commands to run is like; nothing fails in it.
LEMMA BusyFacts ==
  ASSUME IInv, CleanInv, Clean, NEW p \in DOMAIN procs, procs[p].state = "shell",
         Top(p).at \in {"start", "fork_left", "left", "fork_right", "right"}
  PROVE  /\ root \in Nodes /\ Below[root] \subseteq Nodes
         /\ Top(p) \in Frame /\ Front(procs[p].stack) \in Seq(Frame)
         /\ procs[p].stack \in Seq(Frame) /\ procs[p].stack # <<>>
         /\ procs[p] \in Process
         /\ Table(p) \in [Numbers -> Things]
         /\ Top(p).node \in Below[root] /\ Top(p).node \in Nodes
         /\ procs[p].runs = 0
         /\ Node(p).ok /\ Node(p).forks = {1, 2}
         /\ \A d \in {0, 1, 2} : Table(p)[d] # Closed
         /\ \A d \in {0, 1} : Leads(Table(p)[d], Top(p).node, d)
         /\ node[Top(p).node].type = "pipe" =>
              \A i \in 1 .. Len(procs[p].stack) - 1 : procs[p].stack[i].at = "close"
<1>1. ProcInv /\ Arranged(procs[p])
  BY DEF IInv, CleanInv
<1>2. root \in Nodes /\ Below[root] \subseteq Nodes
  BY <1>1, ShellAssumption, BelowHas DEF ProcInv
<1>3. /\ Top(p) \in Frame /\ Front(procs[p].stack) \in Seq(Frame)
      /\ procs[p].stack \in Seq(Frame) /\ procs[p].stack # <<>>
      /\ procs[p] \in Process
      /\ Table(p) \in [Numbers -> Things]
  BY <1>1, TopType, Parts DEF ProcInv, Table
<1>4. Busy(procs[p])
  BY DEF Busy, Top
<1>5. /\ Top(p).node \in Below[root]
      /\ procs[p].runs = 0
      /\ \A d \in {0, 1, 2} : Table(p)[d] # Closed
      /\ \A d \in {0, 1} : Leads(Table(p)[d], Top(p).node, d)
      /\ node[Top(p).node].type = "pipe" =>
           \A i \in 1 .. Len(procs[p].stack) - 1 : procs[p].stack[i].at = "close"
  BY <1>1, <1>4 DEF Arranged, Top, Table
<1>6. Node(p).ok /\ Node(p).forks = {1, 2}
  BY <1>5 DEF Clean, Node
<1>7. QED  BY <1>2, <1>3, <1>5, <1>6

\* A stack without its last call.
LEMMA FrontItems ==
  ASSUME NEW S, NEW s \in Seq(S), s # <<>>
  PROVE  \A i \in 1 .. Len(s) - 1 : Front(s)[i] = s[i]
<1>1. Len(s) \in Nat /\ Len(s) # 0 /\ \A i \in 1 .. Len(s) : s[i] \in S
  BY EmptySeq, LenProperties, ElementOfSeq
<1>2. \A i \in 1 .. Len(s) - 1 : SubSeq(s, 1, Len(s) - 1)[i] = s[i]
  <2>1. \A i \in 1 .. (Len(s) - 1) - 1 + 1 :
          SubSeq(s, 1, Len(s) - 1)[i] = s[1 + i - 1]
    BY <1>1, SubSeqProperties
  <2>2. ASSUME NEW i \in 1 .. Len(s) - 1
        PROVE  i \in 1 .. (Len(s) - 1) - 1 + 1 /\ 1 + i - 1 = i
    BY <1>1
  <2>3. QED  BY <2>1, <2>2
<1>3. QED  BY <1>2 DEF Front

\* The share of a program is the command that it runs.
LEMMA CleanExec ==
  ASSUME IInv, CleanInv, NEW p \in DOMAIN procs, Exec(p)
  PROVE  CleanInv'
<1> DEFINE x == [procs[p] EXCEPT !.state = "program", !.runs = Top(p).node]
<1>1. /\ procs' = [procs EXCEPT ![p] = x] /\ root' = root
      /\ procs[p].state = "shell" /\ Top(p).at = "start"
      /\ node[Top(p).node].type = "exec"
  BY DEF Exec, At, Node
<1>2. ASSUME Clean
      PROVE  /\ Arranged(x)
             /\ Share(x) = Share(procs[p])
  <2>1. /\ procs[p] \in Process
        /\ Top(p).node \in Below[root] /\ Top(p).node \in Nodes
        /\ \A d \in {0, 1} : Leads(Table(p)[d], Top(p).node, d)
    BY <1>1, <1>2, BusyFacts
  <2>2. /\ x.state = "program" /\ x.runs = Top(p).node /\ x.fd = Table(p)
    BY <2>1 DEF Process, Table
  <2>3. Arranged(x)
    BY <1>1, <2>1, <2>2 DEF Arranged, Busy
  <2>4. Below[Top(p).node] = {Top(p).node} /\ Top(p).node # 0
    BY <1>1, <2>1, BelowLeaf, LenProperties, ShellAssumption DEF Nodes
  <2>5. Share(x) = Share(procs[p])
    BY <1>1, <2>2, <2>4 DEF Share, Top
  <2>6. QED  BY <2>3, <2>5
<1> HIDE DEF x
<1>3. QED  BY <1>1, <1>2, CleanAlone

\* A process that ends keeps to itself what it has run.
LEMMA CleanExit ==
  ASSUME IInv, CleanInv, NEW p \in DOMAIN procs, Exit(p),
         \/ procs[p].state \in {"program", "returned"}
         \/ At(p, "start") /\ Node(p).type = "empty"
  PROVE  CleanInv'
<1> DEFINE x == Gone(p)
<1>1. procs' = [procs EXCEPT ![p] = x] /\ root' = root
  BY DEF Exit
<1>2. procs[p] \in Process
  BY DEF IInv, ProcInv
<1>3. x.state = "zombie" /\ x.runs = procs[p].runs
  BY <1>2 DEF Gone, Process
<1>4. Arranged(x)
  BY <1>3 DEF Arranged, Busy
<1>5. CASE procs[p].state # "shell"
  <2>1. Share(x) = Share(procs[p])
    BY <1>3, <1>5 DEF Share
  <2> HIDE DEF x
  <2>2. QED  BY <1>1, <1>4, <2>1, CleanAlone
<1>6. CASE procs[p].state = "shell"
  <2>1. Top(p).at = "start" /\ node[Top(p).node].type = "empty"
    BY <1>6 DEF At, Node
  <2>2. ASSUME Clean
        PROVE  Share(x) = {} /\ Share(procs[p]) = {Top(p).node}
    <3>1. Top(p).node \in Nodes /\ procs[p].runs = 0
      BY <1>6, <2>1, <2>2, BusyFacts
    <3>2. Below[Top(p).node] = {Top(p).node}
      BY <2>1, <3>1, BelowLeaf
    <3>3. QED  BY <1>3, <1>6, <2>1, <3>1, <3>2 DEF Share, Top
  <2> HIDE DEF x
  <2>3. QED  BY <1>1, <1>4, <2>1, <2>2, CleanAlone
<1>7. QED  BY <1>5, <1>6

\* Nothing fails: these steps are not taken.
LEMMA CleanNoFailure ==
  ASSUME IInv, CleanInv, Clean, NEW p \in DOMAIN procs
  PROVE  /\ ~ExecFails(p) /\ ~PipeFails(p)
         /\ ~ForkLeftFails(p) /\ ~ForkRightFails(p)
<1>1. ASSUME procs[p].state = "shell",
             Top(p).at \in {"start", "fork_left", "fork_right"}
      PROVE  Node(p).ok /\ Node(p).forks = {1, 2}
  BY <1>1, BusyFacts
<1>2. QED
  BY <1>1 DEF ExecFails, PipeFails, ForkLeftFails, ForkRightFails, At

\* A process that goes on in run_cmd.
LEMMA CleanBecome ==
  ASSUME IInv, CleanInv, NEW p \in DOMAIN procs, procs[p].state = "shell",
         NEW stack, NEW fd, Become(p, stack, fd),
         Clean =>
           LET top == Last(stack) IN
           /\ Busy([procs[p] EXCEPT !.stack = stack, !.fd = fd]) =>
                /\ top.node \in Below[root]
                /\ \A d \in {0, 1, 2} : fd[d] # Closed
                /\ \A d \in {0, 1} : Leads(fd[d], top.node, d)
                /\ top.at # "start" =>
                     LET r == top.fd[1]
                         w == top.fd[2]
                     IN /\ r > 2 /\ w > 2 /\ r # w
                        /\ fd[r][1] = "read" /\ fd[r][3] = top.node
                        /\ fd[w][1] = "write" /\ fd[w][3] = top.node
           /\ node[top.node].type = "pipe" =>
                \A i \in 1 .. Len(stack) - 1 : stack[i].at = "close"
           /\ LET old == Share(procs[p])
                  new == Share([procs[p] EXCEPT !.stack = stack, !.fd = fd])
              IN /\ new \subseteq old
                 /\ \A n \in old : node[n].type = "exec" => n \in new
  PROVE  CleanInv'
<1> DEFINE x == [procs[p] EXCEPT !.stack = stack, !.fd = fd]
<1>1. procs' = [procs EXCEPT ![p] = x] /\ root' = root
  BY DEF Become
<1>2. procs[p] \in Process
  BY DEF IInv, ProcInv
<1>3. /\ x.state = "shell" /\ x.stack = stack /\ x.fd = fd
      /\ x.runs = procs[p].runs
  BY <1>2 DEF Process
<1>4. ASSUME Clean PROVE Arranged(x)
  <2>1. procs[p].runs = 0
    BY <1>4 DEF CleanInv, Arranged
  <2>2. QED  BY <1>3, <1>4, <2>1 DEF Arranged
<1>5. QED  BY <1>1, <1>4, CleanAlone

\* A redirect is set, and its command is what is left to run.
LEMMA CleanRedirect ==
  ASSUME IInv, CleanInv, NEW p \in DOMAIN procs, Redirect(p)
  PROVE  CleanInv'
<1> DEFINE c == Top(p).node
           n == Node(p)
           k == n.sub[1]
           freed == Shut(Table(p), n.fd)
           stack == Append(Front(procs[p].stack), Call(k))
           fd == IF n.ok THEN [freed EXCEPT ![Lowest(freed)] = File(c)] ELSE freed
           x == [procs[p] EXCEPT !.stack = stack, !.fd = fd]
<1>1. /\ procs[p].state = "shell" /\ Top(p).at = "start" /\ n.type = "redirect"
      /\ Become(p, stack, fd)
  BY DEF Redirect, At
<1> SUFFICES ASSUME Clean
             PROVE  /\ Last(stack).node \in Below[root]
                    /\ \A d \in {0, 1, 2} : fd[d] # Closed
                    /\ \A d \in {0, 1} : Leads(fd[d], Last(stack).node, d)
                    /\ Last(stack).at = "start"
                    /\ node[Last(stack).node].type # "pipe"
                    /\ Share(x) \subseteq Share(procs[p])
                    /\ \A m \in Share(procs[p]) :
                         node[m].type = "exec" => m \in Share(x)
  <2> HIDE DEF stack, fd
  <2>1. QED  BY <1>1, CleanBecome
<1>2. /\ root \in Nodes /\ Below[root] \subseteq Nodes
      /\ Front(procs[p].stack) \in Seq(Frame)
      /\ procs[p] \in Process
      /\ Table(p) \in [Numbers -> Things]
      /\ c \in Below[root] /\ c \in Nodes
      /\ n.ok
      /\ \A d \in {0, 1, 2} : Table(p)[d] # Closed
      /\ \A d \in {0, 1} : Leads(Table(p)[d], c, d)
  BY <1>1, BusyFacts
<1>3. n = node[c] /\ n.fd \in {0, 1} /\ k \in Nodes
  BY <1>1, <1>2, SubNodes DEF Node
<1>4. /\ 1 \in DOMAIN node[c].sub
      /\ \A d \in {0, 1} : Around(c, k, d) <=> n.fd = d
      /\ Below[c] = {c} \cup Below[k]
  BY <1>1, <1>2, <1>3, AroundRedirect
<1>5. node[k].type # "pipe"
  BY <1>1, <1>2, <1>3, ShellAssumption DEF Simple
<1>6. Last(stack) = Call(k) /\ stack # <<>>
  BY <1>2, <1>3, CallType, AppendTop
<1>7. Last(stack).node = k /\ Last(stack).at = "start"
  BY <1>6 DEF Call
<1>8. k \in Below[root]
  BY <1>2, <1>3, <1>4, BelowHas
<1>9. {0, 1, 2} \subseteq Numbers /\ Numbers \subseteq Nat
  BY ShellAssumption DEF Numbers
<1>10. /\ freed \in [Numbers -> Things] /\ freed[n.fd] = Closed
       /\ \A d \in Numbers : d # n.fd => freed[d] = Table(p)[d]
  BY <1>2, <1>3, <1>9, ThingTypes DEF Shut
<1>11. Lowest(freed) = n.fd
  <2>1. /\ Lowest(freed) \in Numbers /\ freed[Lowest(freed)] = Closed
        /\ Lowest(freed) <= n.fd
    BY <1>3, <1>9, <1>10, LowestFree
  <2>2. Lowest(freed) \in {0, 1}
    <3> DEFINE l == Lowest(freed)
    <3>1. l \in Nat /\ l <= n.fd
      BY <1>9, <2>1
    <3> HIDE DEF l
    <3>2. l = 0 \/ l = 1
      BY <1>3, <3>1
    <3>3. QED  BY <3>2 DEF l
  <2>3. QED  BY <1>2, <1>9, <1>10, <2>1, <2>2
<1>12. /\ fd[n.fd] = File(c)
       /\ \A d \in Numbers : d # n.fd => fd[d] = Table(p)[d]
  <2>1. fd = [freed EXCEPT ![n.fd] = File(c)]
    BY <1>2, <1>11
  <2> HIDE DEF freed
  <2>2. QED  BY <1>3, <1>9, <1>10, <2>1
<1> HIDE DEF fd, stack
<1>13. \A d \in {0, 1, 2} : fd[d] # Closed
  BY <1>2, <1>9, <1>12, ThingTypes
<1>14. ASSUME NEW d \in {0, 1} PROVE Leads(fd[d], k, d)
  <2>1. CASE d = n.fd
    <3>1. fd[d][1] = End(c, d) /\ fd[d][3] = c
      BY <1>1, <1>3, <1>12, <2>1 DEF File, End
    <3>2. Around(c, k, d)
      BY <1>4, <2>1
    <3>3. QED  BY <1>2, <1>3, <1>4, <3>1, <3>2, LeadsSet
  <2>2. CASE d # n.fd
    <3>1. fd[d] = Table(p)[d] /\ Leads(Table(p)[d], c, d)
      BY <1>2, <1>9, <1>12, <2>2
    <3>2. ~Around(c, k, d)
      BY <1>4, <2>2
    <3>3. QED  BY <1>2, <1>3, <1>4, <3>1, <3>2, LeadsKept
  <2>3. QED  BY <2>1, <2>2
<1>15. Share(x) = Below[k] /\ Share(procs[p]) = Below[c]
  <2>1. x.state = "shell" /\ x.stack = stack
    BY <1>1, <1>2 DEF Process
  <2>2. QED  BY <1>1, <1>7, <2>1 DEF Share, Top
<1>16. node[c].type # "exec"
  BY <1>1, <1>3
<1> HIDE DEF x
<1>17. QED  BY <1>4, <1>5, <1>7, <1>8, <1>13, <1>14, <1>15, <1>16

\* The items of a stack with another top, or with one more call.
LEMMA GotoItems ==
  ASSUME ProcInv, NEW p \in DOMAIN procs, procs[p].state = "shell",
         Top(p).at # "start",
         NEW at \in {"start", "fork_left", "left", "fork_right", "right",
                     "close", "wait", "wait_again"}
  PROVE  /\ Len(procs[p].stack) \in Nat \ {0}
         /\ Len(Goto(p, at)) = Len(procs[p].stack)
         /\ \A i \in 1 .. Len(procs[p].stack) - 1 :
              Goto(p, at)[i] = procs[p].stack[i]
         /\ Goto(p, at)[Len(procs[p].stack)] = [Top(p) EXCEPT !.at = at]
<1> DEFINE s == procs[p].stack
<1>1. s \in Seq(Frame) /\ s # <<>> /\ Front(s) \in Seq(Frame)
  BY TopType
<1>2. Len(s) \in Nat \ {0} /\ Len(Front(s)) = Len(s) - 1
  BY <1>1, EmptySeq, FrontLast
<1>3. \A i \in 1 .. Len(s) - 1 : Front(s)[i] = s[i]
  BY <1>1, FrontItems
<1> DEFINE e == [Top(p) EXCEPT !.at = at]
<1>4. e \in Frame
  BY TopType DEF Frame
<1> HIDE DEF e
<1>5. /\ Len(Append(Front(s), e)) = Len(Front(s)) + 1
      /\ \A i \in 1 .. Len(Front(s)) : Append(Front(s), e)[i] = Front(s)[i]
      /\ Append(Front(s), e)[Len(Front(s)) + 1] = e
  BY <1>1, <1>4, AppendProperties
<1>6. Goto(p, at) = Append(Front(s), e)
  BY DEF Goto, e
<1> HIDE DEF s
<1>7. /\ Len(s) \in Nat \ {0} /\ Len(Goto(p, at)) = Len(s)
      /\ \A i \in 1 .. Len(s) - 1 : Goto(p, at)[i] = s[i]
      /\ Goto(p, at)[Len(s)] = e
  BY <1>2, <1>3, <1>5, <1>6
<1>8. QED  BY <1>7 DEF s, e

\* When a call calls run_cmd again, the calls below are at their closes.
LEMMA EnterItems ==
  ASSUME ProcInv, NEW p \in DOMAIN procs, procs[p].state = "shell",
         Top(p).at # "start", NEW n \in Nodes,
         \A i \in 1 .. Len(procs[p].stack) - 1 : procs[p].stack[i].at = "close"
  PROVE  \A i \in 1 .. Len(Enter(p, n, "close")) - 1 :
           Enter(p, n, "close")[i].at = "close"
<1> DEFINE g == Goto(p, "close")
           k == Len(procs[p].stack)
<1>1. /\ k \in Nat \ {0} /\ Len(g) = k
      /\ \A i \in 1 .. k - 1 : g[i] = procs[p].stack[i]
      /\ g[k] = [Top(p) EXCEPT !.at = "close"]
  BY GotoItems
<1>2. g \in Seq(Frame) /\ Call(n) \in Frame /\ Top(p) \in Frame
  BY GotoType, CallType, TopType
<1>3. g[k].at = "close"
  BY <1>1, <1>2 DEF Frame
<1>4. \A i \in 1 .. k : g[i].at = "close"
  BY <1>1, <1>3
<1> HIDE DEF g
<1>5. /\ Len(Append(g, Call(n))) = Len(g) + 1
      /\ \A i \in 1 .. Len(g) : Append(g, Call(n))[i] = g[i]
  BY <1>2, AppendProperties
<1>6. Enter(p, n, "close") = Append(g, Call(n))
  BY DEF Enter, g
<1> HIDE DEF k
<1>7. QED  BY <1>1, <1>4, <1>5, <1>6

\* pipe gives a process the two ends.
LEMMA CleanPipe ==
  ASSUME IInv, CleanInv, NEW p \in DOMAIN procs, Pipe(p)
  PROVE  CleanInv'
<1> DEFINE n == Top(p).node
           t == Table(p)
           r == Lowest(t)
           t2 == [t EXCEPT ![r] = Terminal]
           w == Lowest(t2)
           top == [Top(p) EXCEPT !.at = "fork_left", !.fd = <<r, w>>]
           s == procs[p].stack
           stack == Append(Front(s), top)
           fd == [t EXCEPT ![r] = ReadEnd(p, n), ![w] = WriteEnd(p, n)]
           x == [procs[p] EXCEPT !.stack = stack, !.fd = fd]
<1>1. /\ procs[p].state = "shell" /\ Top(p).at = "start" /\ Become(p, stack, fd)
      /\ node[n].type = "pipe"
  BY DEF Pipe, At, Node
<1> SUFFICES ASSUME Clean
             PROVE  /\ Last(stack).node \in Below[root]
                    /\ \A d \in {0, 1, 2} : fd[d] # Closed
                    /\ \A d \in {0, 1} : Leads(fd[d], Last(stack).node, d)
                    /\ Last(stack).fd[1] = r /\ Last(stack).fd[2] = w
                    /\ r > 2 /\ w > 2 /\ r # w
                    /\ fd[r][1] = "read" /\ fd[r][3] = Last(stack).node
                    /\ fd[w][1] = "write" /\ fd[w][3] = Last(stack).node
                    /\ \A i \in 1 .. Len(stack) - 1 : stack[i].at = "close"
                    /\ Share(x) = Share(procs[p])
  <2> HIDE DEF stack, fd, r, w
  <2>1. QED  BY <1>1, CleanBecome
<1>2. /\ Front(s) \in Seq(Frame) /\ s \in Seq(Frame) /\ s # <<>>
      /\ Top(p) \in Frame
      /\ procs[p] \in Process
      /\ t \in [Numbers -> Things]
      /\ n \in Below[root] /\ n \in Nodes
      /\ \A d \in {0, 1, 2} : t[d] # Closed
      /\ \A d \in {0, 1} : Leads(t[d], n, d)
      /\ \A i \in 1 .. Len(s) - 1 : s[i].at = "close"
  BY <1>1, BusyFacts
<1>3. {0, 1, 2, 3, 4} \subseteq Numbers /\ Numbers \subseteq Nat
  BY ShellAssumption DEF Numbers
<1>4. t[3] = Closed /\ t[4] = Closed
  BY <1>1, <1>3, NoneAbove
<1>5. r \in Numbers /\ t[r] = Closed
  BY <1>3, <1>4, LowestFree
<1> HIDE DEF r
<1>6. Terminal # Closed
  BY DEF Terminal, Closed
<1>7. /\ t2 \in [Numbers -> Things] /\ t2[r] = Terminal
      /\ \A d \in Numbers : d # r => t2[d] = t[d]
  BY <1>2, <1>5, ThingTypes
<1>8. t2[3] = Closed \/ t2[4] = Closed
  BY <1>3, <1>4, <1>7
<1> HIDE DEF t2
<1>9. w \in Numbers /\ t2[w] = Closed
  BY <1>3, <1>8, LowestFree
<1> HIDE DEF w
<1>10. r # w /\ t[w] = Closed
  BY <1>6, <1>7, <1>9
<1>11. r > 2 /\ w > 2
  BY <1>2, <1>3, <1>5, <1>9, <1>10
<1>12. /\ fd[r] = ReadEnd(p, n) /\ fd[w] = WriteEnd(p, n)
       /\ \A d \in {0, 1, 2} : fd[d] = t[d]
  BY <1>2, <1>3, <1>5, <1>9, <1>10, <1>11
<1>13. /\ top \in Frame /\ top.node = n /\ top.at = "fork_left"
       /\ top.fd[1] = r /\ top.fd[2] = w
  BY <1>1, <1>2, <1>5, <1>9 DEF Frame
<1> HIDE DEF top
<1>14. /\ stack \in Seq(Frame) /\ stack # <<>> /\ Last(stack) = top
  BY <1>2, <1>13, AppendTop
<1>15. \A i \in 1 .. Len(stack) - 1 : stack[i].at = "close"
  <2>1. /\ Len(s) \in Nat \ {0} /\ Len(Front(s)) = Len(s) - 1
        /\ \A i \in 1 .. Len(s) - 1 : Front(s)[i] = s[i]
    BY <1>2, EmptySeq, FrontLast, FrontItems
  <2>2. /\ Len(stack) = Len(Front(s)) + 1
        /\ \A i \in 1 .. Len(Front(s)) : stack[i] = Front(s)[i]
    BY <1>2, <1>13, AppendProperties
  <2> HIDE DEF stack, s
  <2>3. QED  BY <1>2, <2>1, <2>2
<1> HIDE DEF fd, stack
<1>16. Share(x) = Share(procs[p])
  <2>1. x.state = "shell" /\ x.stack = stack
    BY <1>1, <1>2 DEF Process
  <2>2. QED  BY <1>1, <1>13, <1>14, <2>1 DEF Share, Top
<1> HIDE DEF x
<1>17. /\ fd[r][1] = "read" /\ fd[r][3] = n
       /\ fd[w][1] = "write" /\ fd[w][3] = n
  BY <1>12 DEF ReadEnd, WriteEnd
<1>18. QED
  BY <1>2, <1>10, <1>11, <1>12, <1>13, <1>14, <1>15, <1>16, <1>17

\* What a process past its pipe has: the two ends of it.
LEMMA PipeFacts ==
  ASSUME IInv, CleanInv, Clean, NEW p \in DOMAIN procs, procs[p].state = "shell",
         Top(p).at \in {"fork_left", "left", "fork_right", "right"}
  PROVE  LET r == Top(p).fd[1]
             w == Top(p).fd[2]
             n == Top(p).node
         IN
         /\ node[n].type = "pipe"
         /\ r \in Numbers /\ w \in Numbers /\ r > 2 /\ w > 2 /\ r # w
         /\ Table(p)[r][1] = "read" /\ Table(p)[r][3] = n
         /\ Table(p)[w][1] = "write" /\ Table(p)[w][3] = n
<1>1. Arranged(procs[p]) /\ Busy(procs[p]) /\ Top(p) \in Frame
  BY BusyFacts DEF CleanInv, Busy, Top
<1>2. node[Top(p).node].type = "pipe" /\ Top(p).fd \in Numbers \X Numbers
  BY <1>1 DEF Frame
<1>3. QED  BY <1>1, <1>2 DEF Arranged, Top, Table

\* A process that goes on after a fork is arranged as before.
LEMMA GotoArranged ==
  ASSUME IInv, CleanInv, Clean, NEW p \in DOMAIN procs, procs[p].state = "shell",
         Top(p).at \in {"fork_left", "fork_right"},
         NEW at \in {"left", "fork_right", "right", "close"},
         NEW z, z = [procs[p] EXCEPT !.stack = Goto(p, at)]
  PROVE  /\ Arranged(z) /\ z.state = "shell"
         /\ Last(z.stack).node = Top(p).node /\ Last(z.stack).at = at
<1>1. /\ procs[p] \in Process /\ Top(p) \in Frame
      /\ Top(p).node \in Below[root]
      /\ procs[p].runs = 0
      /\ \A d \in {0, 1, 2} : Table(p)[d] # Closed
      /\ \A d \in {0, 1} : Leads(Table(p)[d], Top(p).node, d)
      /\ \A i \in 1 .. Len(procs[p].stack) - 1 : procs[p].stack[i].at = "close"
  BY BusyFacts, PipeFacts
<1>2. ProcInv
  BY DEF IInv
<1>3. /\ Last(Goto(p, at)) = [Top(p) EXCEPT !.at = at]
      /\ Len(Goto(p, at)) = Len(procs[p].stack)
      /\ \A i \in 1 .. Len(procs[p].stack) - 1 :
           Goto(p, at)[i] = procs[p].stack[i]
  <2>1. /\ Top(p).at # "start"
        /\ at \in {"start", "fork_left", "left", "fork_right", "right",
                   "close", "wait", "wait_again"}
    OBVIOUS
  <2>2. Last(Goto(p, at)) = [Top(p) EXCEPT !.at = at]
    BY <1>2, <2>1, GotoType
  <2>3. /\ Len(Goto(p, at)) = Len(procs[p].stack)
        /\ \A i \in 1 .. Len(procs[p].stack) - 1 :
             Goto(p, at)[i] = procs[p].stack[i]
    BY <1>2, <2>1, GotoItems
  <2>4. QED  BY <2>2, <2>3
<1>4. /\ Last(Goto(p, at)).at = at /\ Last(Goto(p, at)).fd = Top(p).fd
      /\ Last(Goto(p, at)).node = Top(p).node
  BY <1>1, <1>3 DEF Frame
<1>5. /\ z.state = "shell" /\ z.stack = Goto(p, at) /\ z.fd = Table(p)
      /\ z.runs = 0
  BY <1>1 DEF Process, Table
<1>6. \A i \in 1 .. Len(z.stack) - 1 : z.stack[i].at = "close"
  BY <1>1, <1>3, <1>5
<1>7. Arranged(z)
  BY <1>1, <1>4, <1>5, <1>6, PipeFacts DEF Arranged
<1>8. QED  BY <1>4, <1>5, <1>7

\* The child of a fork has one side of the pipe to run, the parent the other,
\* or nothing.
LEMMA CleanForks ==
  ASSUME IInv, CleanInv, NEW p \in DOMAIN procs, ForkLeft(p) \/ ForkRight(p)
  PROVE  CleanInv'
<1>1. PICK child \in {"left", "right"}, parent \in {"fork_right", "close"} :
        /\ Fork(p, child, parent)
        /\ procs[p].state = "shell"
        /\ \/ /\ Top(p).at = "fork_left"
              /\ parent = "fork_right" /\ child = "left"
           \/ /\ Top(p).at = "fork_right"
              /\ parent = "close" /\ child = "right"
  BY DEF ForkLeft, ForkRight, At
<1> DEFINE q == Append(p, Cardinality(Children(p)) + 1)
           x == [procs[p] EXCEPT !.stack = Goto(p, parent)]
           y == [procs[p] EXCEPT !.stack = Goto(p, child)]
           n == Top(p).node
<1>2. q \notin DOMAIN procs
  BY Fresh DEF IInv
<1>3. /\ DOMAIN procs' = DOMAIN procs \cup {q} /\ root' = root
      /\ procs'[q] = y /\ procs'[p] = x
      /\ \A r \in DOMAIN procs \ {p} : procs'[r] = procs[r]
  <2> HIDE DEF q, x, y
  <2>1. /\ procs' = [z \in DOMAIN procs \cup {q} |->
                       CASE z = q -> y [] z = p -> x [] OTHER -> procs[z]]
        /\ root' = root
    BY <1>1 DEF Fork, q, x, y
  <2>2. QED  BY <2>1, <1>2
<1> HIDE DEF q
<1>4. ASSUME Clean
      PROVE  /\ Arranged(x) /\ Arranged(y)
             /\ Share(x) \cap Share(y) = {}
             /\ Share(x) \subseteq Share(procs[p])
             /\ Share(y) \subseteq Share(procs[p])
             /\ \A m \in Share(procs[p]) :
                  node[m].type = "exec" => m \in Share(x) \/ m \in Share(y)
  <2>1. /\ Arranged(x) /\ x.state = "shell"
        /\ Last(x.stack).node = n /\ Last(x.stack).at = parent
    BY <1>1, <1>4, GotoArranged
  <2>2. /\ Arranged(y) /\ y.state = "shell"
        /\ Last(y.stack).node = n /\ Last(y.stack).at = child
    BY <1>1, <1>4, GotoArranged
  <2>3. node[n].type = "pipe" /\ n \in Nodes
    BY <1>1, <1>4, PipeFacts, BusyFacts
  <2>4. /\ Below[n] = {n} \cup Below[node[n].sub[1]] \cup Below[node[n].sub[2]]
        /\ Below[node[n].sub[1]] \cap Below[node[n].sub[2]] = {}
    BY <2>3, AroundPipe
  <2> HIDE DEF x, y
  <2>5. CASE Top(p).at = "fork_left"
    <3>1. /\ Share(procs[p]) = Below[n] /\ Share(x) = Below[node[n].sub[2]]
          /\ Share(y) = Below[node[n].sub[1]]
      BY <1>1, <2>1, <2>2, <2>5 DEF Share, Top
    <3>2. QED  BY <2>1, <2>2, <2>3, <2>4, <3>1
  <2>6. CASE Top(p).at = "fork_right"
    <3>1. /\ Share(procs[p]) = Below[node[n].sub[2]] /\ Share(x) = {}
          /\ Share(y) = Below[node[n].sub[2]]
      BY <1>1, <2>1, <2>2, <2>6 DEF Share, Top
    <3>2. QED  BY <2>1, <2>2, <3>1
  <2>7. QED  BY <1>1, <2>5, <2>6
<1> HIDE DEF x, y
<1>5. QED  BY <1>2, <1>3, <1>4, CleanForked

\* The left side writes to the pipe.
LEMMA CleanLeft ==
  ASSUME IInv, CleanInv, NEW p \in DOMAIN procs, Left(p)
  PROVE  CleanInv'
<1> DEFINE c == Top(p).node
           k == node[c].sub[1]
           r == Top(p).fd[1]
           w == Top(p).fd[2]
           t == Table(p)
           out == IF w = 1 THEN t ELSE Shut(Dup2(t, w, 1), w)
           fd == Shut(out, r)
           stack == Enter(p, k, "fork_right")
           x == [procs[p] EXCEPT !.stack = stack, !.fd = fd]
<1>1. /\ procs[p].state = "shell" /\ Top(p).at = "left" /\ Become(p, stack, fd)
  BY DEF Left, At, Node
<1> SUFFICES ASSUME Clean
             PROVE  /\ Last(stack).node \in Below[root]
                    /\ \A d \in {0, 1, 2} : fd[d] # Closed
                    /\ \A d \in {0, 1} : Leads(fd[d], Last(stack).node, d)
                    /\ Last(stack).at = "start"
                    /\ node[Last(stack).node].type # "pipe"
                    /\ Share(x) = Share(procs[p])
  <2> HIDE DEF stack, fd
  <2>1. QED  BY <1>1, CleanBecome
<1>2. /\ root \in Nodes /\ procs[p] \in Process /\ t \in [Numbers -> Things]
      /\ c \in Below[root] /\ c \in Nodes
      /\ \A d \in {0, 1, 2} : t[d] # Closed
      /\ \A d \in {0, 1} : Leads(t[d], c, d)
  BY <1>1, BusyFacts
<1>3. /\ node[c].type = "pipe" /\ r \in Numbers /\ w \in Numbers
      /\ r > 2 /\ w > 2 /\ r # w
      /\ t[w][1] = "write" /\ t[w][3] = c
  BY <1>1, PipeFacts
<1>4. /\ 1 \in DOMAIN node[c].sub /\ Around(c, k, 1) /\ ~Around(c, k, 0)
  BY <1>2, <1>3, AroundPipe
<1>5. k \in Nodes /\ k \in Below[root] /\ node[k].type # "pipe"
  <2>1. k \in Nodes
    BY <1>2, <1>3, SubNodes
  <2>2. k \in Below[root]
    BY <1>2, <1>4, <2>1, BelowHas
  <2>3. node[k].type # "pipe"
    BY <1>2, <1>3, <2>1, ShellAssumption DEF Simple
  <2>4. QED  BY <2>1, <2>2, <2>3
<1>6. Last(stack) = Call(k)
  BY <1>1, <1>5, EnterType DEF IInv
<1>7. Last(stack).node = k /\ Last(stack).at = "start"
  BY <1>6 DEF Call
<1>8. {0, 1, 2} \subseteq Numbers /\ Numbers \subseteq Nat
  BY ShellAssumption DEF Numbers
<1>9. t[w] # Closed
  BY <1>3 DEF Closed
<1>10. fd[0] = t[0] /\ fd[1] = t[w] /\ fd[2] = t[2]
  <2>1. out = Shut([t EXCEPT ![1] = t[w]], w)
    BY <1>3, <1>9 DEF Dup2
  <2> HIDE DEF out
  <2>2. out = [[t EXCEPT ![1] = t[w]] EXCEPT ![w] = Closed]
    BY <2>1 DEF Shut
  <2>3. out[0] = t[0] /\ out[1] = t[w] /\ out[2] = t[2] /\ DOMAIN out = Numbers
    BY <1>2, <1>3, <1>8, <2>2
  <2>4. QED  BY <1>3, <1>8, <2>3 DEF Shut
<1> HIDE DEF fd, stack
<1>11. Leads(fd[0], k, 0)
  BY <1>2, <1>4, <1>10, LeadsKept
<1>12. Leads(fd[1], k, 1)
  <2>1. fd[1][1] = End(c, 1) /\ fd[1][3] = c
    BY <1>3, <1>10 DEF End
  <2>2. QED  BY <1>2, <1>4, <2>1, LeadsSet
<1>13. Share(x) = Share(procs[p])
  <2>1. x.state = "shell" /\ x.stack = stack
    BY <1>1, <1>2 DEF Process
  <2>2. QED  BY <1>1, <1>7, <2>1 DEF Share, Top
<1> HIDE DEF x
<1>14. QED  BY <1>2, <1>5, <1>7, <1>9, <1>10, <1>11, <1>12, <1>13

\* The right side reads from it.
LEMMA CleanRight ==
  ASSUME IInv, CleanInv, NEW p \in DOMAIN procs, Right(p)
  PROVE  CleanInv'
<1> DEFINE c == Top(p).node
           k == node[c].sub[2]
           r == Top(p).fd[1]
           w == Top(p).fd[2]
           t == Table(p)
           in == IF r = 0 THEN t ELSE Shut(Dup2(t, r, 0), r)
           fd == Shut(in, w)
           stack == Enter(p, k, "close")
           x == [procs[p] EXCEPT !.stack = stack, !.fd = fd]
<1>1. /\ procs[p].state = "shell" /\ Top(p).at = "right" /\ Become(p, stack, fd)
  BY DEF Right, At, Node
<1> SUFFICES ASSUME Clean
             PROVE  /\ Last(stack).node \in Below[root]
                    /\ \A d \in {0, 1, 2} : fd[d] # Closed
                    /\ \A d \in {0, 1} : Leads(fd[d], Last(stack).node, d)
                    /\ Last(stack).at = "start"
                    /\ \A i \in 1 .. Len(stack) - 1 : stack[i].at = "close"
                    /\ Share(x) = Share(procs[p])
  <2> HIDE DEF stack, fd
  <2>1. QED  BY <1>1, CleanBecome
<1>2. /\ root \in Nodes /\ procs[p] \in Process /\ t \in [Numbers -> Things]
      /\ c \in Below[root] /\ c \in Nodes
      /\ \A d \in {0, 1, 2} : t[d] # Closed
      /\ \A d \in {0, 1} : Leads(t[d], c, d)
  BY <1>1, BusyFacts
<1>3. /\ node[c].type = "pipe" /\ r \in Numbers /\ w \in Numbers
      /\ r > 2 /\ w > 2 /\ r # w
      /\ t[r][1] = "read" /\ t[r][3] = c
  BY <1>1, PipeFacts
<1>4. /\ 2 \in DOMAIN node[c].sub /\ Around(c, k, 0) /\ ~Around(c, k, 1)
  BY <1>2, <1>3, AroundPipe
<1>5. k \in Nodes /\ k \in Below[root]
  BY <1>2, <1>3, <1>4, SubNodes, BelowHas
<1>6. Last(stack) = Call(k)
  BY <1>1, <1>5, EnterType DEF IInv
<1>7. Last(stack).node = k /\ Last(stack).at = "start"
  BY <1>6 DEF Call
<1>8. {0, 1, 2} \subseteq Numbers /\ Numbers \subseteq Nat
  BY ShellAssumption DEF Numbers
<1>9. t[r] # Closed
  BY <1>3 DEF Closed
<1>10. fd[0] = t[r] /\ fd[1] = t[1] /\ fd[2] = t[2]
  <2>1. in = Shut([t EXCEPT ![0] = t[r]], r)
    BY <1>3, <1>9 DEF Dup2
  <2> HIDE DEF in
  <2>2. in = [[t EXCEPT ![0] = t[r]] EXCEPT ![r] = Closed]
    BY <2>1 DEF Shut
  <2>3. in[0] = t[r] /\ in[1] = t[1] /\ in[2] = t[2] /\ DOMAIN in = Numbers
    BY <1>2, <1>3, <1>8, <2>2
  <2>4. QED  BY <1>3, <1>8, <2>3 DEF Shut
<1>11. \A i \in 1 .. Len(stack) - 1 : stack[i].at = "close"
  <2>1. \A i \in 1 .. Len(procs[p].stack) - 1 : procs[p].stack[i].at = "close"
    BY <1>1, <1>3, BusyFacts
  <2>2. QED  BY <1>1, <1>5, <2>1, EnterItems DEF IInv
<1> HIDE DEF fd, stack
<1>12. Leads(fd[1], k, 1)
  BY <1>2, <1>4, <1>10, LeadsKept
<1>13. Leads(fd[0], k, 0)
  <2>1. fd[0][1] = End(c, 0) /\ fd[0][3] = c
    BY <1>3, <1>10 DEF End
  <2>2. QED  BY <1>2, <1>4, <2>1, LeadsSet
<1>14. Share(x) = Share(procs[p])
  <2>1. x.state = "shell" /\ x.stack = stack
    BY <1>1, <1>2 DEF Process
  <2>2. QED  BY <1>1, <1>7, <2>1 DEF Share, Top
<1> HIDE DEF x
<1>15. QED  BY <1>2, <1>5, <1>7, <1>9, <1>10, <1>11, <1>12, <1>13, <1>14

\* A process that is done with its pipe: the calls below are done with theirs.
LEMMA DoneFacts ==
  ASSUME IInv, CleanInv, Clean, NEW p \in DOMAIN procs, procs[p].state = "shell",
         Top(p).at \in {"close", "wait", "wait_again"}
  PROVE  /\ procs[p] \in Process /\ Top(p) \in Frame /\ ProcInv
         /\ procs[p].runs = 0 /\ Share(procs[p]) = {}
         /\ node[Top(p).node].type = "pipe"
         /\ \A i \in 1 .. Len(procs[p].stack) - 1 : procs[p].stack[i].at = "close"
<1>1. ProcInv /\ Arranged(procs[p])
  BY DEF IInv, CleanInv
<1>2. procs[p] \in Process /\ Top(p) \in Frame
  BY <1>1, TopType DEF ProcInv
<1>3. node[Top(p).node].type = "pipe"
  BY <1>2 DEF Frame
<1>4. Share(procs[p]) = {}
  BY DEF Share, Top
<1>5. /\ procs[p].runs = 0
      /\ \A i \in 1 .. Len(procs[p].stack) - 1 : procs[p].stack[i].at = "close"
  BY <1>1, <1>3 DEF Arranged, Top
<1>6. QED  BY <1>1, <1>2, <1>3, <1>4, <1>5

\* A process that has forked both sides has nothing left to run.
LEMMA CleanClose ==
  ASSUME IInv, CleanInv, NEW p \in DOMAIN procs, CloseBoth(p)
  PROVE  CleanInv'
<1> DEFINE fd == Shut(Shut(Table(p), Top(p).fd[1]), Top(p).fd[2])
           stack == Goto(p, "wait")
           x == [procs[p] EXCEPT !.stack = stack, !.fd = fd]
<1>1. /\ procs[p].state = "shell" /\ Top(p).at = "close" /\ Become(p, stack, fd)
  BY DEF CloseBoth, At
<1> HIDE DEF fd
<1> SUFFICES ASSUME Clean
             PROVE  /\ ~Busy(x)
                    /\ \A i \in 1 .. Len(stack) - 1 : stack[i].at = "close"
                    /\ Share(x) = Share(procs[p])
  <2> HIDE DEF stack
  <2>1. QED  BY <1>1, CleanBecome
<1>2. /\ procs[p] \in Process /\ Top(p) \in Frame /\ ProcInv
      /\ Share(procs[p]) = {}
      /\ \A i \in 1 .. Len(procs[p].stack) - 1 : procs[p].stack[i].at = "close"
  BY <1>1, DoneFacts
<1>3. Last(stack) = [Top(p) EXCEPT !.at = "wait"]
  BY <1>1, <1>2, GotoType
<1>4. /\ Len(stack) = Len(procs[p].stack)
      /\ \A i \in 1 .. Len(procs[p].stack) - 1 : stack[i] = procs[p].stack[i]
  BY <1>1, <1>2, GotoItems
<1>5. Last(stack).at = "wait"
  BY <1>2, <1>3 DEF Frame
<1> HIDE DEF stack
<1>6. x.state = "shell" /\ x.stack = stack
  BY <1>1, <1>2 DEF Process
<1>7. ~Busy(x) /\ Share(x) = {}
  BY <1>5, <1>6 DEF Busy, Share
<1> HIDE DEF x
<1>8. QED  BY <1>2, <1>4, <1>7

\* A wait changes no share.
LEMMA CleanWaitOnce ==
  ASSUME IInv, CleanInv, root' = root, NEW p \in DOMAIN procs,
         procs[p].state = "shell",
         NEW x, WaitOnce(p, [procs EXCEPT ![p] = x]),
         Clean => Arranged(x) /\ Share(x) = Share(procs[p])
  PROVE  CleanInv'
<1> DEFINE then == [procs EXCEPT ![p] = x]
<1>1. \/ procs' = then
      \/ \E q \in DOMAIN procs : /\ procs[q].state = "zombie"
                                 /\ procs' = [then EXCEPT ![q].state = "reaped"]
  <2> HIDE DEF then
  <2>1. WaitOnce(p, then)
    BY DEF then
  <2>2. QED  BY <2>1 DEF WaitOnce, Children
<1>2. CASE procs' = then
  BY <1>2, CleanAlone
<1>3. ASSUME NEW q \in DOMAIN procs, procs[q].state = "zombie",
             procs' = [then EXCEPT ![q].state = "reaped"]
      PROVE  CleanInv'
  <2>1. q # p /\ DOMAIN procs' = DOMAIN procs
    BY <1>3
  <2>2. /\ procs'[p] = x /\ procs'[q] = [procs[q] EXCEPT !.state = "reaped"]
        /\ \A r \in DOMAIN procs : r # p /\ r # q => procs'[r] = procs[r]
    BY <1>3, <2>1
  <2>3. procs'[q].state = "reaped" /\ procs'[q].runs = procs[q].runs
    <3>1. procs[q] \in Process
      BY DEF IInv, ProcInv
    <3>2. QED  BY <2>2, <3>1 DEF Process
  <2>4. Arranged(procs'[q]) /\ Share(procs'[q]) = Share(procs[q])
    BY <1>3, <2>3 DEF Arranged, Busy, Share
  <2>5. ASSUME Clean, NEW r \in DOMAIN procs
        PROVE  Arranged(procs'[r]) /\ Share(procs'[r]) = Share(procs[r])
    <3>1. CASE r = p
      BY <2>2, <2>5, <3>1
    <3>2. CASE r = q
      BY <2>4, <3>2
    <3>3. CASE r # p /\ r # q
      BY <2>2, <2>5, <3>3 DEF CleanInv
    <3>4. QED  BY <3>1, <3>2, <3>3
  <2>6. QED  BY <2>1, <2>5, CleanKept
<1>4. QED  BY <1>1, <1>2, <1>3

\* The first wait.
LEMMA CleanWait ==
  ASSUME IInv, CleanInv, NEW p \in DOMAIN procs, Wait(p)
  PROVE  CleanInv'
<1> DEFINE stack == Goto(p, "wait_again")
           x == [procs[p] EXCEPT !.stack = stack]
<1>1. /\ procs[p].state = "shell" /\ Top(p).at = "wait" /\ root' = root
      /\ WaitOnce(p, [procs EXCEPT ![p] = x])
  BY DEF Wait, At
<1>2. ASSUME Clean
      PROVE  Arranged(x) /\ Share(x) = Share(procs[p])
  <2>1. /\ procs[p] \in Process /\ Top(p) \in Frame /\ ProcInv
        /\ procs[p].runs = 0 /\ Share(procs[p]) = {}
        /\ \A i \in 1 .. Len(procs[p].stack) - 1 : procs[p].stack[i].at = "close"
    BY <1>1, <1>2, DoneFacts
  <2>2. Last(stack) = [Top(p) EXCEPT !.at = "wait_again"]
    BY <1>1, <2>1, GotoType
  <2>3. /\ Len(stack) = Len(procs[p].stack)
        /\ \A i \in 1 .. Len(procs[p].stack) - 1 : stack[i] = procs[p].stack[i]
    BY <1>1, <2>1, GotoItems
  <2>4. Last(stack).at = "wait_again"
    BY <2>1, <2>2 DEF Frame
  <2> HIDE DEF stack
  <2>5. x.state = "shell" /\ x.stack = stack /\ x.runs = 0
    BY <1>1, <2>1 DEF Process
  <2>6. Arranged(x) /\ Share(x) = {}
    BY <2>1, <2>3, <2>4, <2>5 DEF Arranged, Busy, Share
  <2>7. QED  BY <2>1, <2>6
<1> HIDE DEF x
<1>3. QED  BY <1>1, <1>2, CleanWaitOnce

\* The second wait.
LEMMA CleanWaitAgain ==
  ASSUME IInv, CleanInv, NEW p \in DOMAIN procs, WaitAgain(p)
  PROVE  CleanInv'
<1> DEFINE s == procs[p].stack
           below == Front(s)
           x == [procs[p] EXCEPT !.stack = below,
                   !.state = IF below = <<>> THEN "returned" ELSE "shell"]
<1>1. /\ procs[p].state = "shell" /\ Top(p).at = "wait_again" /\ root' = root
      /\ WaitOnce(p, [procs EXCEPT ![p] = x])
  <2>1. Returned(p) = [procs EXCEPT ![p] = x]
    BY DEF Returned
  <2>2. QED  BY <2>1 DEF WaitAgain, At
<1>2. ASSUME Clean
      PROVE  Arranged(x) /\ Share(x) = Share(procs[p])
  <2>1. /\ procs[p] \in Process /\ ProcInv
        /\ procs[p].runs = 0 /\ Share(procs[p]) = {}
        /\ \A i \in 1 .. Len(s) - 1 : s[i].at = "close"
    BY <1>1, <1>2, DoneFacts
  <2>2. s \in Seq(Frame) /\ s # <<>> /\ below \in Seq(Frame)
    BY <1>1, <2>1, TopType
  <2>3. Len(below) = Len(s) - 1 /\ Len(s) \in Nat /\ Len(below) \in Nat
    BY <2>2, FrontLast, LenProperties
  <2>4. \A i \in 1 .. Len(s) - 1 : below[i] = s[i]
    BY <2>2, FrontItems
  <2>5. \A i \in 1 .. Len(below) : below[i].at = "close"
    BY <2>1, <2>3, <2>4
  <2> HIDE DEF below, s
  <2>6. /\ x.stack = below /\ x.runs = 0
        /\ x.state = IF below = <<>> THEN "returned" ELSE "shell"
    BY <2>1 DEF Process
  <2>7. CASE below = <<>>
    <3>1. x.state = "returned"
      BY <2>6, <2>7
    <3>2. Arranged(x) /\ Share(x) = {}
      BY <2>6, <3>1 DEF Arranged, Busy, Share
    <3>3. QED  BY <2>1, <3>2
  <2>8. CASE below # <<>>
    <3>1. Len(below) # 0
      BY <2>2, <2>8, EmptySeq
    <3>2. Last(below).at = "close"
      BY <2>3, <2>5, <3>1 DEF Last
    <3>3. \A i \in 1 .. Len(below) - 1 : below[i].at = "close"
      BY <2>3, <2>5
    <3>4. x.state = "shell"
      BY <2>6, <2>8
    <3>5. Arranged(x) /\ Share(x) = {}
      BY <2>6, <3>2, <3>3, <3>4 DEF Arranged, Busy, Share
    <3>6. QED  BY <2>1, <3>5
  <2>9. QED  BY <2>7, <2>8
<1> HIDE DEF x
<1>3. QED  BY <1>1, <1>2, CleanWaitOnce

\* The first process has the whole line to run.
LEMMA CleanInit == Init => CleanInv
<1> SUFFICES ASSUME Init PROVE CleanInv
  OBVIOUS
<1> DEFINE x == procs[<<>>]
<1>1. root \in Nodes /\ DOMAIN procs = {<<>>}
  BY ShellAssumption DEF Init
<1>2. /\ x.state = "shell" /\ x.stack = <<Call(root)>> /\ x.runs = 0
      /\ x.fd = [d \in Numbers |-> IF d <= 2 THEN Terminal ELSE Closed]
  BY DEF Init
<1> HIDE DEF x
<1>3. /\ Len(x.stack) = 1 /\ Last(x.stack) = Call(root)
      /\ Last(x.stack).node = root /\ Last(x.stack).at = "start"
  BY <1>2 DEF Last, Call
<1>4. \A d \in {0, 1, 2} : x.fd[d] = Terminal /\ x.fd[d] # Closed
  BY <1>2, ShellAssumption DEF Numbers, Terminal, Closed
<1>5. root \in Below[root] /\ \A d \in {0, 1} : Leads(Terminal, root, d)
  BY <1>1, BelowHas, LeadsAtRoot
<1>6. Arranged(x)
  BY <1>2, <1>3, <1>4, <1>5 DEF Arranged
<1>7. Share(x) = Below[root]
  BY <1>2, <1>3 DEF Share
<1>8. QED  BY <1>1, <1>6, <1>7 DEF CleanInv, x

\* Every step keeps the invariant.
LEMMA CleanNext == IInv /\ CleanInv /\ [Next]_vars => CleanInv'
<1> SUFFICES ASSUME IInv, CleanInv, [Next]_vars PROVE CleanInv'
  OBVIOUS
<1>1. CASE UNCHANGED vars
  BY <1>1, CleanKept DEF vars, CleanInv
<1>2. ASSUME NEW p \in DOMAIN procs, RunCmd(p) PROVE CleanInv'
  <2>1. CASE Exec(p)
    BY <2>1, CleanExec
  <2>2. CASE ExecEmpty(p)
    BY <2>2, CleanExit DEF ExecEmpty, At
  <2>3. CASE Redirect(p)
    BY <2>3, CleanRedirect
  <2>4. CASE Pipe(p)
    BY <2>4, CleanPipe
  <2>5. CASE ForkLeft(p) \/ ForkRight(p)
    BY <2>5, CleanForks
  <2>6. CASE Left(p)
    BY <2>6, CleanLeft
  <2>7. CASE Right(p)
    BY <2>7, CleanRight
  <2>8. CASE CloseBoth(p)
    BY <2>8, CleanClose
  <2>9. CASE Wait(p)
    BY <2>9, CleanWait
  <2>10. CASE WaitAgain(p)
    BY <2>10, CleanWaitAgain
  <2>11. CASE ExecFails(p) \/ PipeFails(p) \/ ForkLeftFails(p) \/ ForkRightFails(p)
    <3>1. root' = root
      BY <2>11 DEF ExecFails, PipeFails, ForkLeftFails, ForkRightFails, Return,
                   Exit, Become
    <3>2. ~Clean
      BY <2>11, CleanNoFailure
    <3>3. QED  BY <3>1, <3>2, CleanSame DEF CleanInv
  <2>12. QED
    BY <1>2, <2>1, <2>2, <2>3, <2>4, <2>5, <2>6, <2>7, <2>8, <2>9, <2>10, <2>11
       DEF RunCmd
<1>3. ASSUME NEW p \in DOMAIN procs, ProgramEnds(p) \/ MainEnds(p) \/ TerminalEnds(p)
      PROVE  CleanInv'
  BY <1>3, CleanExit DEF ProgramEnds, MainEnds, TerminalEnds, Prompts
<1>4. QED  BY <1>1, <1>2, <1>3 DEF Next

\* In a line in which nothing fails, every process has its input and output
\* arranged as the tree says of what it has yet to run, and each part of the tree
\* is one process's to run, until it has run.
THEOREM CleanInductive == Spec => [](IInv /\ CleanInv)
<1>1. Init => IInv /\ CleanInv
  BY InitInv, CleanInit
<1>2. IInv /\ CleanInv /\ [Next]_vars => (IInv /\ CleanInv)'
  BY NextInv, CleanNext
<1>3. QED  BY <1>1, <1>2, PTL DEF Spec

\* If nothing fails, each command of the line is run by one process.
THEOREM EachRunsOnce == Spec => []EachOnce
<1>1. IInv /\ CleanInv => EachOnce
  <2> SUFFICES ASSUME IInv, CleanInv, Clean
               PROVE  /\ \A p, q \in DOMAIN procs :
                           procs[p].runs = procs[q].runs /\ procs[p].runs # 0
                             => p = q
                      /\ Over => \A n \in Below[root] : node[n].type = "exec" =>
                                   \E p \in DOMAIN procs : procs[p].runs = n
    BY DEF EachOnce
  <2>1. ASSUME NEW p \in DOMAIN procs, procs[p].runs # 0
        PROVE  procs[p].runs \in Share(procs[p])
    <3>1. Arranged(procs[p])
      BY DEF CleanInv
    <3>2. procs[p].state # "shell"
      BY <2>1, <3>1 DEF Arranged
    <3>3. QED  BY <2>1, <3>2 DEF Share
  <2>2. ASSUME NEW p \in DOMAIN procs, NEW q \in DOMAIN procs,
               procs[p].runs = procs[q].runs, procs[p].runs # 0
        PROVE  p = q
    BY <2>1, <2>2 DEF CleanInv
  <2>3. ASSUME Over, NEW n \in Below[root], node[n].type = "exec"
        PROVE  \E p \in DOMAIN procs : procs[p].runs = n
    <3>1. PICK p \in DOMAIN procs : n \in Share(procs[p])
      BY <2>3 DEF CleanInv
    <3>2. procs[p].state # "shell"
      BY <2>3 DEF Over, Ended
    <3>3. QED  BY <3>1, <3>2 DEF Share
  <2>4. QED  BY <2>2, <2>3
<1>2. QED  BY <1>1, CleanInductive, PTL

\* If nothing fails, a command has as input and output what the innermost
\* redirect or pipe around it says.
THEOREM WiredAsMeant == Spec => []Wired
<1>1. IInv /\ CleanInv => Wired
  <2> SUFFICES ASSUME IInv, CleanInv, Clean,
                      NEW p \in DOMAIN procs, procs[p].state = "program",
                      NEW d \in {0, 1}
               PROVE  LET setters == {m \in Below[root] : Sets(m, procs[p].runs, d)}
                          innermost ==
                            CHOOSE m \in setters : \A k \in setters : m \in Below[k]
                          x == Table(p)[d]
                      IN IF setters = {} THEN x = Terminal
                         ELSE /\ x[3] = innermost
                              /\ x[1] = IF node[innermost].type = "redirect"
                                        THEN "file"
                                        ELSE IF d = 0 THEN "read" ELSE "write"
    BY DEF Wired
  <2>1. /\ procs[p].runs \in Below[root] /\ node[procs[p].runs].type = "exec"
        /\ Leads(Table(p)[d], procs[p].runs, d)
    BY DEF CleanInv, Arranged, Table
  <2>2. root \in Nodes
    BY ShellAssumption DEF IInv, ProcInv
  <2>3. QED  BY <2>1, <2>2, LeadsWired
<1>2. QED  BY <1>1, CleanInductive, PTL
=============================================================================
