---------------------------- MODULE UserFsProofs ----------------------------
(***************************************************************************)
(* Proofs about the file system and its clients, for any names, files,     *)
(* descriptors and sizes, blocks of any length and tables of any capacity. *)
(***************************************************************************)
EXTENDS UserFsClient, FiniteSetTheorems, SequenceTheorems, WellFoundedInduction,
        TLAPS

-----------------------------------------------------------------------------
(* Natural numbers, and sums over finite sets.                             *)

\* Every nonempty set of natural numbers has a least element.
LEMMA NatMin ==
  ASSUME NEW T, T \subseteq Nat, T # {}
  PROVE  \E x \in T : \A y \in T : x <= y
<1> DEFINE R == {ss \in Nat \X Nat : ss[1] < ss[2]}
<1>1. IsWellFoundedOn(R, Nat)
  BY NatLessThanWellFounded DEF OpToRel
<1> HIDE DEF R
<1>2. PICK x \in T : \A y \in T : <<y, x>> \notin R
  BY <1>1, WFMin
<1>3. \A y \in Nat : y < x => <<y, x>> \in R
  BY DEF R
<1>4. ASSUME NEW y \in T PROVE x <= y
  <2>1. x \in Nat /\ y \in Nat /\ ~(y < x)
    BY <1>2, <1>3
  <2>2. QED  BY <2>1
<1>5. QED  BY <1>4

\* Induction over the natural numbers, for a set.
LEMMA NatInd ==
  ASSUME NEW S, 0 \in S, \A n \in Nat : n \in S => n + 1 \in S
  PROVE  Nat \subseteq S
<1>1. SUFFICES ASSUME Nat \ S # {} PROVE FALSE
  OBVIOUS
<1>2. PICK x \in Nat \ S : \A y \in Nat \ S : x <= y
  BY <1>1, NatMin
<1>3. x # 0 /\ x - 1 \in Nat /\ x - 1 \in S
  BY <1>2
<1>4. QED  BY <1>2, <1>3

\* Quotient and remainder.
LEMMA DivMod ==
  ASSUME NEW a \in Nat, NEW b \in Nat \ {0}
  PROVE  /\ a \div b \in Nat /\ a % b \in 0 .. b - 1
         /\ a = b * (a \div b) + (a % b)
OBVIOUS

\* The sum over a finite set is what its recursive definition says.
Pick1(s) == CHOOSE x \in s : TRUE
IsSum(g, f, D) ==
  g = [s \in D |-> IF s = {} THEN 0 ELSE f[Pick1(s)] + g[s \ {Pick1(s)}]]

\* Subsets of a finite set are finite; without the element picked they are
\* smaller by one.
LEMMA PickSmaller ==
  ASSUME NEW S, IsFiniteSet(S), NEW s \in SUBSET S
  PROVE  /\ IsFiniteSet(s) /\ Cardinality(s) \in Nat
         /\ Cardinality(s) = 0 <=> s = {}
         /\ s # {} => /\ Pick1(s) \in s /\ s \ {Pick1(s)} \in SUBSET S
                     /\ Cardinality(s \ {Pick1(s)}) = Cardinality(s) - 1
<1>1. IsFiniteSet(s) /\ Cardinality(s) \in Nat /\ (Cardinality(s) = 0 <=> s = {})
  BY FS_Subset, FS_CardinalityType, FS_EmptySet
<1>2. s # {} => Pick1(s) \in s
  BY DEF Pick1
<1>3. s # {} => Cardinality(s \ {Pick1(s)}) = Cardinality(s) - 1
  BY <1>1, <1>2, FS_RemoveElement
<1>4. QED  BY <1>1, <1>2, <1>3

\* There is such a sum for every finite set.
LEMMA SumDef ==
  ASSUME NEW S, IsFiniteSet(S), NEW f
  PROVE  \E g : IsSum(g, f, SUBSET S)
<1> DEFINE Upto(n) == {s \in SUBSET S : Cardinality(s) <= n}
           Good == {n \in Nat : \E g : IsSum(g, f, Upto(n))}
<1>1. \A s \in SUBSET S : IsFiniteSet(s) /\ Cardinality(s) \in Nat
                          /\ (Cardinality(s) = 0 <=> s = {})
  BY PickSmaller
<1>2. \A s \in SUBSET S : s # {} => /\ s \ {Pick1(s)} \in SUBSET S
                                   /\ Cardinality(s \ {Pick1(s)}) = Cardinality(s) - 1
  BY PickSmaller
<1>3. 0 \in Good
  <2>1. Upto(0) = {{}}
    BY <1>1, FS_EmptySet
  <2>2. IsSum([s \in Upto(0) |-> 0], f, Upto(0))
    BY <2>1 DEF IsSum
  <2>3. QED  BY <2>2
<1>4. ASSUME NEW n \in Nat, n \in Good PROVE n + 1 \in Good
  <2>1. PICK g : IsSum(g, f, Upto(n))
    BY <1>4
  <2> DEFINE h == [s \in Upto(n + 1) |->
                     IF s = {} THEN 0 ELSE f[Pick1(s)] + g[s \ {Pick1(s)}]]
  <2>2. \A s \in Upto(n) : h[s] = g[s]
    <3>1. \A s \in Upto(n) : s \in Upto(n + 1)
      BY <1>1
    <3>2. QED  BY <2>1, <3>1 DEF IsSum
  <2>3. \A s \in Upto(n + 1) : s # {} => s \ {Pick1(s)} \in Upto(n)
    BY <1>1, <1>2
  <2>4. IsSum(h, f, Upto(n + 1))
    <3> HIDE DEF Upto
    <3>1. \A s \in Upto(n + 1) : s # {} =>
             h[s \ {Pick1(s)}] = g[s \ {Pick1(s)}]
      BY <2>2, <2>3
    <3>2. h = [s \in Upto(n + 1) |->
                 IF s = {} THEN 0 ELSE f[Pick1(s)] + h[s \ {Pick1(s)}]]
      BY <3>1
    <3>3. QED  BY <3>2 DEF IsSum
  <2>5. QED  BY <2>4
<1>5. Nat \subseteq Good
  <2> HIDE DEF Good
  <2>1. QED  BY <1>3, <1>4, NatInd
<1>6. Cardinality(S) \in Good
  BY <1>1, <1>5
<1>7. SUBSET S = Upto(Cardinality(S))
  BY FS_Subset
<1>8. QED  BY <1>6, <1>7

\* Occupied is such a sum.
LEMMA OccupiedDef ==
  ASSUME NEW blocks, NEW i \in Int, NEW j \in Int
  PROVE  \E g : IsSum(g, blocks, SUBSET (i .. j)) /\ Occupied(blocks, i, j) = g[i .. j]
<1> DEFINE it == CHOOSE g : IsSum(g, blocks, SUBSET (i .. j))
<1>1. IsSum(it, blocks, SUBSET (i .. j))
  BY FS_Interval, SumDef
<1>2. Occupied(blocks, i, j) = it[i .. j]
  BY DEF Occupied, MapThenSumSet, MapThenFoldSet, IsSum, Pick1
<1>3. QED  BY <1>1, <1>2

\* All terms c, but for the one at n, which is r.
LEMMA SumNearlyConstant ==
  ASSUME NEW S, IsFiniteSet(S), NEW f, NEW c \in Nat, NEW r \in Nat, NEW n,
         \A b \in S : f[b] = IF b = n THEN r ELSE c,
         NEW g, IsSum(g, f, SUBSET S)
  PROVE  g[S] = c * Cardinality(S \ {n}) + (IF n \in S THEN r ELSE 0)
<1> DEFINE Value(s) == c * Cardinality(s \ {n}) + (IF n \in s THEN r ELSE 0)
           Good == {k \in Nat : \A s \in SUBSET S :
                                  Cardinality(s) = k => g[s] = Value(s)}
<1>1. \A s \in SUBSET S : /\ IsFiniteSet(s) /\ Cardinality(s) \in Nat
                          /\ Cardinality(s) = 0 <=> s = {}
  BY PickSmaller
<1>2. 0 \in Good
  <2>1. g[{}] = 0
    BY DEF IsSum
  <2>2. Value({}) = 0
    <3>1. {} \ {n} = {} /\ Cardinality({}) = 0
      BY FS_EmptySet
    <3>2. QED  BY <3>1
  <2>3. QED  BY <1>1, <2>1, <2>2
<1>3. ASSUME NEW k \in Nat, k \in Good PROVE k + 1 \in Good
  <2> SUFFICES ASSUME NEW s \in SUBSET S, Cardinality(s) = k + 1
               PROVE  g[s] = Value(s)
    OBVIOUS
  <2> DEFINE x == Pick1(s)
             t == s \ {x}
  <2>1. s # {} /\ x \in s
    BY PickSmaller
  <2>2. t \in SUBSET S /\ Cardinality(t) = k
    BY <2>1, PickSmaller
  <2>3. g[s] = f[x] + g[t]
    BY <2>1 DEF IsSum
  <2>4. g[t] = Value(t)
    BY <1>3, <2>2
  <2>5. CASE x = n
    <3>1. s \ {n} = t /\ t \ {n} = t /\ n \notin t /\ n \in s /\ f[x] = r
      BY <2>1, <2>5
    <3>2. g[s] = r + (c * k + 0) /\ Value(s) = c * k + r
      BY <2>2, <2>3, <2>4, <3>1
    <3>3. c * k \in Int
      OBVIOUS
    <3>4. QED  BY <3>2, <3>3
  <2>6. CASE x # n
    <3>1. /\ t \ {n} = (s \ {n}) \ {x} /\ x \in s \ {n} /\ f[x] = c
          /\ n \in t <=> n \in s
      BY <2>1, <2>6
    <3>2. /\ IsFiniteSet(s \ {n}) /\ Cardinality(s \ {n}) \in Nat
          /\ Cardinality(t \ {n}) = Cardinality(s \ {n}) - 1
      <4>1. IsFiniteSet(s \ {n}) /\ Cardinality(s \ {n}) \in Nat
        BY <1>1, FS_RemoveElement, FS_CardinalityType
      <4>2. Cardinality((s \ {n}) \ {x}) = Cardinality(s \ {n}) - 1
        BY <3>1, <4>1, FS_RemoveElement
      <4>3. QED  BY <3>1, <4>1, <4>2
    <3> DEFINE m == Cardinality(s \ {n})
               q == IF n \in s THEN r ELSE 0
    <3>3. g[s] = c + (c * (m - 1) + q)
      BY <2>3, <2>4, <3>1, <3>2
    <3>4. \A i \in Nat, j \in Nat : c + (c * (i - 1) + j) = c * i + j
      OBVIOUS
    <3>5. q \in Nat /\ Value(s) = c * m + q
      OBVIOUS
    <3> HIDE DEF m, q, Value
    <3>6. m \in Nat
      BY <3>2 DEF m
    <3>7. QED  BY <3>3, <3>4, <3>5, <3>6
  <2>7. QED  BY <2>5, <2>6
<1>4. Nat \subseteq Good
  <2> HIDE DEF Good
  <2>1. QED  BY <1>2, <1>3, NatInd
<1>5. QED  BY <1>1, <1>4

\* Terms that are natural numbers have such a sum.
LEMMA SumNat ==
  ASSUME NEW S, IsFiniteSet(S), NEW f, \A b \in S : f[b] \in Nat,
         NEW g, IsSum(g, f, SUBSET S)
  PROVE  g[S] \in Nat
<1> DEFINE Good == {k \in Nat : \A s \in SUBSET S :
                                  Cardinality(s) = k => g[s] \in Nat}
<1>1. \A s \in SUBSET S : /\ IsFiniteSet(s) /\ Cardinality(s) \in Nat
                          /\ Cardinality(s) = 0 <=> s = {}
  BY PickSmaller
<1>2. 0 \in Good
  BY <1>1 DEF IsSum
<1>3. ASSUME NEW k \in Nat, k \in Good PROVE k + 1 \in Good
  <2> SUFFICES ASSUME NEW s \in SUBSET S, Cardinality(s) = k + 1
               PROVE  g[s] \in Nat
    OBVIOUS
  <2> DEFINE x == Pick1(s)
             t == s \ {x}
  <2>1. s # {} /\ x \in s
    BY PickSmaller
  <2>2. t \in SUBSET S /\ Cardinality(t) = k
    BY <2>1, PickSmaller
  <2>3. g[s] = f[x] + g[t]
    BY <2>1 DEF IsSum
  <2>4. f[x] \in Nat /\ g[t] \in Nat
    BY <1>3, <2>1, <2>2
  <2>5. QED  BY <2>3, <2>4
<1>4. Nat \subseteq Good
  <2> HIDE DEF Good
  <2>1. QED  BY <1>2, <1>3, NatInd
<1>5. QED  BY <1>1, <1>4

\* So is the sum of blocks that are natural numbers.
LEMMA OccupiedNat ==
  ASSUME NEW blocks, NEW i \in Int, NEW j \in Int,
         \A b \in i .. j : blocks[b] \in Nat
  PROVE  Occupied(blocks, i, j) \in Nat
<1>1. PICK g : IsSum(g, blocks, SUBSET (i .. j)) /\ Occupied(blocks, i, j) = g[i .. j]
  BY OccupiedDef
<1>2. IsFiniteSet(i .. j)
  BY FS_Interval
<1>3. g[i .. j] \in Nat
  BY <1>1, <1>2, SumNat
<1>4. QED  BY <1>1, <1>3

\* Nothing is occupied where there are no blocks, and full blocks add up.
LEMMA OccupiedFull ==
  ASSUME NEW blocks, NEW c \in Nat, NEW i \in Int, NEW j \in Int, i <= j + 1,
         \A b \in i .. j : blocks[b] = c
  PROVE  Occupied(blocks, i, j) = c * (j - i + 1)
<1>1. IsFiniteSet(i .. j) /\ Cardinality(i .. j) = j - i + 1
  BY FS_Interval
<1>2. i - 1 \notin i .. j /\ (i .. j) \ {i - 1} = i .. j
  OBVIOUS
<1>3. PICK g : IsSum(g, blocks, SUBSET (i .. j)) /\ Occupied(blocks, i, j) = g[i .. j]
  BY OccupiedDef
<1>4. \A b \in i .. j : blocks[b] = IF b = i - 1 THEN 0 ELSE c
  OBVIOUS
<1> DEFINE S == i .. j
           n == i - 1
<1>5. g[S] = c * Cardinality(S \ {n}) + (IF n \in S THEN 0 ELSE 0)
  <2>1. /\ IsFiniteSet(S) /\ IsSum(g, blocks, SUBSET S)
        /\ \A b \in S : blocks[b] = IF b = n THEN 0 ELSE c
    BY <1>1, <1>3, <1>4
  <2> HIDE DEF S, n
  <2>2. QED  BY <2>1, SumNearlyConstant
<1>6. g[i .. j] = c * (j - i + 1) + 0
  BY <1>1, <1>2, <1>5
<1>7. QED  BY <1>3, <1>6

\* Full blocks and a last one add up.
LEMMA OccupiedLast ==
  ASSUME NEW blocks, NEW c \in Nat, NEW i \in Int, NEW j \in Int, i <= j,
         \A b \in i .. j - 1 : blocks[b] = c, blocks[j] \in Nat
  PROVE  Occupied(blocks, i, j) = c * (j - i) + blocks[j]
<1> DEFINE S == i .. j
           r == blocks[j]
<1>1. IsFiniteSet(S) /\ S \ {j} = i .. j - 1 /\ Cardinality(i .. j - 1) = j - i
  <2> DEFINE m == j - 1
  <2>1. m \in Int /\ Cardinality(i .. m) = IF i > m THEN 0 ELSE m - i + 1
    BY FS_Interval
  <2>2. IsFiniteSet(S)
    BY FS_Interval
  <2>3. S \ {j} = i .. j - 1
    OBVIOUS
  <2>4. Cardinality(i .. m) = j - i
    BY <2>1
  <2>5. QED  BY <2>2, <2>3, <2>4
<1>2. PICK g : IsSum(g, blocks, SUBSET S) /\ Occupied(blocks, i, j) = g[S]
  BY OccupiedDef
<1>3. r \in Nat /\ j \in S /\ \A b \in S : blocks[b] = IF b = j THEN r ELSE c
  OBVIOUS
<1> HIDE DEF S, r
<1>4. g[S] = c * Cardinality(S \ {j}) + (IF j \in S THEN r ELSE 0)
  BY <1>1, <1>2, <1>3, SumNearlyConstant
<1>5. QED  BY <1>1, <1>2, <1>3, <1>4 DEF r

-----------------------------------------------------------------------------
(* Lookups and blocks.                                                     *)

\* Min of a nonempty set of natural numbers is its least element.
LEMMA MinNat ==
  ASSUME NEW S, S \subseteq Nat, S # {}
  PROVE  Min(S) \in S /\ \A y \in S : Min(S) <= y
BY NatMin DEF Min

\* What a write allocates: full blocks and one more, which is not.
LEMMA WrittenBlocks ==
  ASSUME NEW size \in Nat
  PROVE  /\ Written(size) \in Seq(Block) /\ Written(size) # <<>>
         /\ Len(Written(size)) \in Nat \ {0}
         /\ \A b \in 1 .. Len(Written(size)) - 1 : Written(size)[b] = BLOCK_SIZE
         /\ Written(size)[Len(Written(size))] \in 0 .. BLOCK_SIZE - 1
<1> DEFINE n == Min({size, MAX_FILE_SIZE})
<1>1. n \in Nat
  <2>1. {size, MAX_FILE_SIZE} \subseteq Nat
    BY UserFsAssumption
  <2>2. QED  BY <2>1, MinNat
<1> HIDE DEF n
<1> DEFINE total == IF n <= BLOCK_SIZE THEN 1
                    ELSE n \div BLOCK_SIZE + (IF n % BLOCK_SIZE > 0 THEN 1 ELSE 0)
<1>2. n \div BLOCK_SIZE \in Nat /\ n % BLOCK_SIZE \in 0 .. BLOCK_SIZE - 1
      /\ (n > BLOCK_SIZE => n \div BLOCK_SIZE >= 1)
  BY <1>1, DivMod, UserFsAssumption
<1>3. total \in Nat \ {0}
  <2> DEFINE q == n \div BLOCK_SIZE
             r == n % BLOCK_SIZE
  <2>1. q \in Nat /\ r \in Int /\ (n > BLOCK_SIZE => q >= 1)
    BY <1>2, UserFsAssumption
  <2>2. total = IF n <= BLOCK_SIZE THEN 1 ELSE q + (IF r > 0 THEN 1 ELSE 0)
    OBVIOUS
  <2> HIDE DEF q, r, total
  <2>3. QED  BY <1>1, <2>1, <2>2, UserFsAssumption
<1> HIDE DEF total
<1>4. Written(size) = [b \in 1 .. total |-> IF b < total THEN BLOCK_SIZE
                                            ELSE n % BLOCK_SIZE]
  BY DEF Written, Blocks, n, total
<1>5. BLOCK_SIZE \in Block /\ n % BLOCK_SIZE \in Block
  BY <1>2, UserFsAssumption DEF Block
<1> DEFINE w == [b \in 1 .. total |-> IF b < total THEN BLOCK_SIZE
                                      ELSE n % BLOCK_SIZE]
<1>6. w \in Seq(Block) /\ Len(w) = total
  BY <1>3, <1>5
<1>7. w[total] = n % BLOCK_SIZE
  BY <1>3
<1>8. QED  BY <1>2, <1>3, <1>4, <1>6, <1>7

\* The sums a read or a write puts into an offset.
LEMMA OffsetsNat ==
  ASSUME NEW blocks \in Seq(Block), NEW size \in Nat
  PROVE  /\ Occupied(blocks, 1, Len(blocks)) \in Nat
         /\ TotalRead(blocks, size) \in Nat
<1>1. \A k \in Nat : k <= Len(blocks) => Occupied(blocks, 1, k) \in Nat
  <2> SUFFICES ASSUME NEW k \in Nat, k <= Len(blocks)
               PROVE  Occupied(blocks, 1, k) \in Nat
    OBVIOUS
  <2>1. \A b \in 1 .. k : blocks[b] \in Nat
    BY UserFsAssumption DEF Block
  <2>2. QED  BY <2>1, OccupiedNat
<1>2. size \div BLOCK_SIZE \in Nat /\ size % BLOCK_SIZE \in Nat
  <2>1. BLOCK_SIZE \in Nat \ {0}
    BY UserFsAssumption
  <2>2. size % BLOCK_SIZE \in 0 .. BLOCK_SIZE - 1 /\ size \div BLOCK_SIZE \in Nat
    BY <2>1, DivMod
  <2>3. QED  BY <2>1, <2>2
<1>3. CopiedBlocks(blocks, size) \in Nat /\ CopiedBlocks(blocks, size) <= Len(blocks)
  <2> DEFINE S == {size \div BLOCK_SIZE, Len(blocks)}
  <2>1. S \subseteq Nat
    BY <1>2
  <2>2. Min(S) \in S /\ \A y \in S : Min(S) <= y
    BY <2>1, MinNat
  <2>3. QED  BY <2>1, <2>2 DEF CopiedBlocks
<1>4. QED  BY <1>1, <1>2, <1>3 DEF TotalRead

\* Open descriptor numbers, and those of one file, are finitely many.
LEMMA Counts ==
  ASSUME TypeOK
  PROVE  /\ Opened \in SUBSET Slots /\ IsFiniteSet(Opened)
         /\ Cardinality(Opened) \in 0 .. file_descriptor_capacity
         /\ \A f : IsFiniteSet(OpenedFor(f)) /\ Cardinality(OpenedFor(f)) \in Nat
         /\ \A f : Cardinality(OpenedFor(f)) = 0 <=> OpenedFor(f) = {}
<1>1. IsFiniteSet(Slots) /\ Cardinality(Slots) = file_descriptor_capacity
  BY FS_Interval, UserFsAssumption DEF Slots
<1>2. /\ Opened \in SUBSET Slots /\ IsFiniteSet(Opened)
      /\ Cardinality(Opened) \in Nat
      /\ Cardinality(Opened) <= file_descriptor_capacity
  <2>1. Opened \in SUBSET Slots
    BY DEF Opened
  <2>2. QED  BY <1>1, <2>1, FS_Subset, FS_CardinalityType
<1>3. \A f : IsFiniteSet(OpenedFor(f))
  <2>1. \A f : OpenedFor(f) \in SUBSET Opened
    BY DEF OpenedFor
  <2>2. QED  BY <1>2, <2>1, FS_Subset
<1>4. \A f : /\ Cardinality(OpenedFor(f)) \in Nat
             /\ Cardinality(OpenedFor(f)) = 0 <=> OpenedFor(f) = {}
  BY <1>3, FS_CardinalityType, FS_EmptySet
<1>5. QED  BY <1>2, <1>3, <1>4, UserFsAssumption

\* When a file may be opened, the table has room above its open descriptors.
LEMMA Room ==
  ASSUME IInv, MayOpen
  PROVE  /\ file_descriptor_count \in Slots /\ TableOK
         /\ Opened = 0 .. file_descriptor_count - 1
         /\ view[file_descriptor_count] = NULL
<1>1. Opened = 0 .. file_descriptor_count - 1 /\ Opened # Slots
  BY DEF IInv, TableInv, MayOpen
<1>2. Opened \in SUBSET Slots /\ file_descriptor_count \in 0 .. file_descriptor_capacity
  BY Counts DEF IInv, TypeOK
<1>3. file_descriptor_count \in Slots
  BY <1>1, <1>2, UserFsAssumption DEF Slots
<1>4. file_descriptor_count \notin Opened
  BY <1>1, <1>2
<1>5. QED  BY <1>1, <1>3, <1>4 DEF TableOK, Opened

\* As long as no file has gone, a lookup walks over allocated files only, and
\* finds the file of that name, which is the only one.
LEMMA Lookup ==
  ASSUME IInv, ~sealed, NEW n \in Names
  PROVE  /\ LookupOK(n)
         /\ FindFile(n) = NULL => WithName(n) = {}
         /\ FindFile(n) # NULL => /\ FindFile(n) \in Files /\ files[FindFile(n)] # NULL
                                 /\ WithName(n) = {FindFile(n)}
<1> USE UserFsAssumption DEF IInv, TypeOK
<1>1. \A i \in DOMAIN file_list : file_list[i] \in Files /\ files[file_list[i]] # NULL
  BY DEF ListInv
<1>2. LookupOK(n)
  BY <1>1 DEF LookupOK
<1>3. CASE Named(n) = {}
  <2>1. FindFile(n) = NULL
    BY <1>3 DEF FindFile
  <2>2. WithName(n) = {}
    BY <1>3 DEF WithName, Named, ListInv
  <2>3. QED  BY <1>2, <2>1, <2>2
<1>4. CASE Named(n) # {}
  <2>1. Named(n) \subseteq Nat
    BY DEF Named
  <2>2. Min(Named(n)) \in Named(n)
    BY <1>4, <2>1, MinNat
  <2>3. FindFile(n) = file_list[Min(Named(n))]
    BY <1>4 DEF FindFile
  <2>4. /\ FindFile(n) \in Files /\ files[FindFile(n)] # NULL
        /\ files[FindFile(n)].name = n
    BY <1>1, <2>2, <2>3 DEF Named
  <2>5. WithName(n) = {FindFile(n)}
    BY <2>4 DEF WithName, UniqueNames
  <2>6. FindFile(n) # NULL
    BY <2>4
  <2>7. QED  BY <1>2, <2>4, <2>5, <2>6
<1>5. QED  BY <1>3, <1>4

\* The scan for a descriptor of an allocated file stays among open descriptors.
LEMMA Scan ==
  ASSUME IInv, MayOpen, NEW f \in Files, files[f] # NULL
  PROVE  /\ HoldingOK(f) /\ FindFd(f) \in Fds /\ fds[FindFd(f)] \in FileDesc
<1>1. PICK d \in Opened : view[d] = f
  <2>1. Cardinality(OpenedFor(f)) # 0
    BY DEF IInv, RefsExact
  <2>2. OpenedFor(f) # {}
    BY <2>1, Counts DEF IInv
  <2>3. QED  BY <2>2 DEF OpenedFor
<1>2. /\ Opened = 0 .. file_descriptor_count - 1
      /\ \A e \in Opened : DescriptorOK(e) /\ fds[file_descriptors[e]].file = view[e]
  BY Room DEF IInv, TableInv, Desc
<1>3. Holding(f) \subseteq Nat /\ Holding(f) \subseteq Opened /\ d \in Holding(f)
  BY <1>1, <1>2 DEF Holding
<1>4. Min(Holding(f)) \in Holding(f)
  BY <1>3, MinNat
<1>5. \A i \in 0 .. Min(Holding(f)) : i \in Opened
  BY <1>2, <1>3, <1>4, Counts DEF IInv, TypeOK
<1>6. HoldingOK(f)
  BY <1>2, <1>3, <1>5 DEF HoldingOK
<1>7. Min(Holding(f)) \in Opened /\ DescriptorOK(Min(Holding(f)))
  BY <1>2, <1>3, <1>4
<1>8. QED  BY <1>6, <1>7 DEF FindFd, DescriptorOK, IInv, TypeOK

\* Where the elements of a sequence are when one is put before them.
LEMMA Prepend ==
  ASSUME NEW S, NEW l \in Seq(S), NEW f \in S
  PROVE  LET m == <<f>> \o l IN
         /\ Len(m) = Len(l) + 1 /\ m[1] = f
         /\ \A i \in DOMAIN l : m[i + 1] = l[i]
         /\ \A i \in DOMAIN m : i = 1 \/ (i - 1 \in DOMAIN l /\ m[i] = l[i - 1])
<1> DEFINE m == <<f>> \o l
<1>1. <<f>> \in Seq(S) /\ Len(<<f>>) = 1 /\ <<f>>[1] = f
  OBVIOUS
<1>2. /\ m \in Seq(S) /\ Len(m) = 1 + Len(l) /\ Len(l) \in Nat
      /\ \A i \in 1 .. 1 + Len(l) : m[i] = IF i <= 1 THEN <<f>>[i] ELSE l[i - 1]
  BY <1>1, ConcatProperties, LenProperties
<1>3. DOMAIN m = 1 .. Len(l) + 1 /\ DOMAIN l = 1 .. Len(l)
  BY <1>2, LenProperties
<1> HIDE DEF m
<1>4. m[1] = f /\ \A i \in 1 .. Len(l) : m[i + 1] = l[i]
  BY <1>1, <1>2
<1>5. ASSUME NEW i \in 1 .. Len(l) + 1, i # 1
      PROVE  i - 1 \in 1 .. Len(l) /\ m[i] = l[i - 1]
  <2>1. i \in 1 .. 1 + Len(l) /\ ~(i <= 1) /\ i - 1 \in 1 .. Len(l)
    BY <1>2, <1>5
  <2>2. QED  BY <1>2, <2>1
<1>6. /\ Len(m) = Len(l) + 1 /\ m[1] = f
      /\ \A i \in DOMAIN l : m[i + 1] = l[i]
      /\ \A i \in DOMAIN m : i = 1 \/ (i - 1 \in DOMAIN l /\ m[i] = l[i - 1])
  <2>1. Len(m) = Len(l) + 1
    BY <1>2
  <2>2. \A i \in DOMAIN l : m[i + 1] = l[i]
    BY <1>3, <1>4
  <2>3. \A i \in DOMAIN m : i = 1 \/ (i - 1 \in DOMAIN l /\ m[i] = l[i - 1])
    <3> SUFFICES ASSUME NEW i \in DOMAIN m, i # 1
                 PROVE  i - 1 \in DOMAIN l /\ m[i] = l[i - 1]
      OBVIOUS
    <3>1. i \in 1 .. Len(l) + 1
      BY <1>3
    <3>2. i - 1 \in 1 .. Len(l) /\ m[i] = l[i - 1]
      BY <1>5, <3>1
    <3>3. QED  BY <1>3, <3>2
  <2>4. QED  BY <1>4, <2>1, <2>2, <2>3
<1>7. QED  BY <1>6 DEF m

-----------------------------------------------------------------------------
(* Opening.                                                                *)

\* A new descriptor d, at the end of the table, for a file that is allocated.
LEMMA AddInv ==
  ASSUME IInv, MayOpen, NEW x \in Fds, NEW f \in Files, NEW offset \in Nat,
         NEW mode \in OpenModes, NEW c, c = file_descriptor_count,
         AddDescriptor(x, f, offset, mode),
         Given(file_descriptor_count, f), files' \in [Files -> File \cup {NULL}],
         \A g \in Files : files[g] # NULL \/ g = f => files'[g] # NULL
  PROVE  /\ fds' \in [Fds -> FileDesc \cup {NULL}]
         /\ file_descriptors' \in [Slots -> Fds \cup {NULL}]
         /\ file_descriptor_count' \in 0 .. file_descriptor_capacity
         /\ view' \in [Slots -> Files \cup {NULL}]
         /\ TableInv'
         /\ \A g \in Files : g # f => OpenedFor(g)' = OpenedFor(g)
         /\ Cardinality(OpenedFor(f)') = Cardinality(OpenedFor(f)) + 1
         /\ \A d \in Opened : Desc(d)' = Desc(d)
         /\ Desc(c)' = [file |-> f, offset |-> offset, mode |-> mode]
<1> USE UserFsAssumption, UserFsClientAssumption DEF IInv, TypeOK
<1> DEFINE new == [file |-> f, offset |-> offset, mode |-> mode]
<1>1. /\ c \in Slots /\ Opened = 0 .. c - 1 /\ view[c] = NULL
      /\ c \notin Opened /\ Opened \subseteq Slots
  BY Room DEF Opened
<1>2. /\ fds[x] = NULL /\ fds' = [fds EXCEPT ![x] = new]
      /\ file_descriptors' = [file_descriptors EXCEPT ![c] = x]
      /\ file_descriptor_count' = c + 1 /\ view' = [view EXCEPT ![c] = f]
  BY DEF AddDescriptor, Given
<1>3. new \in FileDesc
  BY DEF FileDesc
<1>4. /\ fds' \in [Fds -> FileDesc \cup {NULL}]
      /\ file_descriptors' \in [Slots -> Fds \cup {NULL}]
      /\ view' \in [Slots -> Files \cup {NULL}]
  BY <1>1, <1>2, <1>3
<1>5. file_descriptor_count' \in 0 .. file_descriptor_capacity
  BY <1>1, <1>2 DEF Slots
<1>6. Opened' = Opened \cup {c}
  BY <1>1, <1>2 DEF Opened
<1>7. \A d \in Opened : view'[d] = view[d]
  BY <1>1, <1>2
<1>8. \A g \in Files : OpenedFor(g)' = IF g = f THEN OpenedFor(g) \cup {c} ELSE OpenedFor(g)
  BY <1>1, <1>2, <1>6, <1>7 DEF OpenedFor
<1>9. Cardinality(OpenedFor(f)') = Cardinality(OpenedFor(f)) + 1
  <2>1. c \notin OpenedFor(f) /\ IsFiniteSet(OpenedFor(f)) /\ Cardinality(OpenedFor(f)) \in Nat
    <3>1. c \notin OpenedFor(f)
      BY <1>1 DEF OpenedFor
    <3>2. QED  BY <3>1, Counts
  <2>2. OpenedFor(f)' = OpenedFor(f) \cup {c}
    BY <1>8
  <2>3. QED  BY <2>1, <2>2, FS_AddElement
<1>10. Cardinality(Opened') = Cardinality(Opened) + 1
  BY <1>1, <1>6, Counts, FS_AddElement
<1>11. \A d \in Opened : /\ file_descriptors'[d] = file_descriptors[d]
                        /\ file_descriptors[d] # x /\ file_descriptors[d] \in Fds
                        /\ Desc(d)' = Desc(d)
  <2> SUFFICES ASSUME NEW d \in Opened
               PROVE  /\ file_descriptors'[d] = file_descriptors[d]
                      /\ file_descriptors[d] # x /\ file_descriptors[d] \in Fds
                      /\ Desc(d)' = Desc(d)
    OBVIOUS
  <2>1. d \in Slots /\ d # c /\ DescriptorOK(d)
    BY <1>1 DEF TableInv
  <2>2. file_descriptors'[d] = file_descriptors[d]
    BY <1>2, <2>1
  <2>3. file_descriptors[d] # x /\ file_descriptors[d] \in Fds
    BY <1>2, <2>1 DEF DescriptorOK
  <2>4. QED  BY <1>2, <2>2, <2>3 DEF Desc
<1>12. file_descriptors'[c] = x /\ Desc(c)' = new
  <2>1. file_descriptors'[c] = x
    BY <1>1, <1>2
  <2>2. fds'[x] = new
    BY <1>2
  <2>3. QED  BY <2>1, <2>2 DEF Desc
<1>13. \A d \in Opened' : DescriptorOK(d)' /\ Desc(d)'.file = view'[d]
  <2>1. ASSUME NEW d \in Opened PROVE DescriptorOK(d)' /\ Desc(d)'.file = view'[d]
    BY <1>1, <1>7, <1>11 DEF TableInv, DescriptorOK, Desc, Opened
  <2>2. DescriptorOK(c)' /\ Desc(c)'.file = view'[c]
    <3>1. fds'[x] = new /\ new # NULL /\ x # NULL
      BY <1>2, <1>3
    <3>2. view'[c] = f /\ files'[f] # NULL /\ new.file = f
      BY <1>1, <1>2
    <3>3. file_descriptors'[c] = x
      BY <1>12
    <3>4. c \in Slots
      BY <1>1
    <3> HIDE DEF new
    <3>5. QED  BY <3>1, <3>2, <3>3, <3>4 DEF DescriptorOK, Desc
  <2>3. QED  BY <1>6, <2>1, <2>2
<1>14. TableInv'
  BY <1>2, <1>6, <1>10, <1>11, <1>12, <1>13 DEF TableInv
<1>15. QED  BY <1>4, <1>5, <1>8, <1>9, <1>11, <1>12, <1>14

\* ufs_open that creates a file.
LEMMA CreatesInv ==
  ASSUME IInv, MayOpen, NEW n \in Names, NEW mode \in OpenModes, NEW x \in Fds,
         NEW f \in Files, Creates(n, mode, f, x)
  PROVE  IInv'
<1> USE UserFsAssumption, UserFsClientAssumption DEF IInv, TypeOK
<1> DEFINE new == [name |-> n, refs |-> 1, block_list |-> <<>>]
<1>1. /\ files[f] = NULL /\ files' = [files EXCEPT ![f] = new]
      /\ file_list' = <<f>> \o file_list /\ AddDescriptor(x, f, 0, mode)
      /\ Given(file_descriptor_count, f) /\ UNCHANGED <<written, sealed, ufs_err_code>>
      /\ FindFile(n) = NULL /\ ~sealed
  BY DEF Creates, OpenCreate, MayOpen, AddDescriptor
<1>2. new \in File /\ new # NULL
  <2>1. <<>> \in Seq(Block) /\ n \in Names \cup {NULL} /\ 1 \in Nat
    OBVIOUS
  <2>2. new \in File
    BY <2>1 DEF File
  <2> HIDE DEF new
  <2>3. QED  BY <2>2
<1>3. /\ files' \in [Files -> File \cup {NULL}]
      /\ files'[f] = new
      /\ \A g \in Files : g # f => files'[g] = files[g]
  BY <1>1, <1>2
<1>4. /\ TableInv' /\ fds' \in [Fds -> FileDesc \cup {NULL}]
      /\ file_descriptors' \in [Slots -> Fds \cup {NULL}]
      /\ file_descriptor_count' \in 0 .. file_descriptor_capacity
      /\ view' \in [Slots -> Files \cup {NULL}]
      /\ \A g \in Files : g # f => OpenedFor(g)' = OpenedFor(g)
      /\ Cardinality(OpenedFor(f)') = Cardinality(OpenedFor(f)) + 1
  BY <1>1, <1>2, <1>3, AddInv
<1>5. file_list' \in Seq(Files)
  BY <1>1
<1>6. TypeOK'
  BY <1>1, <1>3, <1>4, <1>5
<1>7. RefsExact'
  <2>1. OpenedFor(f) = {} /\ Cardinality(OpenedFor(f)) = 0
    BY <1>1, Counts DEF RefsExact
  <2>2. QED  BY <1>2, <1>3, <1>4, <2>1 DEF RefsExact
<1>8. UniqueNames'
  <2>1. WithName(n) = {}
    BY <1>1, Lookup
  <2>2. \A g \in Files : files[g] # NULL => files[g].name # n
    BY <2>1 DEF WithName
  <2>3. QED  BY <1>2, <1>3, <2>2 DEF UniqueNames
<1>9. ListInv'
  <2>1. /\ Len(file_list') = Len(file_list) + 1 /\ file_list'[1] = f
        /\ \A i \in DOMAIN file_list : file_list'[i + 1] = file_list[i]
        /\ \A i \in DOMAIN file_list' :
             i = 1 \/ (i - 1 \in DOMAIN file_list /\ file_list'[i] = file_list[i - 1])
    BY <1>1, Prepend
  <2>2. ASSUME NEW g \in Files, files'[g] # NULL
        PROVE  \E i \in DOMAIN file_list' : file_list'[i] = g
    <3>1. CASE g = f
      BY <1>5, <2>1, <3>1
    <3>2. CASE g # f
      <4>1. PICK i \in DOMAIN file_list : file_list[i] = g
        BY <1>3, <2>2, <3>2 DEF ListInv
      <4>2. i + 1 \in DOMAIN file_list' /\ file_list'[i + 1] = g
        BY <1>5, <2>1, <4>1
      <4>3. QED  BY <4>2
    <3>3. QED  BY <3>1, <3>2
  <2>3. ASSUME NEW i \in DOMAIN file_list' PROVE files'[file_list'[i]] # NULL
    BY <1>1, <1>2, <1>3, <2>1 DEF ListInv
  <2>4. QED  BY <2>2, <2>3 DEF ListInv
<1>10. WrittenInv'
  <2>1. f \notin written
    BY <1>1 DEF WrittenInv
  <2>2. QED  BY <1>1, <1>2, <1>3, <2>1 DEF WrittenInv, DeallocateOK
<1>11. QED  BY <1>4, <1>6, <1>7, <1>8, <1>9, <1>10

\* ufs_open of a file there is.
LEMMA OpensInv ==
  ASSUME IInv, MayOpen, NEW n \in Names, NEW mode \in OpenModes, NEW x \in Fds,
         Opens(n, mode, x)
  PROVE  IInv'
<1> USE UserFsAssumption, UserFsClientAssumption DEF IInv, TypeOK
<1>0. PICK f, offset : f = FindFile(n) /\ offset = fds[FindFd(f)].offset
  OBVIOUS
<1>1. /\ f # NULL /\ files' = [files EXCEPT ![f].refs = @ + 1]
      /\ AddDescriptor(x, f, offset, mode) /\ Given(file_descriptor_count, f)
      /\ UNCHANGED <<file_list, written, sealed, ufs_err_code>> /\ ~sealed
  BY <1>0 DEF Opens, OpenExisting, MayOpen, AddDescriptor
<1>2. f \in Files /\ files[f] # NULL /\ files[f] \in File
  BY <1>0, <1>1, Lookup
<1>3. offset \in Nat
  BY <1>0, <1>2, Scan DEF FileDesc
<1> DEFINE new == [files[f] EXCEPT !.refs = @ + 1]
<1>4. /\ new \in File /\ new # NULL /\ new.name = files[f].name
      /\ new.refs = files[f].refs + 1 /\ new.block_list = files[f].block_list
  <2>1. /\ files[f].name \in Names \cup {NULL} /\ files[f].refs \in Nat
        /\ files[f].block_list \in Seq(Block)
        /\ files[f] = [name |-> files[f].name, refs |-> files[f].refs,
                       block_list |-> files[f].block_list]
    BY <1>2 DEF File
  <2>2. new = [name |-> files[f].name, refs |-> files[f].refs + 1,
               block_list |-> files[f].block_list]
    BY <2>1
  <2> HIDE DEF new
  <2>3. new \in File
    BY <2>1, <2>2 DEF File
  <2>4. QED  BY <2>2, <2>3
<1>5. files' = [files EXCEPT ![f] = new]
  BY <1>1, <1>2
<1> HIDE DEF new
<1>6. /\ files' \in [Files -> File \cup {NULL}] /\ files'[f] = new
      /\ \A g \in Files : g # f => files'[g] = files[g]
  BY <1>2, <1>4, <1>5
<1>7. \A g \in Files : files'[g] # NULL <=> files[g] # NULL
  BY <1>2, <1>4, <1>6
<1>8. /\ TableInv' /\ fds' \in [Fds -> FileDesc \cup {NULL}]
      /\ file_descriptors' \in [Slots -> Fds \cup {NULL}]
      /\ file_descriptor_count' \in 0 .. file_descriptor_capacity
      /\ view' \in [Slots -> Files \cup {NULL}]
      /\ \A g \in Files : g # f => OpenedFor(g)' = OpenedFor(g)
      /\ Cardinality(OpenedFor(f)') = Cardinality(OpenedFor(f)) + 1
  <2>1. \A g \in Files : files[g] # NULL \/ g = f => files'[g] # NULL
    BY <1>2, <1>7
  <2>2. QED  BY <1>1, <1>2, <1>3, <1>6, <2>1, AddInv
<1>9. TypeOK'
  BY <1>1, <1>6, <1>8
<1>10. RefsExact'
  <2>1. ASSUME NEW g \in Files, g # f
        PROVE  IF files'[g] = NULL THEN OpenedFor(g)' = {}
               ELSE files'[g].refs = Cardinality(OpenedFor(g)') /\ files'[g].refs > 0
    <3>1. files'[g] = files[g] /\ OpenedFor(g)' = OpenedFor(g)
      BY <1>6, <1>8, <2>1
    <3>2. QED  BY <3>1 DEF RefsExact
  <2>2. files'[f].refs = Cardinality(OpenedFor(f)') /\ files'[f].refs > 0
    <3>1. files[f].refs = Cardinality(OpenedFor(f)) /\ files[f].refs > 0
      BY <1>2 DEF RefsExact
    <3>2. files'[f].refs = files[f].refs + 1
      BY <1>4, <1>6
    <3>3. Cardinality(OpenedFor(f)) \in Nat
      BY Counts
    <3>4. QED  BY <1>8, <3>1, <3>2, <3>3
  <2>3. files'[f] # NULL
    BY <1>4, <1>6
  <2>4. QED  BY <2>1, <2>2, <2>3 DEF RefsExact
<1>11. UniqueNames'
  BY <1>2, <1>4, <1>6, <1>7 DEF UniqueNames
<1>12. ListInv'
  BY <1>1, <1>7 DEF ListInv
<1>13. WrittenInv'
  BY <1>1, <1>2, <1>4, <1>6, <1>7 DEF WrittenInv, DeallocateOK
<1>14. QED  BY <1>8, <1>9, <1>10, <1>11, <1>12, <1>13
-----------------------------------------------------------------------------
(* The other calls.                                                        *)

\* A call that fails, or is refused.
LEMMA SameInv ==
  ASSUME IInv, ufs_err_code' \in ErrorCodes,
         UNCHANGED <<files, file_list, fds, file_descriptors,
                     file_descriptor_count, view, written, sealed>>
  PROVE  IInv'
<1>1. TypeOK'
  BY DEF IInv, TypeOK
<1>2. RefsExact' /\ UniqueNames' /\ ListInv' /\ WrittenInv'
  BY DEF IInv, RefsExact, UniqueNames, ListInv, WrittenInv, OpenedFor, Opened,
         DeallocateOK
<1>3. TableInv'
  BY DEF IInv, TableInv, Opened, DescriptorOK, Desc
<1>4. QED  BY <1>1, <1>2, <1>3 DEF IInv

\* What an open descriptor number leads to.
LEMMA Follow ==
  ASSUME IInv, NEW d \in Opened
  PROVE  /\ d \in Slots /\ file_descriptors[d] \in Fds /\ view[d] \in Files
         /\ Desc(d) \in FileDesc /\ Desc(d) # NULL /\ Desc(d).file = view[d]
         /\ files[view[d]] \in File /\ files[view[d]] # NULL
<1>1. DescriptorOK(d) /\ Desc(d).file = view[d]
  BY DEF IInv, TableInv
<1>2. d \in Slots /\ view[d] # NULL
  BY DEF Opened
<1>3. QED  BY <1>1, <1>2 DEF DescriptorOK, Desc, IInv, TypeOK

\* A step that moves the offset of an open descriptor.
LEMMA OffsetInv ==
  ASSUME IInv, NEW d \in Opened, NEW n \in Nat, SetOffset(d, n),
         UNCHANGED <<file_descriptors, file_descriptor_count, view>>,
         \A g \in Files : files'[g] = NULL <=> files[g] = NULL
  PROVE  /\ fds' \in [Fds -> FileDesc \cup {NULL}] /\ TableInv'
         /\ \A e \in Opened : Desc(e)' = IF e = d THEN [Desc(d) EXCEPT !.offset = n]
                                         ELSE Desc(e)
<1> DEFINE x == file_descriptors[d]
           new == [fds[x] EXCEPT !.offset = n]
<1>1. x \in Fds /\ fds[x] \in FileDesc
  BY Follow DEF Desc
<1>2. new \in FileDesc /\ new.file = fds[x].file
  BY <1>1 DEF FileDesc
<1>3. fds' = [fds EXCEPT ![x] = new]
  BY DEF SetOffset
<1> HIDE DEF new
<1>4. fds \in [Fds -> FileDesc \cup {NULL}]
  BY DEF IInv, TypeOK
<1>5. fds' \in [Fds -> FileDesc \cup {NULL}]
  BY <1>1, <1>2, <1>3, <1>4
<1>6. Opened' = Opened
  BY DEF Opened
<1>7. ASSUME NEW e \in Opened
      PROVE  /\ Desc(e)' = IF e = d THEN new ELSE Desc(e)
             /\ Desc(e)'.file = view[e] /\ Desc(e)' # NULL
             /\ file_descriptors[e] \in Fds /\ view[e] \in Files /\ e \in Slots
             /\ files[view[e]] # NULL
  <2>1. /\ file_descriptors[e] \in Fds /\ Desc(e) # NULL /\ Desc(e).file = view[e]
        /\ view[e] \in Files /\ e \in Slots /\ files[view[e]] # NULL
    BY Follow
  <2>2. CASE e = d
    <3>1. Desc(e)' = new
      BY <1>1, <1>3, <1>4, <2>2 DEF Desc
    <3>2. new.file = view[e] /\ new # NULL
      BY <1>2, <2>1, <2>2, UserFsAssumption DEF Desc
    <3>3. QED  BY <2>1, <2>2, <3>1, <3>2
  <2>3. CASE e # d
    <3>1. file_descriptors[e] # x
      BY <2>3 DEF IInv, TableInv
    <3>2. Desc(e)' = Desc(e)
      BY <1>1, <1>3, <1>4, <2>1, <3>1 DEF Desc
    <3>3. QED  BY <2>1, <2>3, <3>2
  <2>4. QED  BY <2>2, <2>3
<1>8. \A e \in Opened : DescriptorOK(e)' /\ Desc(e)'.file = view'[e]
  <2> SUFFICES ASSUME NEW e \in Opened PROVE DescriptorOK(e)' /\ Desc(e)'.file = view'[e]
    OBVIOUS
  <2>1. files'[view[e]] # NULL /\ file_descriptors'[e] # NULL
    BY <1>7, UserFsAssumption
  <2>2. QED  BY <1>7, <2>1 DEF DescriptorOK, Desc
<1>9. TableInv'
  BY <1>6, <1>8 DEF IInv, TableInv
<1>10. QED  BY <1>5, <1>7, <1>9 DEF new, Desc

\* ufs_write.
LEMMA WritesInv ==
  ASSUME IInv, NEW d \in Opened, NEW size \in Sizes, Writes(d, size)
  PROVE  IInv'
<1>0. PICK f, blocks : f = view[d] /\ blocks = Written(size)
  OBVIOUS
<1> DEFINE new == [files[f] EXCEPT !.block_list = blocks]
<1>1. /\ f \in Files /\ files[f] \in File /\ files[f] # NULL /\ Desc(d).file = f
  BY <1>0, Follow
<1>2. /\ files' = [files EXCEPT ![f] = new]
      /\ SetOffset(d, Occupied(blocks, 1, Len(blocks)))
      /\ written' = written \cup {f}
      /\ UNCHANGED <<file_list, file_descriptors, file_descriptor_count,
                     ufs_err_code, view, sealed>>
  BY <1>0, <1>1 DEF Writes, Write
<1>3. blocks \in Seq(Block) /\ blocks # <<>> /\ size \in Nat
  BY <1>0, WrittenBlocks, UserFsClientAssumption
<1>4. Occupied(blocks, 1, Len(blocks)) \in Nat
  BY <1>3, OffsetsNat
<1>5. /\ new \in File /\ new # NULL /\ new.name = files[f].name
      /\ new.refs = files[f].refs /\ new.block_list = blocks
  <2>1. new \in File /\ new.name = files[f].name
        /\ new.refs = files[f].refs /\ new.block_list = blocks
    BY <1>1, <1>3 DEF File
  <2> HIDE DEF new
  <2>2. QED  BY <2>1, UserFsAssumption
<1> HIDE DEF new
<1>6. files \in [Files -> File \cup {NULL}]
  BY DEF IInv, TypeOK
<1>7. /\ files' \in [Files -> File \cup {NULL}] /\ files'[f] = new
      /\ \A g \in Files : g # f => files'[g] = files[g]
  BY <1>1, <1>2, <1>5, <1>6
<1>8. \A g \in Files : files'[g] = NULL <=> files[g] = NULL
  BY <1>1, <1>5, <1>7
<1>9. fds' \in [Fds -> FileDesc \cup {NULL}] /\ TableInv'
  BY <1>2, <1>4, <1>8, OffsetInv
<1>10. TypeOK'
  BY <1>1, <1>2, <1>7, <1>9 DEF IInv, TypeOK
<1>11. RefsExact'
  <2>1. \A g \in Files : OpenedFor(g)' = OpenedFor(g)
    BY <1>2 DEF OpenedFor, Opened
  <2>2. \A g \in Files : files'[g] # NULL => files'[g].refs = files[g].refs
    BY <1>5, <1>7
  <2>3. QED  BY <1>8, <2>1, <2>2 DEF IInv, RefsExact
<1>12. UniqueNames'
  <2>1. \A g \in Files : files'[g] # NULL => files'[g].name = files[g].name
    BY <1>5, <1>7
  <2>2. QED  BY <1>8, <2>1 DEF IInv, UniqueNames
<1>13. ListInv'
  <2>1. \A i \in DOMAIN file_list : file_list[i] \in Files
    BY DEF IInv, TypeOK
  <2>2. QED  BY <1>2, <1>8, <2>1 DEF IInv, ListInv
<1>14. WrittenInv'
  <2> SUFFICES ASSUME NEW g \in Files
               PROVE  /\ files'[g] # NULL =>
                           files'[g].block_list \in {<<>>} \cup {Written(s) : s \in Sizes}
                      /\ g \in written' =>
                           IF files'[g] = NULL THEN sealed' ELSE files'[g].block_list # <<>>
    BY DEF WrittenInv, DeallocateOK
  <2>1. CASE g = f
    BY <1>0, <1>3, <1>5, <1>7, <2>1
  <2>2. CASE g # f
    BY <1>2, <1>7, <2>2 DEF IInv, WrittenInv, DeallocateOK
  <2>3. QED  BY <2>1, <2>2
<1>15. QED  BY <1>9, <1>10, <1>11, <1>12, <1>13, <1>14 DEF IInv

\* ufs_read.
LEMMA ReadsInv ==
  ASSUME IInv, NEW d \in Opened, NEW size \in Sizes, Reads(d, size)
  PROVE  IInv'
<1>0. PICK blocks : blocks = files[view[d]].block_list
  OBVIOUS
<1>1. blocks \in Seq(Block) /\ size \in Nat
  BY <1>0, Follow, UserFsClientAssumption DEF File
<1>2. /\ SetOffset(d, TotalRead(blocks, size))
      /\ UNCHANGED <<files, file_list, file_descriptors, file_descriptor_count,
                     ufs_err_code, view, written, sealed>>
  BY <1>0, Follow DEF Reads, Read
<1>3. TotalRead(blocks, size) \in Nat
  BY <1>1, OffsetsNat
<1>4. fds' \in [Fds -> FileDesc \cup {NULL}] /\ TableInv'
  BY <1>2, <1>3, OffsetInv
<1>5. TypeOK'
  BY <1>2, <1>4 DEF IInv, TypeOK
<1>6. RefsExact' /\ UniqueNames' /\ ListInv' /\ WrittenInv'
  BY <1>2 DEF IInv, RefsExact, UniqueNames, ListInv, WrittenInv, OpenedFor,
              Opened, DeallocateOK
<1>7. QED  BY <1>4, <1>5, <1>6 DEF IInv

\* ufs_close: the table keeps the other descriptors, and the file of d is still
\* allocated if it has one of them.
LEMMA ClosesInv ==
  ASSUME IInv, NEW d \in Opened, Closes(d)
  PROVE  IInv'
<1>0. PICK f, x : f = view[d] /\ x = file_descriptors[d]
  OBVIOUS
<1> DEFINE last == files[f].refs = 1
           less == [files[f] EXCEPT !.refs = @ - 1]
<1>1. /\ f \in Files /\ files[f] \in File /\ files[f] # NULL /\ Desc(d).file = f
      /\ x \in Fds /\ d \in Slots /\ NULL \notin Files
  BY <1>0, Follow, UserFsAssumption
<1>2. /\ files' = IF last THEN [files EXCEPT ![f] = NULL] ELSE [files EXCEPT ![f] = less]
      /\ fds' = [fds EXCEPT ![x] = NULL]
      /\ file_descriptor_count' = file_descriptor_count - 1
      /\ view' = [view EXCEPT ![d] = NULL]
      /\ sealed' = (sealed \/ OpenedFor(f) = {d})
      /\ UNCHANGED <<file_list, file_descriptors, ufs_err_code, written>>
      /\ last => files[f].block_list # <<>>
  BY <1>0, <1>1 DEF Closes, Close, DeallocateOK
<1>3. /\ files \in [Files -> File \cup {NULL}] /\ view \in [Slots -> Files \cup {NULL}]
      /\ fds \in [Fds -> FileDesc \cup {NULL}]
  BY DEF IInv, TypeOK
<1>4. /\ IsFiniteSet(OpenedFor(f)) /\ Cardinality(OpenedFor(f)) \in Nat
      /\ files[f].refs = Cardinality(OpenedFor(f)) /\ files[f].refs \in Nat \ {0}
      /\ d \in OpenedFor(f)
  <2>1. IsFiniteSet(OpenedFor(f)) /\ Cardinality(OpenedFor(f)) \in Nat
    BY Counts DEF IInv
  <2>2. files[f].refs = Cardinality(OpenedFor(f)) /\ files[f].refs > 0
    BY <1>1 DEF IInv, RefsExact
  <2>3. d \in OpenedFor(f)
    BY <1>0 DEF OpenedFor
  <2>4. QED  BY <2>1, <2>2, <2>3
<1>5. /\ Opened' = Opened \ {d} /\ OpenedFor(f)' = OpenedFor(f) \ {d}
      /\ \A g \in Files : g # f => OpenedFor(g)' = OpenedFor(g)
      /\ \A e \in Opened : e # d => view'[e] = view[e]
  <2>1. view'[d] = NULL /\ \A e \in Slots : e # d => view'[e] = view[e]
    BY <1>1, <1>2, <1>3
  <2>2. Opened' = Opened \ {d}
    BY <1>1, <2>1 DEF Opened
  <2>3. \A e \in Opened : e # d => view'[e] = view[e]
    BY <2>1 DEF Opened
  <2>4. OpenedFor(f)' = OpenedFor(f) \ {d}
    BY <2>2, <2>3 DEF OpenedFor
  <2>5. \A g \in Files : g # f => OpenedFor(g)' = OpenedFor(g)
    BY <1>0, <2>2, <2>3 DEF OpenedFor
  <2>6. QED  BY <2>2, <2>3, <2>4, <2>5
<1>6. Cardinality(OpenedFor(f)') = files[f].refs - 1 /\ IsFiniteSet(OpenedFor(f)')
  BY <1>4, <1>5, FS_RemoveElement
<1>7. last <=> OpenedFor(f)' = {}
  <2>1. Cardinality(OpenedFor(f)') = 0 <=> OpenedFor(f)' = {}
    BY <1>6, FS_EmptySet
  <2>2. QED  BY <1>4, <1>6, <2>1
<1>8. last <=> OpenedFor(f) = {d}
  BY <1>4, <1>5, <1>7
<1>9. /\ less \in File /\ less # NULL /\ less.name = files[f].name
      /\ less.refs = files[f].refs - 1 /\ less.block_list = files[f].block_list
  <2>1. /\ less \in File /\ less.name = files[f].name
        /\ less.refs = files[f].refs - 1 /\ less.block_list = files[f].block_list
    BY <1>1, <1>4 DEF File
  <2> HIDE DEF less
  <2>2. QED  BY <2>1, UserFsAssumption
<1> HIDE DEF last, less
<1>10. /\ files' \in [Files -> File \cup {NULL}]
       /\ files'[f] = IF last THEN NULL ELSE less
       /\ \A g \in Files : g # f => files'[g] = files[g]
  BY <1>1, <1>2, <1>3, <1>9
<1>11. file_descriptor_count' = Cardinality(Opened')
       /\ file_descriptor_count' \in 0 .. file_descriptor_capacity
  <2>1. IsFiniteSet(Opened) /\ Cardinality(Opened) \in 0 .. file_descriptor_capacity
    BY Counts DEF IInv
  <2>2. Cardinality(Opened') = Cardinality(Opened) - 1 /\ IsFiniteSet(Opened')
    BY <1>5, <2>1, FS_RemoveElement
  <2>3. Cardinality(Opened') \in Nat
    BY <2>2, FS_CardinalityType
  <2>4. file_descriptor_count = Cardinality(Opened)
    BY DEF IInv, TableInv
  <2>5. QED  BY <1>2, <2>1, <2>2, <2>3, <2>4, UserFsAssumption
<1>12. TypeOK'
  <2>1. fds' \in [Fds -> FileDesc \cup {NULL}] /\ view' \in [Slots -> Files \cup {NULL}]
    BY <1>1, <1>2, <1>3
  <2>2. sealed' \in BOOLEAN
    BY <1>2 DEF IInv, TypeOK
  <2>3. QED  BY <1>2, <1>10, <1>11, <2>1, <2>2 DEF IInv, TypeOK
<1>13. RefsExact'
  <2>1. ASSUME NEW g \in Files, g # f
        PROVE  IF files'[g] = NULL THEN OpenedFor(g)' = {}
               ELSE files'[g].refs = Cardinality(OpenedFor(g)') /\ files'[g].refs > 0
    <3>1. files'[g] = files[g] /\ OpenedFor(g)' = OpenedFor(g)
      BY <1>5, <1>10, <2>1
    <3>2. QED  BY <3>1 DEF IInv, RefsExact
  <2>2. CASE last
    BY <1>7, <1>10, <2>1, <2>2 DEF RefsExact
  <2>3. CASE ~last
    <3>1. files'[f] # NULL /\ files'[f].refs = Cardinality(OpenedFor(f)')
      BY <1>6, <1>9, <1>10, <2>3
    <3>2. files'[f].refs > 0
      BY <1>4, <1>6, <2>3, <3>1 DEF last
    <3>3. QED  BY <2>1, <3>1, <3>2 DEF RefsExact
  <2>4. QED  BY <2>2, <2>3
<1>14. UniqueNames'
  <2>1. \A g \in Files : files'[g] # NULL =>
          files[g] # NULL /\ files'[g].name = files[g].name
    BY <1>1, <1>9, <1>10
  <2>2. QED  BY <2>1 DEF IInv, UniqueNames
<1>15. TableInv'
  <2>1. ASSUME NEW e \in Opened, e # d
        PROVE  /\ DescriptorOK(e)' /\ Desc(e)'.file = view'[e]
               /\ file_descriptors[e] # x
    <3>1. /\ file_descriptors[e] \in Fds /\ Desc(e) # NULL /\ Desc(e).file = view[e]
          /\ view[e] \in Files /\ e \in Slots /\ files[view[e]] # NULL
      BY Follow
    <3>2. file_descriptors[e] # x
      BY <1>0, <2>1 DEF IInv, TableInv
    <3>3. Desc(e)' = Desc(e) /\ view'[e] = view[e]
      BY <1>2, <1>3, <1>5, <2>1, <3>1, <3>2 DEF Desc
    <3>4. files'[view[e]] # NULL
      <4>1. CASE view[e] = f
        <5>1. e \in OpenedFor(f)'
          BY <1>5, <2>1, <4>1 DEF OpenedFor
        <5>2. QED  BY <1>7, <1>9, <1>10, <4>1, <5>1
      <4>2. CASE view[e] # f
        BY <1>10, <3>1, <4>2
      <4>3. QED  BY <4>1, <4>2
    <3>5. file_descriptors'[e] = file_descriptors[e] /\ file_descriptors[e] # NULL
      BY <1>2, <3>1, UserFsAssumption
    <3>6. QED  BY <3>1, <3>2, <3>3, <3>4, <3>5 DEF DescriptorOK, Desc
  <2>2. \A e \in Opened' : DescriptorOK(e)' /\ Desc(e)'.file = view'[e]
    BY <1>5, <2>1
  <2>3. \A e, g \in Opened' : file_descriptors'[e] = file_descriptors'[g] => e = g
    BY <1>2, <1>5 DEF IInv, TableInv
  <2>4. QED  BY <1>11, <2>2, <2>3 DEF TableInv
<1>16. ListInv'
  <2>1. \A g \in Files : files'[g] # NULL => files[g] # NULL
    BY <1>1, <1>10
  <2>2. ~sealed' => ~sealed /\ ~last
    BY <1>2, <1>8
  <2>3. ~last => \A g \in Files : files[g] # NULL => files'[g] # NULL
    BY <1>9, <1>10
  <2>4. \A i \in DOMAIN file_list : file_list[i] \in Files
    BY DEF IInv, TypeOK
  <2>5. QED  BY <1>2, <2>1, <2>2, <2>3, <2>4 DEF IInv, ListInv
<1>17. WrittenInv'
  <2> SUFFICES ASSUME NEW g \in Files
               PROVE  /\ files'[g] # NULL =>
                           files'[g].block_list \in {<<>>} \cup {Written(s) : s \in Sizes}
                      /\ g \in written' =>
                           IF files'[g] = NULL THEN sealed' ELSE files'[g].block_list # <<>>
    BY DEF WrittenInv, DeallocateOK
  <2>1. /\ files[g] # NULL =>
             files[g].block_list \in {<<>>} \cup {Written(s) : s \in Sizes}
        /\ g \in written => IF files[g] = NULL THEN sealed ELSE files[g].block_list # <<>>
    BY DEF IInv, WrittenInv, DeallocateOK
  <2>2. CASE g = f
    <3>1. CASE last
      BY <1>2, <1>8, <1>10, <2>2, <3>1
    <3>2. CASE ~last
      BY <1>1, <1>2, <1>9, <1>10, <2>1, <2>2, <3>2
    <3>3. QED  BY <3>1, <3>2
  <2>3. CASE g # f
    BY <1>2, <1>10, <2>1, <2>3
  <2>4. QED  BY <2>2, <2>3
<1>18. QED  BY <1>12, <1>13, <1>14, <1>15, <1>16, <1>17 DEF IInv

\* ufs_delete.
LEMMA DeletesInv ==
  ASSUME IInv, ~sealed, NEW n \in Names, Deletes(n)
  PROVE  IInv'
<1>0. PICK f : f = FindFile(n)
  OBVIOUS
<1> DEFINE new == [files[f] EXCEPT !.name = NULL]
<1>1. /\ f # NULL /\ files' = [files EXCEPT ![f] = new]
      /\ UNCHANGED <<file_list, fds, file_descriptors, file_descriptor_count,
                     ufs_err_code, view, written, sealed>>
  BY <1>0 DEF Deletes, Delete
<1>2. f \in Files /\ files[f] # NULL /\ files \in [Files -> File \cup {NULL}]
  BY <1>0, <1>1, Lookup DEF IInv, TypeOK
<1>3. /\ new \in File /\ new # NULL /\ new.name = NULL
      /\ new.refs = files[f].refs /\ new.block_list = files[f].block_list
  <2>1. files[f] \in File
    BY <1>2
  <2>2. /\ new \in File /\ new.name = NULL
        /\ new.refs = files[f].refs /\ new.block_list = files[f].block_list
    BY <2>1 DEF File
  <2> HIDE DEF new
  <2>3. QED  BY <2>2, UserFsAssumption
<1> HIDE DEF new
<1>4. /\ files' \in [Files -> File \cup {NULL}] /\ files'[f] = new
      /\ \A g \in Files : g # f => files'[g] = files[g]
  BY <1>1, <1>2, <1>3
<1>5. \A g \in Files : files'[g] = NULL <=> files[g] = NULL
  BY <1>2, <1>3, <1>4
<1>6. TypeOK'
  BY <1>1, <1>4 DEF IInv, TypeOK
<1>7. RefsExact'
  <2>1. \A g \in Files : OpenedFor(g)' = OpenedFor(g)
    BY <1>1 DEF OpenedFor, Opened
  <2>2. \A g \in Files : files'[g].refs = files[g].refs
    BY <1>3, <1>4
  <2>3. QED  BY <1>5, <2>1, <2>2 DEF IInv, RefsExact
<1>8. UniqueNames'
  <2>1. \A g \in Files : files'[g].name = files[g].name \/ files'[g].name = NULL
    BY <1>3, <1>4
  <2>2. QED  BY <1>5, <2>1 DEF IInv, UniqueNames
<1>9. TableInv'
  <2>1. \A e \in Opened : /\ DescriptorOK(e)' /\ Desc(e)' = Desc(e)
    <3> SUFFICES ASSUME NEW e \in Opened PROVE DescriptorOK(e)' /\ Desc(e)' = Desc(e)
      OBVIOUS
    <3>1. /\ file_descriptors[e] \in Fds /\ Desc(e) # NULL /\ Desc(e).file = view[e]
          /\ view[e] \in Files /\ e \in Slots /\ files[view[e]] # NULL
      BY Follow
    <3>2. files'[view[e]] # NULL /\ file_descriptors[e] # NULL
      BY <1>5, <3>1, UserFsAssumption
    <3>3. QED  BY <1>1, <3>1, <3>2 DEF DescriptorOK, Desc
  <2>2. Opened' = Opened
    BY <1>1 DEF Opened
  <2>3. QED  BY <1>1, <2>1, <2>2 DEF IInv, TableInv
<1>10. ListInv'
  <2>1. \A i \in DOMAIN file_list : file_list[i] \in Files
    BY DEF IInv, TypeOK
  <2>2. QED  BY <1>1, <1>5, <2>1 DEF IInv, ListInv
<1>11. WrittenInv'
  <2>1. \A g \in Files : files'[g].block_list = files[g].block_list
    BY <1>3, <1>4
  <2>2. QED  BY <1>1, <1>5, <2>1 DEF IInv, WrittenInv, DeallocateOK
<1>12. QED  BY <1>6, <1>7, <1>8, <1>9, <1>10, <1>11 DEF IInv

-----------------------------------------------------------------------------
(* The invariant, and the properties that follow from it.                  *)

\* Every call keeps the invariant.
LEMMA NextInv == IInv /\ [Next]_vars => IInv'
<1> SUFFICES ASSUME IInv, [Next]_vars PROVE IInv'
  OBVIOUS
<1>1. ufs_err_code \in ErrorCodes
  BY DEF IInv, TypeOK
<1>2. CASE Next
  <2>1. ASSUME MayOpen, NEW n \in Names, NEW mode \in OpenModes, NEW x \in Fds,
               NEW f \in Files, Creates(n, mode, f, x)
        PROVE  IInv'
    BY <2>1, CreatesInv
  <2>2. ASSUME MayOpen, NEW n \in Names, NEW mode \in OpenModes, NEW x \in Fds,
               Opens(n, mode, x)
        PROVE  IInv'
    BY <2>2, OpensInv
  <2>3. ASSUME NEW n \in Names, OpenFails(n) PROVE IInv'
    BY <2>3, SameInv DEF OpenFails, OpenCreateExists, OpenMissing, Fail, ErrorCodes
  <2>4. ASSUME NEW d \in Opened, NEW size \in Sizes, Writes(d, size) PROVE IInv'
    BY <2>4, WritesInv
  <2>5. ASSUME NEW d \in Opened, NEW size \in Sizes, Reads(d, size) PROVE IInv'
    BY <2>5, ReadsInv
  <2>6. ASSUME NEW d \in Opened, IsRefused(d) PROVE IInv'
    BY <2>6, SameInv DEF IsRefused, Refused, Fail, ErrorCodes
  <2>7. ASSUME NEW d \in Opened, Closes(d) PROVE IInv'
    BY <2>7, ClosesInv
  <2>8. ASSUME ~sealed, NEW n \in Names, Deletes(n) PROVE IInv'
    BY <2>8, DeletesInv
  <2>9. QED  BY <1>2, <2>1, <2>2, <2>3, <2>4, <2>5, <2>6, <2>7, <2>8 DEF Next
<1>3. CASE UNCHANGED vars
  BY <1>1, <1>3, SameInv DEF vars, fsVars
<1>4. QED  BY <1>2, <1>3

\* It holds before the first call.
LEMMA InitInv == Init => IInv
<1> SUFFICES ASSUME Init PROVE IInv
  OBVIOUS
<1>1. /\ files = [f \in Files |-> NULL] /\ file_list = <<>>
      /\ fds = [x \in Fds |-> NULL] /\ file_descriptors = [d \in Slots |-> NULL]
      /\ file_descriptor_count = 0 /\ ufs_err_code = "NO_ERR"
      /\ view = [d \in Slots |-> NULL] /\ written = {} /\ sealed = FALSE
  BY DEF Init, FsInit
<1>2. Opened = {} /\ \A f : OpenedFor(f) = {}
  BY <1>1 DEF Opened, OpenedFor
<1>3. TypeOK
  <2>1. file_list \in Seq(Files) /\ ufs_err_code \in ErrorCodes
    BY <1>1 DEF ErrorCodes
  <2>2. file_descriptor_count \in 0 .. file_descriptor_capacity
    BY <1>1, UserFsAssumption
  <2>3. /\ files \in [Files -> File \cup {NULL}] /\ fds \in [Fds -> FileDesc \cup {NULL}]
        /\ file_descriptors \in [Slots -> Fds \cup {NULL}]
        /\ view \in [Slots -> Files \cup {NULL}]
    BY <1>1
  <2>4. QED  BY <1>1, <2>1, <2>2, <2>3 DEF TypeOK
<1>4. RefsExact /\ UniqueNames /\ WrittenInv
  BY <1>1, <1>2 DEF RefsExact, UniqueNames, WrittenInv
<1>5. TableInv
  BY <1>1, <1>2, FS_EmptySet DEF TableInv
<1>6. ListInv
  BY <1>1 DEF ListInv
<1>7. QED  BY <1>3, <1>4, <1>5, <1>6 DEF IInv

\* The invariant is one: every call the contract allows keeps it.
THEOREM Inductive == Spec => []IInv
<1>1. QED  BY InitInv, NextInv, PTL DEF Spec

\* Every variable has values of its kind.
THEOREM Typed == Spec => []TypeOK
<1>1. IInv => TypeOK
  BY DEF IInv
<1>2. QED  BY <1>1, Inductive, PTL

\* refs counts the open descriptors of a file (ufs_open, ufs_close), and a file
\* is allocated as long as it has one.
THEOREM RefsAreExact == Spec => []RefsExact
<1>1. IInv => RefsExact
  BY DEF IInv
<1>2. QED  BY <1>1, Inductive, PTL

\* A name leads to one file at most (find_file_struct returns the first).
THEOREM NamesAreUnique == Spec => []UniqueNames
<1>1. IInv => UniqueNames
  BY DEF IInv
<1>2. QED  BY <1>1, Inductive, PTL

\* What Clear says of the number of whole blocks asked for.
LEMMA ClearIs ==
  ASSUME NEW blocks \in Seq(Block), NEW size \in Nat, Len(blocks) \in Nat \ {0}
  PROVE  Clear(blocks, size) <=>
           size \div BLOCK_SIZE = 0 \/ size \div BLOCK_SIZE < Len(blocks) - 1
<1> DEFINE L == Len(blocks)
           k == size \div BLOCK_SIZE
           m == Max({1, L - 1})
<1>1. k \in Nat /\ L \in Nat \ {0}
  BY UserFsAssumption, DivMod
<1>2. m = IF L - 1 >= 1 THEN L - 1 ELSE 1
  <2> DEFINE top == IF L - 1 >= 1 THEN L - 1 ELSE 1
  <2>1. top \in {1, L - 1} /\ \A y \in {1, L - 1} : top >= y
    BY <1>1
  <2>2. m \in {1, L - 1} /\ \A y \in {1, L - 1} : m >= y
    BY <2>1 DEF Max
  <2>3. QED  BY <1>1, <2>1, <2>2
<1>3. Clear(blocks, size) <=> k < m
  BY DEF Clear
<1> HIDE DEF k, L, m
<1>4. Clear(blocks, size) <=> k = 0 \/ k < L - 1
  BY <1>1, <1>2, <1>3
<1>5. QED  BY <1>4 DEF k, L

\* A first read that stays clear of the last block copies full blocks only, and
\* steps to full blocks only, so it returns what was asked for and passes the
\* assertion at the end of read_data.
LEMMA FirstRead ==
  ASSUME NEW blocks \in Seq(Block), NEW size \in Nat, Len(blocks) \in Nat \ {0},
         \A b \in 1 .. Len(blocks) - 1 : blocks[b] = BLOCK_SIZE,
         Clear(blocks, size)
  PROVE  ReadOK(blocks, 0, size) /\ TotalRead(blocks, size) = size
<1> DEFINE L == Len(blocks)
           k == size \div BLOCK_SIZE
           r == size % BLOCK_SIZE
<1>1. BLOCK_SIZE \in Nat \ {0}
  BY UserFsAssumption
<1>2. k \in Nat /\ r \in 0 .. BLOCK_SIZE - 1 /\ size = BLOCK_SIZE * k + r
  BY <1>1, DivMod
<1>3. k = 0 \/ k < L - 1
  BY ClearIs
<1>4. k < L
  BY <1>2, <1>3
<1>5. CopiedBlocks(blocks, size) = k
  <2> HIDE DEF k, L
  <2>1. {k, L} \subseteq Nat
    BY <1>2 DEF L
  <2>2. Min({k, L}) \in {k, L} /\ Min({k, L}) <= k
    BY <2>1, MinNat
  <2>3. L \in Nat
    BY DEF L
  <2>4. Min({k, L}) = k
    BY <1>2, <1>4, <2>2, <2>3
  <2>5. QED  BY <2>4 DEF CopiedBlocks, k, L
<1> HIDE DEF k, r
<1>6. Occupied(blocks, 1, k) = BLOCK_SIZE * (k - 1 + 1)
  <2>1. \A b \in 1 .. k : blocks[b] = BLOCK_SIZE
    BY <1>2, <1>3
  <2>2. k \in Int /\ 1 <= k + 1 /\ BLOCK_SIZE \in Nat
    BY <1>1, <1>2
  <2>3. QED  BY <2>1, <2>2, OccupiedFull
<1>7. Occupied(blocks, 2, k + 1) = BLOCK_SIZE * ((k + 1) - 2 + 1)
  <2>1. \A b \in 2 .. k + 1 : blocks[b] = BLOCK_SIZE
    BY <1>2, <1>3
  <2> DEFINE j == k + 1
  <2>2. /\ j \in Int /\ 2 \in Int /\ 2 <= j + 1 /\ BLOCK_SIZE \in Nat
        /\ \A b \in 2 .. j : blocks[b] = BLOCK_SIZE
    BY <1>1, <1>2, <2>1
  <2>3. Occupied(blocks, 2, j) = BLOCK_SIZE * (j - 2 + 1)
    <3> HIDE DEF j
    <3>1. QED  BY <2>2, OccupiedFull
  <2>4. QED  BY <2>3
<1>8. k - 1 + 1 = k /\ (k + 1) - 2 + 1 = k
  BY <1>2
<1>9. TotalRead(blocks, size) = BLOCK_SIZE * k + r
  BY <1>4, <1>5, <1>6, <1>8 DEF TotalRead, r
<1>10. OffsetAfter(blocks, 0, size) = 0 + BLOCK_SIZE * k + r
  BY <1>4, <1>5, <1>7, <1>8 DEF OffsetAfter, r
<1>11. 0 + BLOCK_SIZE * k + r = BLOCK_SIZE * k + r
  BY <1>1, <1>2
<1>12. blocks # <<>>
  OBVIOUS
<1>13. ReadOK(blocks, 0, size)
  BY <1>4, <1>5, <1>9, <1>10, <1>11, <1>12 DEF ReadOK
<1>14. QED  BY <1>2, <1>9, <1>13

\* What all blocks of a file hold.
LEMMA AllBlocks ==
  ASSUME NEW blocks \in Seq(Block), Len(blocks) \in Nat \ {0},
         \A b \in 1 .. Len(blocks) - 1 : blocks[b] = BLOCK_SIZE,
         blocks[Len(blocks)] \in 0 .. BLOCK_SIZE - 1
  PROVE  Occupied(blocks, 1, Len(blocks)) =
           BLOCK_SIZE * (Len(blocks) - 1) + blocks[Len(blocks)]
<1> DEFINE L == Len(blocks)
           last == blocks[L]
<1>1. BLOCK_SIZE \in Nat /\ L \in Nat \ {0} /\ last \in Nat
  BY UserFsAssumption
<1>2. QED  BY <1>1, OccupiedLast

\* A first read of more is not clear of the last block, which is counted in the
\* offset and not, or not only, in the bytes read: it aborts, unless the only
\* block holds nothing.
LEMMA FirstReadBeyond ==
  ASSUME NEW blocks \in Seq(Block), NEW size \in Nat, Len(blocks) \in Nat \ {0},
         \A b \in 1 .. Len(blocks) - 1 : blocks[b] = BLOCK_SIZE,
         blocks[Len(blocks)] \in 0 .. BLOCK_SIZE - 1, ~Clear(blocks, size)
  PROVE  /\ ReadOK(blocks, 0, size) <=> blocks = <<0>> /\ size % BLOCK_SIZE = 0
         /\ blocks = <<0>> => TotalRead(blocks, size) = 0
         /\ blocks = <<0>> => size > 0
<1> DEFINE L == Len(blocks)
           k == size \div BLOCK_SIZE
           r == size % BLOCK_SIZE
           last == blocks[L]
           B == BLOCK_SIZE
<1>1. B \in Nat \ {0}
  BY UserFsAssumption
<1>2. k \in Nat /\ r \in 0 .. B - 1 /\ size = B * k + r
  BY <1>1, DivMod
<1>3. L \in Nat \ {0} /\ k >= 1 /\ k >= L - 1 /\ last \in 0 .. B - 1
  BY <1>2, ClearIs
<1>4. L = 1 => Occupied(blocks, 2, L) = 0
  <2>1. L = 1 => Occupied(blocks, 2, 1) = B * (1 - 2 + 1)
    BY <1>1, OccupiedFull
  <2>2. B * (1 - 2 + 1) = 0
    BY <1>1
  <2>3. QED  BY <2>1, <2>2
<1>5. L >= 2 => Occupied(blocks, 2, L) = B * (L - 2) + last
  <2> SUFFICES ASSUME L >= 2 PROVE Occupied(blocks, 2, L) = B * (L - 2) + last
    OBVIOUS
  <2>1. \A b \in 2 .. L - 1 : blocks[b] = B
    BY <1>3
  <2>2. QED  BY <1>1, <1>3, <2>1, OccupiedLast
<1>6. Occupied(blocks, 1, L) = B * (L - 1) + last
  BY AllBlocks
<1>7. Occupied(blocks, 1, L - 1) = B * (L - 1 - 1 + 1)
  <2> DEFINE j == L - 1
  <2>1. j \in Int /\ 1 \in Int /\ 1 <= j + 1 /\ \A b \in 1 .. j : blocks[b] = B
    BY <1>3
  <2>2. Occupied(blocks, 1, j) = B * (j - 1 + 1)
    <3> HIDE DEF j, L
    <3>1. QED  BY <1>1, <2>1, OccupiedFull
  <2>3. QED  BY <2>2
<1>8. CopiedBlocks(blocks, size) = IF k < L THEN k ELSE L
  <2>1. Min({k, L}) \in {k, L} /\ \A y \in {k, L} : Min({k, L}) <= y
    <3>1. {k, L} \subseteq Nat
      BY <1>2, <1>3
    <3> HIDE DEF k, L
    <3>2. QED  BY <3>1, MinNat
  <2>2. CopiedBlocks(blocks, size) = Min({k, L})
    BY DEF CopiedBlocks
  <2> HIDE DEF k, L
  <2>3. QED  BY <1>2, <1>3, <2>1, <2>2
<1>9. blocks = <<0>> <=> L = 1 /\ last = 0
  <2>1. L = 1 /\ last = 0 => blocks = <<0>>
    <3> HAVE L = 1 /\ last = 0
    <3>1. blocks = [b \in 1 .. L |-> blocks[b]]
      OBVIOUS
    <3>2. <<0>> = [b \in 1 .. 1 |-> 0]
      OBVIOUS
    <3>3. QED  BY <3>1, <3>2
  <2>2. QED  BY <2>1
<1>10. L >= 2 => B * (L - 1) = B * (L - 2) + B
  BY <1>1, <1>3
<1>11. {B * (L - 1), B * (L - 2)} \subseteq Int
  BY <1>1, <1>3
<1>12. L - 1 - 1 + 1 = L - 1 /\ L - 1 + 1 = L /\ B * (1 - 1) = 0
  BY <1>1, <1>3
<1> HIDE DEF k, r, L, last, B
<1>13. CASE k < L
  <2>1. k = L - 1 /\ L >= 2 /\ k + 1 = L
    BY <1>2, <1>3, <1>13
  <2>2. TotalRead(blocks, size) = B * (L - 1) + r
    BY <1>7, <1>8, <1>12, <1>13, <2>1 DEF TotalRead, r, L, B
  <2>3. OffsetAfter(blocks, 0, size) = 0 + (B * (L - 2) + last) + r
    BY <1>5, <1>8, <1>13, <2>1 DEF OffsetAfter, r, L, B
  <2>4. OffsetAfter(blocks, 0, size) # TotalRead(blocks, size)
    BY <1>1, <1>2, <1>3, <1>10, <1>11, <2>1, <2>2, <2>3
  <2>5. QED  BY <1>9, <2>1, <2>4 DEF ReadOK
<1>14. CASE ~(k < L)
  <2>1. TotalRead(blocks, size) = B * (L - 1) + last + 0
    BY <1>6, <1>8, <1>14 DEF TotalRead, L
  <2>2. OffsetAfter(blocks, 0, size) = 0 + Occupied(blocks, 2, L)
    BY <1>8, <1>14 DEF OffsetAfter, L
  <2>3. CopiedBlocks(blocks, size) = L /\ ~(L < L)
    BY <1>3, <1>8, <1>14
  <2>4. OffsetAfter(blocks, 0, size) = TotalRead(blocks, size) <=> L = 1 /\ last = 0
    <3>1. CASE L = 1
      BY <1>3, <1>4, <1>12, <2>1, <2>2, <3>1
    <3>2. CASE L >= 2
      BY <1>1, <1>3, <1>5, <1>10, <1>11, <2>1, <2>2, <3>2
    <3>3. QED  BY <1>3, <3>1, <3>2
  <2>5. ReadOK(blocks, 0, size) <=> blocks = <<0>> /\ r = 0
    <3>1. blocks # <<>>
      BY <1>3 DEF L
    <3>2. QED  BY <1>9, <2>3, <2>4, <3>1 DEF ReadOK, r, L
  <2>6. blocks = <<0>> => TotalRead(blocks, size) = 0
    BY <1>9, <1>12, <2>1
  <2>7. size > 0
    <3>1. B * k >= 1
      BY <1>1, <1>2, <1>3
    <3>2. B * k \in Nat
      BY <1>1, <1>2
    <3>3. QED  BY <1>1, <1>2, <3>1, <3>2
  <2>8. QED  BY <2>5, <2>6, <2>7 DEF r
<1>15. QED  BY <1>13, <1>14

\* The blocks of an open file are none, or those of a write.
LEMMA OpenBlocks ==
  ASSUME IInv, NEW d \in Opened, NEW blocks, blocks = files[view[d]].block_list,
         blocks # <<>>
  PROVE  /\ blocks \in Seq(Block) /\ Len(blocks) \in Nat \ {0}
         /\ \A b \in 1 .. Len(blocks) - 1 : blocks[b] = BLOCK_SIZE
         /\ blocks[Len(blocks)] \in 0 .. BLOCK_SIZE - 1
<1>1. view[d] \in Files /\ files[view[d]] # NULL
  BY Follow
<1>2. PICK s \in Sizes : blocks = Written(s)
  BY <1>1 DEF IInv, WrittenInv
<1>3. s \in Nat
  BY UserFsClientAssumption
<1>4. QED  BY <1>2, <1>3, WrittenBlocks

\* No call the contract allows touches freed or uninitialised memory, leaves the
\* descriptor table, or fails an assertion: a read of it returns (read_data).
THEOREM Safe == Spec => []MemorySafe
<1>1. IInv => MemorySafe
  <2> SUFFICES ASSUME IInv PROVE MemorySafe
    OBVIOUS
  <2>1. ASSUME MayOpen, NEW n \in Names
        PROVE  LookupOK(n) /\ (FindFile(n) # NULL => HoldingOK(FindFile(n)))
    <3>1. ~sealed
      BY <2>1 DEF MayOpen
    <3>2. QED  BY <2>1, <3>1, Lookup, Scan
  <2>2. MayOpen => TableOK
    BY Room
  <2>3. ~sealed => \A n \in Names : LookupOK(n)
    BY Lookup
  <2>4. ASSUME NEW d \in Opened
        PROVE  DescriptorOK(d) /\ (view[d] \in written => DeallocateOK(view[d]))
    <3>1. DescriptorOK(d) /\ view[d] \in Files /\ files[view[d]] # NULL
      BY Follow DEF IInv, TableInv
    <3>2. QED  BY <3>1 DEF IInv, WrittenInv
  <2>5. ASSUME NEW d \in Opened, NEW size \in Sizes, MayRead(d, size)
        PROVE  ReadOK(files[view[d]].block_list, 0, size)
    <3> DEFINE blocks == files[view[d]].block_list
    <3>1. Clear(blocks, size) /\ size \in Nat
      BY <2>5, UserFsClientAssumption DEF MayRead
    <3>2. blocks # <<>>
      BY <2>4, <2>5 DEF MayRead, DeallocateOK
    <3>3. /\ blocks \in Seq(Block) /\ Len(blocks) \in Nat \ {0}
          /\ \A b \in 1 .. Len(blocks) - 1 : blocks[b] = BLOCK_SIZE
      BY <3>2, OpenBlocks
    <3> HIDE DEF blocks
    <3>4. ReadOK(blocks, 0, size)
      BY <3>1, <3>3, FirstRead
    <3>5. QED  BY <3>4 DEF blocks
  <2>6. QED  BY <2>1, <2>2, <2>3, <2>4, <2>5 DEF MemorySafe
<1>2. QED  BY <1>1, Inductive, PTL

\* Which reads from offset 0 return, and what they return (ufs_read, read_data,
\* file_size): of any size, from a file of any number of blocks.
THEOREM FirstReadsKnown == Spec => []FirstReads
<1>1. IInv => FirstReads
  <2> SUFFICES ASSUME IInv, NEW d \in Opened, NEW size \in Lengths,
                      NEW blocks, blocks = files[view[d]].block_list, blocks # <<>>,
                      NEW got, got = TotalRead(blocks, size)
               PROVE  /\ ReadOK(blocks, 0, size) <=>
                           \/ Clear(blocks, size)
                           \/ blocks = <<0>> /\ size % BLOCK_SIZE = 0
                      /\ ReadOK(blocks, 0, size) =>
                           /\ size <= FileSize(view[d]) => got = size
                           /\ got > FileSize(view[d]) => Len(blocks) = 1
    BY DEF FirstReads
  <2>1. /\ blocks \in Seq(Block) /\ Len(blocks) \in Nat \ {0}
        /\ \A b \in 1 .. Len(blocks) - 1 : blocks[b] = BLOCK_SIZE
        /\ blocks[Len(blocks)] \in 0 .. BLOCK_SIZE - 1
    BY OpenBlocks
  <2>2. size \in Nat
    BY UserFsClientAssumption
  <2> DEFINE L == Len(blocks)
             last == blocks[L]
             holds == FileSize(view[d])
  <2>3. holds = BLOCK_SIZE * (L - 1) + last
    <3>1. holds = Occupied(blocks, 1, L)
      BY DEF FileSize
    <3>2. QED  BY <2>1, <3>1, AllBlocks
  <2>4. CASE Clear(blocks, size)
    <3>1. ReadOK(blocks, 0, size) /\ got = size
      BY <2>1, <2>2, <2>4, FirstRead
    <3>2. L # 1 => size <= holds
      <4> SUFFICES ASSUME L # 1 PROVE size <= holds
        OBVIOUS
      <4> DEFINE k == size \div BLOCK_SIZE
                 r == size % BLOCK_SIZE
                 B == BLOCK_SIZE
      <4>1. B \in Nat \ {0}
        BY UserFsAssumption
      <4>2. k \in Nat /\ r \in 0 .. B - 1 /\ size = B * k + r
        BY <2>2, <4>1, DivMod
      <4>3. L \in Nat /\ L >= 2 /\ k + 1 <= L - 1
        <5>1. k = 0 \/ k < L - 1
          BY <2>1, <2>2, <2>4, ClearIs
        <5>2. L \in Nat \ {0}
          BY <2>1
        <5> HIDE DEF k, L
        <5>3. QED  BY <4>2, <5>1, <5>2
      <4>4. last \in Nat
        BY <2>1, <4>1
      <4> HIDE DEF k, r, B, L, last, holds
      <4>5. B * (k + 1) <= B * (L - 1)
        <5>1. \A x, y \in Nat : x <= y => B * x <= B * y
          BY <4>1
        <5>2. QED  BY <4>2, <4>3, <5>1
      <4>6. B * (k + 1) = B * k + B
        BY <4>1, <4>2
      <4>7. B * k \in Nat /\ B * (L - 1) \in Nat
        BY <4>1, <4>2, <4>3
      <4>8. holds = B * (L - 1) + last
        BY <2>3 DEF B
      <4>9. QED  BY <4>1, <4>2, <4>4, <4>5, <4>6, <4>7, <4>8
    <3>3. holds \in Nat
      <4>1. BLOCK_SIZE \in Nat /\ L - 1 \in Nat /\ last \in Nat
        BY <2>1, UserFsAssumption
      <4> HIDE DEF L, last, holds
      <4>2. QED  BY <2>3, <4>1
    <3> HIDE DEF holds, L
    <3>4. got > holds => L = 1
      BY <2>2, <3>1, <3>2, <3>3
    <3>5. QED  BY <2>4, <3>1, <3>4 DEF holds, L
  <2>5. CASE ~Clear(blocks, size)
    <3>1. /\ ReadOK(blocks, 0, size) <=> blocks = <<0>> /\ size % BLOCK_SIZE = 0
          /\ blocks = <<0>> => got = 0 /\ size > 0
      BY <2>1, <2>2, <2>5, FirstReadBeyond
    <3>2. blocks = <<0>> => holds = 0
      <4>1. blocks = <<0>> => L - 1 = 0 /\ last = 0
        OBVIOUS
      <4>2. BLOCK_SIZE * 0 + 0 = 0
        BY UserFsAssumption
      <4> HIDE DEF holds, L, last
      <4>3. QED  BY <2>3, <4>1, <4>2
    <3> HIDE DEF holds
    <3>3. blocks = <<0>> => ~(size <= holds) /\ ~(got > holds)
      BY <2>2, <3>1, <3>2
    <3>4. QED  BY <2>5, <3>1, <3>3 DEF holds
  <2>6. QED  BY <2>4, <2>5
<1>2. QED  BY <1>1, Inductive, PTL

-----------------------------------------------------------------------------
(* The code implements the flat file system.                               *)

\* The variables of the flat file system, mapped.
Bar == <<Directory, OpenFiles, Content>>

\* Open descriptor numbers lead to what the client opened.
LEMMA OpenIsView ==
  IInv => OpenFiles = view /\ view \in [Slots -> Files \cup {NULL}]
<1> SUFFICES ASSUME IInv PROVE OpenFiles = view /\ view \in [Slots -> Files \cup {NULL}]
  OBVIOUS
<1>1. view \in [Slots -> Files \cup {NULL}]
  BY DEF IInv, TypeOK
<1>2. \A d \in Slots : OpenFiles[d] = view[d]
  <2> SUFFICES ASSUME NEW d \in Slots PROVE OpenFiles[d] = view[d]
    OBVIOUS
  <2>1. view[d] # NULL => Desc(d).file = view[d]
    BY DEF IInv, TableInv, Opened
  <2>2. QED  BY <2>1 DEF OpenFiles
<1>3. QED  BY <1>1, <1>2 DEF OpenFiles

\* The flat file system counts the same descriptors.
LEMMA OpenedIs == ASSUME IInv, NEW f \in Files PROVE Flat!Opened(f) = OpenedFor(f)
BY OpenIsView, UserFsAssumption DEF Flat!Opened, OpenedFor, Opened

\* A name that leads to a file leads to no other.
LEMMA DirectoryIs ==
  ASSUME IInv, NEW n \in Names
  PROVE  IF WithName(n) = {} THEN Directory[n] = NULL
         ELSE /\ WithName(n) = {Directory[n]} /\ Directory[n] # NULL
              /\ Directory[n] \in Files
<1>1. CASE WithName(n) = {}
  BY <1>1 DEF Directory
<1>2. CASE WithName(n) # {}
  <2>1. PICK f \in WithName(n) : Directory[n] = f
    BY <1>2 DEF Directory, Only
  <2>2. WithName(n) = {f}
    BY <2>1, UserFsAssumption DEF WithName, IInv, UniqueNames
  <2>3. f \in Files /\ f # NULL
    BY <2>1, UserFsAssumption DEF WithName
  <2>4. QED  BY <2>1, <2>2, <2>3
<1>3. QED  BY <1>1, <1>2

\* The only member of a singleton.
LEMMA Singleton == ASSUME NEW f PROVE Only({f}) = f
BY DEF Only

\* A step that leaves names and blocks alone leaves the directory and the
\* contents alone.
LEMMA SameContent ==
  ASSUME \A f \in Files : files'[f] = NULL <=> files[f] = NULL,
         \A f \in Files : files[f] # NULL => files'[f].block_list = files[f].block_list
  PROVE  Content' = Content
<1>1. \A f \in Files : Content'[f] = Content[f]
  BY DEF Content, FileSize
<1>2. QED  BY <1>1 DEF Content

\* A step that leaves names alone leaves the directory alone.
LEMMA SameDirectory ==
  ASSUME \A n \in Names : WithName(n)' = WithName(n)
  PROVE  Directory' = Directory
BY DEF Directory

\* A file that has never been written to is empty.
LEMMA EmptyContent == Occupied(<<>>, 1, Len(<<>>)) = 0
<1>1. Len(<<>>) = 0 /\ 0 \in Int /\ 1 \in Int /\ 1 <= 0 + 1 /\ 0 \in Nat
  OBVIOUS
<1>2. \A b \in 1 .. 0 : <<>>[b] = 0
  OBVIOUS
<1>3. Occupied(<<>>, 1, 0) = 0 * (0 - 1 + 1)
  BY <1>1, <1>2, OccupiedFull
<1>4. QED  BY <1>1, <1>3

\* Each call that is not a stutter, and its step of the flat file system.
LEMMA CreatesFlat ==
  ASSUME IInv, IInv', MayOpen, NEW n \in Names, NEW mode \in OpenModes, NEW x \in Fds,
         NEW f \in Files, Creates(n, mode, f, x)
  PROVE  \E d \in Slots : Flat!Create(n, f, d)
<1>0. PICK c : c = file_descriptor_count
  OBVIOUS
<1> DEFINE new == [name |-> n, refs |-> 1, block_list |-> <<>>]
<1>1. /\ files[f] = NULL /\ files' = [files EXCEPT ![f] = new]
      /\ view' = [view EXCEPT ![c] = f] /\ FindFile(n) = NULL /\ ~sealed
  BY <1>0 DEF Creates, OpenCreate, Given, MayOpen
<1>2. /\ files'[f] = new /\ new # NULL /\ \A g \in Files : g # f => files'[g] = files[g]
  <2>1. files \in [Files -> File \cup {NULL}]
    BY DEF IInv, TypeOK
  <2>2. new \in File
    <3>1. <<>> \in Seq(Block)
      OBVIOUS
    <3>2. QED  BY <3>1 DEF File
  <2> HIDE DEF new
  <2>3. QED  BY <1>1, <2>1, <2>2, UserFsAssumption
<1>3. c \in Slots /\ view[c] = NULL
  BY <1>0, Room
<1>4. OpenFiles = view /\ OpenFiles' = view'
  <2>1. IInv' => (OpenFiles = view)'
    BY OpenIsView, PTL
  <2>2. QED  BY <2>1, OpenIsView
<1>5. Directory[n] = NULL /\ WithName(n) = {}
  BY <1>1, Lookup DEF Directory
<1>6. Flat!Opened(f) = {}
  BY <1>1, OpenedIs DEF IInv, RefsExact
<1>7. WithName(n)' = {f} /\ \A m \in Names : m # n => WithName(m)' = WithName(m)
  BY <1>1, <1>2, <1>5 DEF WithName
<1>8. Directory' = [Directory EXCEPT ![n] = f]
  <2>1. Directory'[n] = f
    BY <1>7, Singleton DEF Directory
  <2>2. \A m \in Names : m # n => Directory'[m] = Directory[m]
    BY <1>7 DEF Directory
  <2>3. QED  BY <2>1, <2>2 DEF Directory
<1>9. Content' = Content
  <2>1. Content'[f] = 0 /\ Content[f] = 0
    BY <1>1, <1>2, EmptyContent DEF Content, FileSize
  <2>2. \A g \in Files : g # f => Content'[g] = Content[g]
    BY <1>2 DEF Content, FileSize
  <2>3. QED  BY <2>1, <2>2 DEF Content
<1>10. QED  BY <1>1, <1>3, <1>4, <1>5, <1>6, <1>8, <1>9 DEF Flat!Create

\* ufs_open of a file there is.
LEMMA OpensFlat ==
  ASSUME IInv, IInv', MayOpen, NEW n \in Names, NEW mode \in OpenModes, NEW x \in Fds,
         Opens(n, mode, x)
  PROVE  \E d \in Slots : Flat!Open(n, d)
<1>0. PICK c, f : c = file_descriptor_count /\ f = FindFile(n)
  OBVIOUS
<1> DEFINE new == [files[f] EXCEPT !.refs = @ + 1]
<1>1. /\ f # NULL /\ files' = [files EXCEPT ![f] = new]
      /\ view' = [view EXCEPT ![c] = f] /\ ~sealed
  BY <1>0 DEF Opens, OpenExisting, Given, MayOpen
<1>2. f \in Files /\ files[f] # NULL /\ files \in [Files -> File \cup {NULL}]
      /\ WithName(n) = {f}
  BY <1>0, <1>1, Lookup DEF IInv, TypeOK
<1>3. new \in File /\ new.name = files[f].name /\ new.block_list = files[f].block_list
  BY <1>2 DEF File
<1> HIDE DEF new
<1>4. /\ files'[f] = new /\ \A g \in Files : g # f => files'[g] = files[g]
      /\ new # NULL
  BY <1>1, <1>2, <1>3, UserFsAssumption
<1>5. Content' = Content
  BY <1>2, <1>3, <1>4, SameContent
<1>6. Directory' = Directory
  <2>1. \A m \in Names : WithName(m)' = WithName(m)
    BY <1>2, <1>3, <1>4 DEF WithName
  <2>2. QED  BY <2>1, SameDirectory
<1>7. Directory[n] = f
  BY <1>2, Singleton DEF Directory
<1>8. c \in Slots /\ view[c] = NULL
  BY <1>0, Room
<1>9. OpenFiles = view /\ OpenFiles' = view'
  <2>1. IInv' => (OpenFiles = view)'
    BY OpenIsView, PTL
  <2>2. QED  BY <2>1, OpenIsView
<1>10. QED  BY <1>1, <1>5, <1>6, <1>7, <1>8, <1>9 DEF Flat!Open

\* ufs_write.
LEMMA WritesFlat ==
  ASSUME IInv, IInv', NEW d \in Opened, NEW size \in Sizes, Writes(d, size)
  PROVE  Flat!Write(d)
<1>0. PICK f, blocks : f = view[d] /\ blocks = Written(size)
  OBVIOUS
<1> DEFINE new == [files[f] EXCEPT !.block_list = blocks]
<1>1. /\ f \in Files /\ files[f] \in File /\ files[f] # NULL /\ Desc(d).file = f
      /\ d \in Slots /\ f # NULL /\ files \in [Files -> File \cup {NULL}]
  BY <1>0, Follow, UserFsAssumption DEF IInv, TypeOK
<1>2. files' = [files EXCEPT ![f] = new] /\ view' = view
  BY <1>0, <1>1 DEF Writes, Write
<1>3. blocks \in Seq(Block)
  BY <1>0, WrittenBlocks, UserFsClientAssumption
<1>4. new \in File /\ new.name = files[f].name
  BY <1>1, <1>3 DEF File
<1> HIDE DEF new
<1>5. /\ files'[f] = new /\ new # NULL /\ \A g \in Files : g # f => files'[g] = files[g]
  BY <1>1, <1>2, <1>4, UserFsAssumption
<1>6. Directory' = Directory
  <2>1. \A m \in Names : WithName(m)' = WithName(m)
    BY <1>1, <1>4, <1>5 DEF WithName
  <2>2. QED  BY <2>1, SameDirectory
<1>7. OpenFiles = view /\ OpenFiles' = view'
  <2>1. IInv' => (OpenFiles = view)'
    BY OpenIsView, PTL
  <2>2. QED  BY <2>1, OpenIsView
<1>8. Content' = [Content EXCEPT ![f] = Content'[f]]
  <2>1. \A g \in Files : g # f => Content'[g] = Content[g]
    BY <1>5 DEF Content, FileSize
  <2>2. QED  BY <1>1, <2>1 DEF Content
<1>9. OpenFiles[d] = f /\ OpenFiles' = OpenFiles
  BY <1>0, <1>2, <1>7
<1>10. QED  BY <1>1, <1>6, <1>8, <1>9 DEF Flat!Write

\* ufs_close: the last descriptor of a file takes its contents with it.
LEMMA ClosesFlat ==
  ASSUME IInv, IInv', NEW d \in Opened, Closes(d)
  PROVE  Flat!Close(d)
<1>0. PICK f : f = view[d]
  OBVIOUS
<1> DEFINE last == files[f].refs = 1
           less == [files[f] EXCEPT !.refs = @ - 1]
<1>1. /\ f \in Files /\ files[f] \in File /\ files[f] # NULL /\ Desc(d).file = f
      /\ d \in Slots /\ f # NULL /\ files \in [Files -> File \cup {NULL}]
  BY <1>0, Follow, UserFsAssumption DEF IInv, TypeOK
<1>2. /\ files' = IF last THEN [files EXCEPT ![f] = NULL] ELSE [files EXCEPT ![f] = less]
      /\ view' = [view EXCEPT ![d] = NULL]
  BY <1>0, <1>1 DEF Closes, Close
<1>3. last <=> OpenedFor(f) = {d}
  <2>1. IsFiniteSet(OpenedFor(f)) /\ files[f].refs = Cardinality(OpenedFor(f))
        /\ d \in OpenedFor(f)
    BY <1>0, <1>1, Counts DEF IInv, RefsExact, OpenedFor
  <2>2. Cardinality(OpenedFor(f)) = 1 <=> \E e : OpenedFor(f) = {e}
    BY <2>1, FS_Singleton
  <2>3. QED  BY <2>1, <2>2
<1>4. /\ less \in File /\ less.name = files[f].name
      /\ less.block_list = files[f].block_list
  <2>1. files[f].refs > 0
    BY <1>1 DEF IInv, RefsExact
  <2>2. QED  BY <1>1, <2>1 DEF File
<1> HIDE DEF last, less
<1>5. /\ files'[f] = IF last THEN NULL ELSE less
      /\ less # NULL /\ \A g \in Files : g # f => files'[g] = files[g]
  BY <1>1, <1>2, <1>4, UserFsAssumption
<1>6. OpenFiles = view /\ OpenFiles' = view'
  <2>1. IInv' => (OpenFiles = view)'
    BY OpenIsView, PTL
  <2>2. QED  BY <2>1, OpenIsView
<1>7. Flat!Opened(f) = {d} <=> last
  BY <1>1, <1>3, OpenedIs
<1>8. CASE last
  <2>1. Directory' = [n \in Names |-> IF Directory[n] = f THEN NULL ELSE Directory[n]]
    <3>1. \A n \in Names : WithName(n)' = WithName(n) \ {f}
      BY <1>5, <1>8 DEF WithName
    <3>2. ASSUME NEW n \in Names
          PROVE  Directory'[n] = IF Directory[n] = f THEN NULL ELSE Directory[n]
      <4>1. CASE WithName(n) = {}
        BY <1>1, <3>1, <4>1 DEF Directory
      <4>2. CASE WithName(n) # {} /\ Directory[n] = f
        <5>1. WithName(n)' = {}
          BY <3>1, <4>2, DirectoryIs
        <5>2. QED  BY <4>2, <5>1 DEF Directory
      <4>3. CASE WithName(n) # {} /\ Directory[n] # f
        <5>1. WithName(n)' = WithName(n)
          BY <3>1, <4>3, DirectoryIs
        <5>2. QED  BY <4>3, <5>1 DEF Directory
      <4>4. QED  BY <4>1, <4>2, <4>3
    <3>3. QED  BY <3>2 DEF Directory
  <2>2. Content' = [Content EXCEPT ![f] = 0]
    <3>1. Content'[f] = 0
      BY <1>1, <1>5, <1>8 DEF Content
    <3>2. \A g \in Files : g # f => Content'[g] = Content[g]
      BY <1>5 DEF Content, FileSize
    <3>3. QED  BY <1>1, <3>1, <3>2 DEF Content
  <2>3. QED  BY <1>0, <1>1, <1>2, <1>6, <1>7, <1>8, <2>1, <2>2 DEF Flat!Close
<1>9. CASE ~last
  <2>1. Content' = Content
    BY <1>1, <1>4, <1>5, <1>9, SameContent
  <2>2. Directory' = Directory
    <3>1. \A m \in Names : WithName(m)' = WithName(m)
      BY <1>1, <1>4, <1>5, <1>9 DEF WithName
    <3>2. QED  BY <3>1, SameDirectory
  <2>3. QED  BY <1>0, <1>1, <1>2, <1>6, <1>7, <1>9, <2>1, <2>2 DEF Flat!Close
<1>10. QED  BY <1>8, <1>9

\* ufs_delete: the name goes, open files stay.
LEMMA DeletesFlat ==
  ASSUME IInv, IInv', ~sealed, NEW n \in Names, Deletes(n)
  PROVE  Flat!Unlink(n)
<1>0. PICK f : f = FindFile(n)
  OBVIOUS
<1> DEFINE new == [files[f] EXCEPT !.name = NULL]
<1>1. f # NULL /\ files' = [files EXCEPT ![f] = new] /\ view' = view
  BY <1>0 DEF Deletes, Delete
<1>2. /\ f \in Files /\ files[f] # NULL /\ files \in [Files -> File \cup {NULL}]
      /\ WithName(n) = {f} /\ files[f] \in File
  BY <1>0, <1>1, Lookup DEF IInv, TypeOK
<1>3. new \in File /\ new.name = NULL /\ new.block_list = files[f].block_list
  BY <1>2 DEF File
<1> HIDE DEF new
<1>4. /\ files'[f] = new /\ new # NULL /\ \A g \in Files : g # f => files'[g] = files[g]
  BY <1>1, <1>2, <1>3, UserFsAssumption
<1>5. Content' = Content
  BY <1>2, <1>3, <1>4, SameContent
<1>6. WithName(n)' = {} /\ \A m \in Names : m # n => WithName(m)' = WithName(m)
  BY <1>2, <1>3, <1>4, UserFsAssumption DEF WithName
<1>7. Directory' = [Directory EXCEPT ![n] = NULL]
  <2>1. Directory'[n] = NULL
    BY <1>6 DEF Directory
  <2>2. \A m \in Names : m # n => Directory'[m] = Directory[m]
    BY <1>6 DEF Directory
  <2>3. QED  BY <2>1, <2>2 DEF Directory
<1>8. Directory[n] # NULL
  BY <1>2, DirectoryIs
<1>9. OpenFiles' = OpenFiles
  <2>1. IInv' => (OpenFiles = view)'
    BY OpenIsView, PTL
  <2>2. QED  BY <1>1, <2>1, OpenIsView
<1>10. QED  BY <1>5, <1>7, <1>8, <1>9 DEF Flat!Unlink

\* Calls that fail, reads and refused calls.
LEMMA SameBar ==
  ASSUME IInv, IInv', UNCHANGED <<files, view>>
  PROVE  UNCHANGED Bar
<1>1. OpenFiles' = OpenFiles
  <2>1. IInv' => (OpenFiles = view)'
    BY OpenIsView, PTL
  <2>2. QED  BY <2>1, OpenIsView
<1>2. Directory' = Directory
  <2>1. \A m \in Names : WithName(m)' = WithName(m)
    BY DEF WithName
  <2>2. QED  BY <2>1, SameDirectory
<1>3. Content' = Content
  BY SameContent
<1>4. QED  BY <1>1, <1>2, <1>3 DEF Bar

\* Nothing is there at first.
LEMMA InitFlat == Init => Flat!Init
<1> SUFFICES ASSUME Init PROVE Flat!Init
  OBVIOUS
<1>1. files = [f \in Files |-> NULL] /\ view = [d \in Slots |-> NULL]
  BY DEF Init, FsInit
<1>2. OpenFiles = [d \in Slots |-> NULL] /\ Content = [f \in Files |-> 0]
  BY <1>1 DEF OpenFiles, Content
<1>3. Directory = [n \in Names |-> NULL]
  <2>1. \A n \in Names : WithName(n) = {}
    BY <1>1 DEF WithName
  <2>2. QED  BY <2>1 DEF Directory
<1>4. QED  BY <1>2, <1>3 DEF Flat!Init

\* Every step is a step of the flat file system, or none.
LEMMA StepFlat == IInv /\ IInv' /\ [Next]_vars => [Flat!Next]_Bar
<1> SUFFICES ASSUME IInv, IInv', [Next]_vars PROVE [Flat!Next]_Bar
  OBVIOUS
<1>1. CASE Next
  <2>1. ASSUME MayOpen, NEW n \in Names, NEW mode \in OpenModes, NEW x \in Fds,
               NEW f \in Files, Creates(n, mode, f, x)
        PROVE  Flat!Next
    BY <2>1, CreatesFlat DEF Flat!Next
  <2>2. ASSUME MayOpen, NEW n \in Names, NEW mode \in OpenModes, NEW x \in Fds,
               Opens(n, mode, x)
        PROVE  Flat!Next
    BY <2>2, OpensFlat DEF Flat!Next
  <2>3. ASSUME NEW n \in Names, OpenFails(n) PROVE UNCHANGED Bar
    <3>1. UNCHANGED <<files, view>>
      BY <2>3 DEF OpenFails, OpenCreateExists, OpenMissing, Fail
    <3>2. QED  BY <3>1, SameBar
  <2>4. ASSUME NEW d \in Opened, NEW size \in Sizes, Writes(d, size) PROVE Flat!Next
    BY <2>4, WritesFlat DEF Flat!Next, Opened
  <2>5. ASSUME NEW d \in Opened, NEW size \in Sizes, Reads(d, size) PROVE UNCHANGED Bar
    <3>1. UNCHANGED <<files, view>>
      BY <2>5 DEF Reads, Read
    <3>2. QED  BY <3>1, SameBar
  <2>6. ASSUME NEW d \in Opened, IsRefused(d) PROVE UNCHANGED Bar
    <3>1. UNCHANGED <<files, view>>
      BY <2>6 DEF IsRefused, Refused, Fail
    <3>2. QED  BY <3>1, SameBar
  <2>7. ASSUME NEW d \in Opened, Closes(d) PROVE Flat!Next
    BY <2>7, ClosesFlat DEF Flat!Next, Opened
  <2>8. ASSUME ~sealed, NEW n \in Names, Deletes(n) PROVE Flat!Next
    BY <2>8, DeletesFlat DEF Flat!Next
  <2>9. QED  BY <1>1, <2>1, <2>2, <2>3, <2>4, <2>5, <2>6, <2>7, <2>8 DEF Next
<1>2. CASE UNCHANGED vars
  <2>1. UNCHANGED <<files, view>>
    BY <1>2 DEF vars, fsVars
  <2>2. QED  BY <2>1, SameBar
<1>3. QED  BY <1>1, <1>2

\* The code implements the flat file system: each call is one of its steps, or
\* leaves directory, open files and contents alone.
THEOREM Implements == Spec => FlatFileSystem
<1>1. IInv /\ IInv' /\ [Next]_vars => [Flat!Next]_Flat!vars
  BY StepFlat DEF Bar, Flat!vars
<1>2. QED  BY <1>1, InitFlat, Inductive, PTL DEF Spec, FlatFileSystem, Flat!Spec
=============================================================================
