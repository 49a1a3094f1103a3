------------------------- MODULE GrowingArrayProofs -------------------------
(***************************************************************************)
(* Proofs about the growing array, for an int of any even number of values *)
(* and elements of any kind.                                               *)
(***************************************************************************)
EXTENDS GrowingArray, TLAPS

\* Doubling grows the block only if the array is not of capacity 0.
Inv == TypeOK /\ BlockSound /\ (state = "live" => capacity > 0)

-----------------------------------------------------------------------------
\* The int is the true double as long as it is not negative.
LEMMA NewCapDoubles ==
  ASSUME Inv
  PROVE  NewCap = 2 * capacity
<1>1. capacity \in Nat /\ 2 * capacity < INT
  BY GrowingArrayAssumption DEF Inv, TypeOK
<1>2. \A a \in Nat : a < INT => a % INT = a
  BY GrowingArrayAssumption
<1>3. QED  BY <1>1, <1>2 DEF NewCap

\* The initial state and, below, every step satisfy Inv.
LEMMA InitInv == Init => Inv
BY GrowingArrayAssumption DEF Init, Inv, TypeOK, BlockSound

\* A write at the end of a block that holds the old elements and has room.
LEMMA PutKeeps ==
  ASSUME Inv, NEW block \in Seq(Elements \cup {JUNK}), NEW x \in Elements,
         NEW cap \in 0 .. INT \div 2 - 1, Put(block, cap, x),
         Len(block) = cap, size < cap, capacity <= cap,
         \A i \in 1 .. capacity : block[i] = buf[i],
         \A i \in 1 .. cap : i > capacity => block[i] = JUNK
  PROVE  Inv' /\ List' = Append(List, x)
<1> USE GrowingArrayAssumption DEF Inv, TypeOK, BlockSound, Put
<1>1. /\ buf' \in Seq(Elements \cup {JUNK}) /\ Len(buf') = cap
      /\ buf'[size + 1] = x
      /\ \A i \in 1 .. cap : i # size + 1 => buf'[i] = block[i]
  OBVIOUS
<1>2. Inv'
  BY <1>1
<1>3. List' = Append(List, x)
  <2>1. List' = [i \in 1 .. size + 1 |-> buf'[i]]
    BY <1>1 DEF List
  <2>2. List = [i \in 1 .. size |-> buf[i]]
    BY DEF List
  <2>3. Append(List, x) = [i \in 1 .. size + 1 |->
                             IF i = size + 1 THEN x ELSE buf[i]]
    BY <2>2
  <2>4. QED  BY <1>1, <2>1, <2>3
<1>4. QED  BY <1>2, <1>3

\* What KeepsElements says of a step that is not a stutter.
Kept ==
  state' \in {"live", "stopped"} /\ state = "live" =>
    \/ List' = List
    \/ \E x \in Elements : List' = Append(List, x)
    \/ \E i, j \in 1 .. size :
         List' = [List EXCEPT ![i] = List[j], ![j] = List[i]]

\* A swap inside the first size elements swaps two elements of the list.
LEMMA SortKeeps == Inv /\ ArraySort => Inv' /\ Kept
<1> SUFFICES ASSUME Inv, state = "live", size > 0,
                    NEW i \in 1 .. size, NEW j \in 1 .. size,
                    buf' = Swapped(i, j), UNCHANGED <<capacity, size, state>>
             PROVE  Inv' /\ List' = [List EXCEPT ![i] = List[j], ![j] = List[i]]
  BY DEF ArraySort, SwapUpTo, Kept
<1> USE GrowingArrayAssumption DEF Inv, TypeOK, BlockSound
<1>1. /\ buf' \in Seq(Elements \cup {JUNK}) /\ Len(buf') = capacity
      /\ \A k \in 1 .. capacity :
           buf'[k] = IF k = j THEN buf[i] ELSE IF k = i THEN buf[j] ELSE buf[k]
  BY DEF Swapped
<1>2. Inv'
  BY <1>1
<1>3. List' = [k \in 1 .. size |-> buf'[k]] /\ List = [k \in 1 .. size |-> buf[k]]
  BY <1>1 DEF List
<1>4. DOMAIN List = 1 .. size /\ \A k \in 1 .. size : List[k] = buf[k]
  BY <1>3
<1>5. [List EXCEPT ![i] = List[j], ![j] = List[i]]
        = [k \in 1 .. size |-> IF k = j THEN List[i]
                              ELSE IF k = i THEN List[j] ELSE List[k]]
  BY <1>3, <1>4
<1>6. \A k \in 1 .. size :
        buf'[k] = IF k = j THEN List[i] ELSE IF k = i THEN List[j] ELSE List[k]
  BY <1>1, <1>4
<1>7. List' = [List EXCEPT ![i] = List[j], ![j] = List[i]]
  BY <1>3, <1>5, <1>6
<1>8. QED  BY <1>2, <1>7

\* One case per call and outcome.
LEMMA StepKeeps == Inv /\ Next => Inv' /\ Kept
<1> SUFFICES ASSUME Inv, Next PROVE Inv' /\ Kept
  OBVIOUS
<1> USE GrowingArrayAssumption
<1>1. ASSUME NEW n \in 1 .. INT \div 2 - 1, ArrayInit(n) PROVE Inv' /\ Kept
  BY <1>1 DEF ArrayInit, Block, Inv, TypeOK, BlockSound, Kept
<1>2. ASSUME NEW x \in Elements, Add(x) PROVE Inv' /\ Kept
  <2>1. Inv' /\ List' = Append(List, x)
    BY <1>2, PutKeeps DEF Add, Full, Inv, TypeOK, BlockSound
  <2>2. QED  BY <2>1 DEF Kept
<1>3. ASSUME NEW x \in Elements, AddResized(x) PROVE Inv' /\ Kept
  <2>1. NewCap = 2 * capacity /\ NewCap \in 0 .. INT \div 2 - 1
    BY <1>3, NewCapDoubles DEF AddResized, Inv, TypeOK
  <2>2. size = capacity /\ capacity > 0
    BY <1>3 DEF AddResized, Full, Put, Inv, TypeOK, BlockSound
  <2>3. /\ Copied(NewCap) \in Seq(Elements \cup {JUNK})
        /\ Len(Copied(NewCap)) = NewCap
        /\ \A i \in 1 .. NewCap :
             Copied(NewCap)[i] = IF i <= capacity THEN buf[i] ELSE JUNK
    BY <2>1 DEF Copied, Inv, TypeOK, BlockSound
  <2>4. Inv' /\ List' = Append(List, x)
    BY <1>3, <2>1, <2>2, <2>3, PutKeeps DEF AddResized, Inv, TypeOK
  <2>5. QED  BY <2>4 DEF Kept
<1>4. CASE ArrayInitFails
  BY <1>4 DEF ArrayInitFails, MallocFails, Inv, TypeOK, BlockSound, Kept
<1>5. CASE AddFails
  BY <1>5 DEF AddFails, MallocFails, Inv, TypeOK, BlockSound, Kept, List
<1>6. CASE ArrayFree
  BY <1>6 DEF ArrayFree, Inv, TypeOK, BlockSound, Kept
<1>7. CASE ArraySort
  BY <1>7, SortKeeps
<1>8. QED
  BY <1>1, <1>2, <1>3, <1>4, <1>5, <1>6, <1>7 DEF Next

\* Every call keeps the invariant.
LEMMA NextInv == Inv /\ [Next]_vars => Inv'
BY StepKeeps DEF vars, Inv, TypeOK, BlockSound

-----------------------------------------------------------------------------
\* No add, resize, sort or failure leaves the block or an unwritten element
\* among the first size ones, whatever the width of int.
THEOREM Sound == Spec => [](TypeOK /\ BlockSound)
<1>1. Inv => TypeOK /\ BlockSound
  BY DEF Inv
<1>2. QED  BY <1>1, InitInv, NextInv, PTL DEF Spec

\* Every variable has values of its kind; twice the capacity is an int.
THEOREM Typed == Spec => []TypeOK
BY Sound, PTL

\* The elements of an array that is not freed are kept by every step.
THEOREM Keeps == Spec => KeepsElements
<1>1. Inv /\ [Next]_vars => [Kept]_vars
  BY StepKeeps
<1>2. QED  BY <1>1, InitInv, NextInv, PTL DEF Spec, KeepsElements, Kept
=============================================================================
