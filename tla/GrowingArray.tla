---------------------------- MODULE GrowingArray ----------------------------
(***************************************************************************)
(* array_int of src/array/array.c: an array of int that doubles when it is *)
(* full.  The new capacity is computed in an int and passed to malloc as a *)
(* size_t: half way up the range of int it turns negative, malloc fails    *)
(* and memcpy writes through NULL before the assertion can tell.           *)
(*                                                                         *)
(* The code checks none of the caller's duties; the actions are guarded by *)
(* them: the first capacity is positive and an int, nothing is added after *)
(* array_free, and an empty array is not sorted (size - 1 would wrap).     *)
(***************************************************************************)
EXTENDS Integers, Sequences

CONSTANTS
  Elements,  \* what the caller adds
  JUNK,      \* what fresh memory holds
  INT        \* the number of values of an int (2^32)

ASSUME GrowingArrayAssumption ==
  INT \in Nat \ {0} /\ INT % 2 = 0 /\ JUNK \notin Elements

VARIABLES
  buf,             \* the allocated block, as long as malloc was asked for
  capacity, size,
  state            \* of the caller's array: "fresh", "live", "freed", or
                   \* "stopped" with the process, by an assertion or a crash

vars == <<buf, capacity, size, state>>

Init == buf = <<>> /\ capacity = 0 /\ size = 0 /\ state = "fresh"

-----------------------------------------------------------------------------
Block(n) == [i \in 1 .. n |-> JUNK]

\* Mutant: size is not set, and a new struct has whatever was in its place.
ArrayInitNoSize(n) ==
  /\ state \in {"fresh", "freed"} /\ n \in 1 .. INT \div 2 - 1
  /\ buf' = Block(n) /\ capacity' = n /\ state' = "live"
  /\ size' = IF state = "fresh" THEN JUNK ELSE size

ArrayInit(n) ==
  /\ state \in {"fresh", "freed"} /\ n \in 1 .. INT \div 2 - 1
  /\ buf' = Block(n) /\ capacity' = n /\ size' = 0 /\ state' = "live"

\* malloc may fail in array_init and in array_resize; either ends the process.
MallocFails == state' = "stopped" /\ UNCHANGED <<buf, capacity, size>>
ArrayInitFails == state \in {"fresh", "freed"} /\ MallocFails

\* new_cap as an unsigned residue: from INT \div 2 on the int is negative.
NewCap == (2 * capacity) % INT
Copied(n) == [i \in 1 .. n |-> IF i <= capacity THEN buf[i] ELSE JUNK]

Full == size + 1 > capacity

\* The write at the end, in a block of cap elements.
Put(block, cap, x) ==
  /\ state = "live"
  /\ buf' = [block EXCEPT ![size + 1] = x]
  /\ size' = size + 1 /\ capacity' = cap /\ UNCHANGED state

\* Mutant: what was in the old block is not copied.
AddForgets(x) == Full /\ NewCap < INT \div 2 /\ Put(Block(NewCap), NewCap, x)

\* array_add where there is room, and where array_resize makes it.
Add(x) == ~Full /\ Put(buf, capacity, x)
AddResized(x) == Full /\ NewCap < INT \div 2 /\ Put(Copied(NewCap), NewCap, x)
AddFails == state = "live" /\ Full /\ MallocFails

ArrayFree ==
  /\ state = "live"
  /\ buf' = <<>> /\ capacity' = 0 /\ size' = 0 /\ state' = "freed"

\* array_sort: the caller's function swaps elements from 0 to size - 1.
Swapped(i, j) == [buf EXCEPT ![i] = buf[j], ![j] = buf[i]]
SwapUpTo(n) ==
  /\ state = "live" /\ size > 0
  /\ \E i, j \in 1 .. n : buf' = Swapped(i, j)
  /\ UNCHANGED <<capacity, size, state>>
SortPastEnd == size < capacity /\ SwapUpTo(size + 1)   \* Mutant: fun gets size.
ArraySort == SwapUpTo(size)

Next ==
  \/ \E n \in 1 .. INT \div 2 - 1 : ArrayInit(n)
  \/ \E x \in Elements : Add(x) \/ AddResized(x)
  \/ ArrayInitFails \/ AddFails \/ ArrayFree \/ ArraySort

Spec == Init /\ [][Next]_vars

-----------------------------------------------------------------------------
\* Every variable has values of its kind.
TypeOK ==
  /\ capacity \in 0 .. INT \div 2 - 1 /\ size \in Nat
  /\ buf \in Seq(Elements \cup {JUNK})
  /\ state \in {"fresh", "live", "freed", "stopped"}

\* The block is as long as capacity says and its first size elements, these
\* only, have been written: no add leaves the block or is lost with the old one.
BlockSound ==
  /\ Len(buf) = capacity /\ size <= capacity
  /\ \A i \in 1 .. capacity : buf[i] = JUNK <=> i > size

\* An array that is not freed loses and changes nothing it holds: a step leaves
\* the elements in place, adds one at the end, or swaps two.
List == SubSeq(buf, 1, size)
KeepsElements ==
  [][state' \in {"live", "stopped"} /\ state = "live" =>
       \/ List' = List
       \/ \E x \in Elements : List' = Append(List, x)
       \/ \E i, j \in 1 .. size :
            List' = [List EXCEPT ![i] = List[j], ![j] = List[i]]]_vars
=============================================================================
