--------------------------- MODULE DupStackProofs ---------------------------
(***************************************************************************)
(* Proofs about dup2_impl (DupStack), for any number of descriptors, any   *)
(* capacity of the stack, and whatever is open when it is called.          *)
(***************************************************************************)
EXTENDS DupStack, SequenceTheorems, WellFoundedInduction, TLAPS

\* Every nonempty set of natural numbers has a least element.
LEMMA NatMin ==
  ASSUME NEW T, T \subseteq Nat, T # {}
  PROVE  \E x \in T : \A y \in T : x <= y
<1> DEFINE R == {ss \in Nat \X Nat : ss[1] < ss[2]}
<1>1. IsWellFoundedOn(R, Nat)
  BY NatLessThanWellFounded DEF OpToRel
<1> HIDE DEF R
<1>2. PICK x \in T : \A y \in T : <<y, x>> \notin R
  BY <1>1, WFMin
<1>3. \A y \in Nat : y < x => <<y, x>> \in R
  BY DEF R
<1>4. ASSUME NEW y \in T PROVE x <= y
  <2>1. x \in Nat /\ y \in Nat /\ ~(y < x)
    BY <1>2, <1>3
  <2>2. QED  BY <2>1
<1>5. QED  BY <1>4


\* dup returns the lowest number that is free.
LEMMA LowestFree ==
  ASSUME Free # {}
  PROVE  /\ Min(Free) \in Numbers /\ fds[Min(Free)] = NULL
         /\ \A d \in Numbers : d < Min(Free) => fds[d] # NULL
<1>1. Free \subseteq Nat
  BY DEF Free, Numbers
<1>2. \E m \in Free : \A d \in Free : m <= d
  BY <1>1, NatMin
<1>3. Min(Free) \in Free /\ \A d \in Free : Min(Free) <= d
  BY <1>2 DEF Min
<1>4. ASSUME NEW d \in Numbers, d < Min(Free), fds[d] = NULL PROVE FALSE
  <2>1. d \in Free
    BY <1>4 DEF Free
  <2>2. Min(Free) <= d /\ d \in Nat /\ Min(Free) \in Nat
    BY <1>1, <1>3, <2>1
  <2>3. QED  BY <1>4, <2>2
<1>5. QED  BY <1>3, <1>4 DEF Free

\* The numbers, and the items of the stack, are natural numbers.
LEMMA DataFacts ==
  ASSUME TypeOK
  PROVE  /\ Numbers \subseteq Nat /\ Len(data) \in Nat
         /\ DOMAIN data = 1 .. Len(data)
         /\ \A i \in DOMAIN data : data[i] \in Numbers /\ i \in Nat
         /\ size \in Nat /\ size <= Len(data)
         /\ NULL \notin Numbers /\ -1 \notin Numbers
<1>1. data \in Seq(Numbers)
  BY DEF TypeOK
<1>2. Len(data) \in Nat /\ DOMAIN data = 1 .. Len(data)
  BY <1>1, LenProperties
<1>3. \A i \in 1 .. Len(data) : data[i] \in Numbers
  BY <1>1, ElementOfSeq
<1>4. QED  BY <1>2, <1>3, DupStackAssumption DEF TypeOK, Numbers

\* It holds when dup2_impl is called.
LEMMA InitInv == Init => IInv
<1> SUFFICES ASSUME Init PROVE IInv
  OBVIOUS
<1> USE DupStackAssumption
<1>1. /\ data = <<>> /\ size = 0 /\ ret = -1 /\ at = "start" /\ fds = before
      /\ oldfd \in Numbers \cup {-1} /\ newfd \in Numbers \cup {-1}
      /\ newfd < CAPACITY
      /\ before \in [Numbers -> Numbers \cup {NULL}]
  BY DEF Init
<1>2. <<>> \in Seq(Numbers) /\ Len(<<>>) = 0 /\ DOMAIN <<>> = {}
  BY EmptySeq
<1>3. TypeOK
  BY <1>1, <1>2 DEF TypeOK
<1>4. QED
  BY <1>1, <1>2, <1>3 DEF IInv, CallInv, DataInv, LoopInv, DamageBounded

-----------------------------------------------------------------------------
(* The steps.                                                              *)

\* The returns before anything is closed.
LEMMA EarlyInv ==
  ASSUME IInv, Refuse \/ Same \/ ProbeFails
  PROVE  IInv'
<1> USE DupStackAssumption
<1>1. TypeOK /\ CallInv /\ at = "start"
  BY DEF IInv, Refuse, Same, ProbeFails, Probes
<1>2. /\ at' = "done" /\ fds' = fds /\ data' = data /\ size' = size
      /\ oldfd' = oldfd /\ newfd' = newfd /\ before' = before
      /\ ret' = -1 \/ (ret' = newfd /\ newfd >= 0 /\ oldfd = newfd)
  BY DEF Refuse, Same, ProbeFails, Return, args
<1>3. data = <<>> /\ fds = before
  BY <1>1 DEF CallInv
<1>4. TypeOK'
  BY <1>1, <1>2 DEF TypeOK
<1>5. CallInv' /\ LoopInv'
  BY <1>1, <1>2 DEF CallInv, LoopInv
<1>6. DataInv'
  BY <1>2, <1>3 DEF DataInv
<1>7. DamageBounded'
  <2>1. CASE ret' = -1
    BY <1>2, <1>3, <2>1 DEF DamageBounded
  <2>2. CASE ret' # -1
    <3>1. \A d \in Numbers : fds'[d] = Wanted(d)'
      BY <1>2, <1>3, <2>2 DEF Wanted
    <3>2. -1 \notin Numbers
      BY <1>1, DataFacts
    <3>3. QED  BY <1>2, <1>3, <2>2, <3>1, <3>2 DEF DamageBounded
  <2>3. QED  BY <2>1, <2>2
<1>8. QED  BY <1>4, <1>5, <1>6, <1>7 DEF IInv

\* The first dup succeeds, and is closed again.
LEMMA ProbeInv ==
  ASSUME IInv, Probe
  PROVE  IInv'
<1>1. TypeOK /\ CallInv /\ at = "start"
  BY DEF IInv, Probe, Probed, Probes
<1>2. /\ at' = "close" /\ fds' = fds /\ data' = data /\ size' = size
      /\ ret' = ret /\ oldfd' = oldfd /\ newfd' = newfd /\ before' = before
      /\ newfd >= 0 /\ oldfd >= 0 /\ oldfd # newfd /\ fds[oldfd] # NULL
  BY DEF Probe, Probed, Probes, CanDup, args
<1>3. data = <<>> /\ fds = before
  BY <1>1 DEF CallInv
<1>4. QED
  BY <1>1, <1>2, <1>3 DEF IInv, TypeOK, CallInv, DataInv, LoopInv, DamageBounded

\* The close of newfd.
LEMMA CloseInv ==
  ASSUME IInv, CloseNew \/ CloseFails
  PROVE  IInv'
<1> USE DupStackAssumption
<1>1. TypeOK /\ CallInv /\ at = "close"
  BY DEF IInv, CloseNew, CloseFails
<1>2. /\ fds' = Shut(newfd) /\ data' = data /\ size' = size /\ ret' = -1
      /\ oldfd' = oldfd /\ newfd' = newfd /\ before' = before
      /\ at' \in {"dup", "done"}
  BY <1>1 DEF CloseNew, CloseFails, Return, args, CallInv
<1>3. data = <<>> /\ fds = before /\ newfd \in Numbers /\ size = 0
      /\ Len(data) = 0
  BY <1>1, EmptySeq DEF CallInv, TypeOK, Numbers
<1>4. /\ fds' \in [Numbers -> Numbers \cup {NULL}]
      /\ fds'[newfd] = NULL
      /\ \A d \in Numbers \ {newfd} : fds'[d] = before[d]
  BY <1>1, <1>2, <1>3 DEF Shut, TypeOK
<1>5. TypeOK'
  BY <1>1, <1>2, <1>4 DEF TypeOK
<1>6. CallInv' /\ DataInv'
  BY <1>1, <1>2, <1>3 DEF CallInv, DataInv
<1>7. Range(data) = {}
  BY <1>3 DEF Range
<1>8. LoopInv'
  BY <1>2, <1>3, <1>4, <1>7 DEF LoopInv, Range
<1>9. DamageBounded'
  BY <1>2, <1>4 DEF DamageBounded
<1>10. QED  BY <1>5, <1>6, <1>8, <1>9 DEF IInv

\* dup returns a number above those it has returned so far, and below newfd.
LEMMA DupOtherInv ==
  ASSUME IInv, DupOther
  PROVE  IInv'
<1> USE DupStackAssumption
<1> DEFINE m == Min(Free)
           n == Len(data)
<1>1. TypeOK /\ CallInv /\ DataInv /\ LoopInv /\ at = "dup"
  BY DEF IInv, DupOther
<1>2. /\ Free # {} /\ m # newfd
      /\ fds' = [fds EXCEPT ![m] = fds[oldfd]]
      /\ size < CAPACITY /\ data' = Append(data, m) /\ size' = size + 1
      /\ oldfd' = oldfd /\ newfd' = newfd /\ before' = before
      /\ ret' = ret /\ at' = at
  BY DEF DupOther, Dup, Push, args
<1>3. /\ m \in Numbers /\ fds[m] = NULL
      /\ \A d \in Numbers : d < m => fds[d] # NULL
  BY <1>2, LowestFree
<1> HIDE DEF m
<1>4. /\ Numbers \subseteq Nat /\ n \in Nat /\ DOMAIN data = 1 .. n
      /\ \A i \in DOMAIN data : data[i] \in Numbers /\ i \in Nat
  BY <1>1, DataFacts
<1>5. /\ size = n /\ fds[newfd] = NULL
      /\ newfd \in Numbers /\ oldfd \in Numbers /\ oldfd # newfd
      /\ before[oldfd] # NULL
      /\ \A d \in Numbers \ {newfd} :
           fds[d] = IF d \in Range(data) THEN before[oldfd] ELSE before[d]
  BY <1>1, DataFacts DEF LoopInv, CallInv, TypeOK
<1>6. m < newfd
  BY <1>2, <1>3, <1>4, <1>5
<1>7. fds[oldfd] = before[oldfd]
  BY <1>5
<1>8. /\ data' \in Seq(Numbers) /\ Len(data') = n + 1
      /\ DOMAIN data' = 1 .. n + 1
      /\ \A i \in 1 .. n : data'[i] = data[i]
      /\ data'[n + 1] = m
  <2>1. data \in Seq(Numbers)
    BY <1>1 DEF TypeOK
  <2>2. QED  BY <1>2, <1>3, <2>1, AppendProperties, LenProperties
<1>9. \A i \in 1 .. n : data[i] < m
  <2>1. ASSUME NEW i \in 1 .. n PROVE data[i] < m
    <3>1. \A d \in Numbers : d <= data[i] => fds[d] # NULL
      BY <1>1, <1>4 DEF DataInv
    <3>2. data[i] \in Nat /\ m \in Nat /\ ~(m <= data[i])
      BY <1>3, <1>4, <3>1
    <3>3. QED  BY <3>2
  <2>2. QED  BY <2>1
<1>10. m \notin Range(data)
  <2>1. \A i \in DOMAIN data : data[i] # m
    BY <1>3, <1>4, <1>9
  <2>2. QED  BY <2>1 DEF Range
<1>11. before[m] = NULL
  BY <1>2, <1>3, <1>5, <1>10
<1>12. Range(data') = Range(data) \cup {m}
  BY <1>4, <1>8 DEF Range
<1>13. \A d \in Numbers : fds'[d] = IF d = m THEN before[oldfd] ELSE fds[d]
  BY <1>1, <1>2, <1>3, <1>7 DEF TypeOK
<1>14. TypeOK'
  <2>1. fds' \in [Numbers -> Numbers \cup {NULL}]
    BY <1>1, <1>2, <1>5 DEF TypeOK
  <2>2. QED  BY <1>1, <1>2, <1>4, <1>5, <1>8, <2>1 DEF TypeOK
<1>15. CallInv'
  BY <1>1, <1>2 DEF CallInv
<1>16. n <= m
  <2>1. CASE n = 0
    BY <1>3, <1>4, <2>1
  <2>2. CASE n # 0
    <3>1. n \in DOMAIN data
      BY <1>4, <2>2
    <3>2. n - 1 <= data[n] /\ data[n] < m
      BY <1>1, <1>9, <3>1, <1>4 DEF DataInv
    <3>3. data[n] \in Nat /\ m \in Nat
      BY <1>3, <1>4, <3>1
    <3>4. QED  BY <1>4, <3>2, <3>3
  <2>3. QED  BY <2>1, <2>2
<1>17. DataInv'
  <2>1. ASSUME NEW i \in 1 .. n + 1
        PROVE  /\ i - 1 <= data'[i] /\ data'[i] < newfd
               /\ before[data'[i]] = NULL
               /\ \A d \in Numbers : d <= data'[i] => fds'[d] # NULL
               /\ \A j \in 1 .. n + 1 : i < j => data'[i] < data'[j]
    <3>1. CASE i = n + 1
      BY <1>3, <1>4, <1>5, <1>6, <1>8, <1>11, <1>13, <1>16, <3>1
    <3>2. CASE i \in 1 .. n
      <4>1. /\ i - 1 <= data[i] /\ data[i] < newfd /\ before[data[i]] = NULL
            /\ \A d \in Numbers : d <= data[i] => fds[d] # NULL
            /\ \A j \in 1 .. n : i < j => data[i] < data[j]
        BY <1>1, <1>4, <3>2 DEF DataInv
      <4>2. data'[i] = data[i]
        BY <1>8, <3>2
      <4>3. \A d \in Numbers : d <= data[i] => fds'[d] # NULL
        BY <1>5, <1>13, <4>1
      <4>4. \A j \in 1 .. n + 1 : i < j => data'[i] < data'[j]
        BY <1>4, <1>8, <1>9, <3>2, <4>1, <4>2
      <4>5. QED  BY <4>1, <4>2, <4>3, <4>4
    <3>3. QED  BY <1>4, <3>1, <3>2
  <2>2. QED  BY <1>2, <1>8, <2>1 DEF DataInv
<1>18. LoopInv'
  <2>1. fds'[newfd] = NULL
    BY <1>2, <1>5, <1>13
  <2>2. \A d \in Numbers \ {newfd} :
          fds'[d] = IF d \in Range(data') THEN before[oldfd] ELSE before[d]
    BY <1>5, <1>12, <1>13
  <2>3. QED  BY <1>1, <1>2, <1>5, <1>8, <2>1, <2>2 DEF LoopInv
<1>19. DamageBounded'
  BY <1>1, <1>2 DEF DamageBounded
<1>20. QED  BY <1>14, <1>15, <1>17, <1>18, <1>19 DEF IInv

\* dup has returned newfd.
LEMMA DupNewInv ==
  ASSUME IInv, DupNew
  PROVE  IInv'
<1> USE DupStackAssumption
<1> DEFINE n == Len(data)
<1>1. TypeOK /\ CallInv /\ DataInv /\ LoopInv /\ at = "dup"
  BY DEF IInv, DupNew
<1>2. /\ fds' = [fds EXCEPT ![newfd] = fds[oldfd]]
      /\ data' = data /\ size' = size /\ ret' = ret
      /\ oldfd' = oldfd /\ newfd' = newfd /\ before' = before
      /\ at' = "unwind"
  BY DEF DupNew, Dup, args
<1>3. /\ Numbers \subseteq Nat /\ n \in Nat /\ DOMAIN data = 1 .. n
      /\ \A i \in DOMAIN data : data[i] \in Numbers /\ i \in Nat
      /\ -1 \notin Numbers
  BY <1>1, DataFacts
<1>4. /\ size = n /\ newfd \in Numbers /\ oldfd \in Numbers /\ oldfd # newfd
      /\ \A d \in Numbers \ {newfd} :
           fds[d] = IF d \in Range(data) THEN before[oldfd] ELSE before[d]
  BY <1>1, DataFacts DEF LoopInv, CallInv, TypeOK
<1>5. \A d \in Numbers :
        fds'[d] = IF d = newfd THEN before[oldfd] ELSE fds[d]
  BY <1>1, <1>2, <1>4 DEF TypeOK
<1>6. TypeOK'
  BY <1>1, <1>2, <1>4 DEF TypeOK
<1>7. CallInv' /\ DataInv'
  BY <1>1, <1>2 DEF CallInv, DataInv
<1>8. ASSUME NEW d \in Numbers PROVE fds'[d] = Unwinding(d, -1)'
  <2>1. (\E i \in DOMAIN data : i <= size + 1 /\ d = data[i]) <=> d \in Range(data)
    BY <1>3, <1>4 DEF Range
  <2>2. Unwinding(d, -1)' = IF d \in Range(data) THEN before[oldfd]
                            ELSE IF d = newfd THEN before[oldfd] ELSE before[d]
    BY <1>2, <1>3, <2>1 DEF Unwinding, Wanted
  <2>3. QED  BY <1>4, <1>5, <2>2
<1>9. LoopInv'
  BY <1>2, <1>8 DEF LoopInv
<1>10. DamageBounded'
  BY <1>2 DEF DamageBounded
<1>11. QED  BY <1>6, <1>7, <1>9, <1>10 DEF IInv

\* The first pop closes some number, each further one the last item not closed.
LEMMA PopInv ==
  ASSUME IInv, Pop
  PROVE  IInv'
<1> USE DupStackAssumption
<1> DEFINE n == Len(data)
<1>1. TypeOK /\ CallInv /\ DataInv /\ LoopInv /\ at = "unwind"
  BY DEF IInv, Pop
<1>2. PICK fd \in Popped : fds' = Shut(fd)
  BY DEF Pop, PopAndClose
<1>3. /\ data' = data /\ size' = size - 1 /\ size > 0 /\ ret' = ret /\ at' = at
      /\ oldfd' = oldfd /\ newfd' = newfd /\ before' = before
  BY DEF Pop, PopAndClose, args
<1>4. /\ Numbers \subseteq Nat /\ n \in Nat /\ DOMAIN data = 1 .. n
      /\ \A i \in DOMAIN data : data[i] \in Numbers /\ i \in Nat
      /\ size \in Nat /\ size <= n
      /\ -1 \notin Numbers
  BY <1>1, DataFacts
<1>5. PICK victim \in Numbers \cup {-1} :
        /\ size = n => victim = -1
        /\ \A d \in Numbers : fds[d] = Unwinding(d, victim)
  BY <1>1 DEF LoopInv
<1>6. \A d \in Numbers : fds'[d] = IF d = fd THEN NULL ELSE fds[d]
  BY <1>2 DEF Shut
<1>7. TypeOK'
  <2>1. fds' \in [Numbers -> Numbers \cup {NULL}]
    BY <1>1, <1>2 DEF Shut, TypeOK
  <2>2. QED  BY <1>1, <1>3, <1>4, <2>1 DEF TypeOK
<1>8. CallInv' /\ DataInv'
  BY <1>1, <1>3 DEF CallInv, DataInv
<1>9. \E v \in Numbers \cup {-1} :
        /\ size' = n => v = -1
        /\ \A d \in Numbers : fds'[d] = Unwinding(d, v)'
  <2>1. CASE size = n
    <3>1. fd \in Numbers \cup {-1} /\ victim = -1 /\ size' # n
      <4>1. Popped = Numbers \cup {-1}
        BY <1>4, <2>1 DEF Popped
      <4>2. victim = -1
        BY <1>5, <2>1
      <4>3. size' # n
        <5>1. size \in Nat /\ n \in Nat /\ size = n /\ size' = size - 1
          BY <1>3, <1>4, <2>1
        <5> HIDE DEF n
        <5>2. QED  BY <5>1
      <4>4. QED  BY <1>2, <4>1, <4>2, <4>3
    <3>2. ASSUME NEW d \in Numbers PROVE fds'[d] = Unwinding(d, fd)'
      <4>1. (\E i \in DOMAIN data : i <= size' + 1 /\ d = data[i])
              <=> (\E i \in DOMAIN data : i <= size + 1 /\ d = data[i])
        BY <1>3, <1>4, <2>1
      <4>2. fds[d] = Unwinding(d, -1)
        BY <1>5, <3>1
      <4>3. QED  BY <1>3, <1>4, <1>6, <4>1, <4>2 DEF Unwinding, Wanted
    <3>3. QED  BY <3>1, <3>2
  <2>2. CASE size < n
    <3>1. fd = data[size + 1] /\ size + 1 \in DOMAIN data /\ size' # n
      BY <1>2, <1>3, <1>4, <2>2 DEF Popped
    <3>2. /\ fd \in Numbers /\ before[fd] = NULL /\ fd < newfd /\ newfd \in Nat
          /\ fd # newfd
      BY <1>1, <1>4, <3>1 DEF DataInv, CallInv, TypeOK
    <3>3. ASSUME NEW d \in Numbers PROVE fds'[d] = Unwinding(d, victim)'
      <4>1. CASE d = fd
        <5>1. ASSUME NEW i \in DOMAIN data, i <= size' + 1, d = data[i]
              PROVE  FALSE
          <6>1. i < size + 1
            BY <1>3, <1>4, <5>1
          <6>2. data[i] < data[size + 1]
            BY <1>1, <3>1, <6>1 DEF DataInv
          <6>3. QED  BY <1>4, <3>1, <4>1, <5>1, <6>2
        <5>2. Unwinding(d, victim)' = NULL
          BY <1>3, <3>2, <4>1, <5>1 DEF Unwinding, Wanted
        <5>3. QED  BY <1>6, <4>1, <5>2
      <4>2. CASE d # fd
        <5>1. (\E i \in DOMAIN data : i <= size' + 1 /\ d = data[i])
                <=> (\E i \in DOMAIN data : i <= size + 1 /\ d = data[i])
          BY <1>3, <1>4, <3>1, <4>2
        <5>2. QED  BY <1>3, <1>5, <1>6, <4>2, <5>1 DEF Unwinding, Wanted
      <4>3. QED  BY <4>1, <4>2
    <3>4. QED  BY <3>1, <3>3
  <2>3. size = n \/ size < n
    <3>1. size \in Nat /\ n \in Nat /\ size <= n
      BY <1>4
    <3> HIDE DEF n
    <3>2. QED  BY <3>1
  <2>4. QED  BY <2>1, <2>2, <2>3
<1>10. LoopInv'
  BY <1>1, <1>3, <1>9 DEF LoopInv
<1>11. DamageBounded'
  BY <1>1, <1>3 DEF DamageBounded
<1>12. QED  BY <1>7, <1>8, <1>10, <1>11 DEF IInv

\* The return after the stack is unwound.
LEMMA UnwoundInv ==
  ASSUME IInv, Unwound
  PROVE  IInv'
<1> USE DupStackAssumption
<1>1. TypeOK /\ CallInv /\ DataInv /\ LoopInv /\ at = "unwind"
  BY DEF IInv, Unwound
<1>2. /\ size = 0 /\ at' = "done" /\ ret' = newfd /\ fds' = fds
      /\ data' = data /\ size' = size
      /\ oldfd' = oldfd /\ newfd' = newfd /\ before' = before
  BY DEF Unwound, Return, args
<1>3. /\ Len(data) \in Nat /\ DOMAIN data = 1 .. Len(data)
      /\ -1 \notin Numbers /\ newfd \in Numbers
      /\ data # <<>> => Len(data) # 0
  BY <1>1, DataFacts, EmptySeq DEF CallInv, TypeOK
<1>4. PICK victim \in Numbers \cup {-1} :
        /\ size = Len(data) => victim = -1
        /\ \A d \in Numbers : fds[d] = Unwinding(d, victim)
  BY <1>1 DEF LoopInv
<1>5. TypeOK'
  BY <1>1, <1>2 DEF TypeOK
<1>6. CallInv' /\ DataInv' /\ LoopInv'
  BY <1>1, <1>2 DEF CallInv, DataInv, LoopInv
<1>7. DamageBounded'
  <2>1. data = <<>> => victim = -1
    BY <1>2, <1>4, EmptySeq
  <2>2. ASSUME NEW d \in Numbers
        PROVE  fds[d] = IF d = victim THEN NULL
                        ELSE IF data # <<>> /\ d = data[1] THEN before[oldfd]
                        ELSE Wanted(d)
    <3>1. (\E i \in DOMAIN data : i <= size + 1 /\ d = data[i])
            <=> (data # <<>> /\ d = data[1])
      BY <1>2, <1>3
    <3>2. QED  BY <1>4, <3>1 DEF Unwinding
  <2>3. ret' # -1
    BY <1>2, <1>3
  <2>4. \A d \in Numbers : Wanted(d)' = Wanted(d)
    BY <1>2 DEF Wanted
  <2>5. QED  BY <1>2, <2>1, <2>2, <2>3, <2>4 DEF DamageBounded
<1>8. QED  BY <1>5, <1>6, <1>7 DEF IInv

\* Every step keeps the invariant.
LEMMA NextInv == IInv /\ [Next]_vars => IInv'
<1>1. IInv /\ Next => IInv'
  BY EarlyInv, ProbeInv, CloseInv, DupOtherInv, DupNewInv, PopInv, UnwoundInv
     DEF Next
<1>2. IInv /\ UNCHANGED vars => IInv'
  <2> SUFFICES ASSUME IInv, UNCHANGED vars PROVE IInv'
    OBVIOUS
  <2>1. TypeOK'
    BY DEF IInv, vars, TypeOK
  <2>2. CallInv' /\ DataInv'
    BY DEF IInv, vars, CallInv, DataInv
  <2>3. LoopInv'
    BY DEF IInv, vars, LoopInv, Unwinding, Wanted
  <2>4. DamageBounded'
    BY DEF IInv, vars, DamageBounded, Wanted
  <2>5. QED  BY <2>1, <2>2, <2>3, <2>4 DEF IInv
<1>3. QED  BY <1>1, <1>2

-----------------------------------------------------------------------------
\* Each number pushed is the lowest that was free, and until the stack is
\* unwound it holds all that is open more than before.
THEOREM Inductive == Spec => []IInv
BY InitInv, NextInv, PTL DEF Spec

\* Every variable has values of its kind.
THEOREM Typed == Spec => []TypeOK
BY Inductive, PTL DEF IInv

\* The stack does not fill up: what is pushed is below newfd, and ascends.
THEOREM NeverFull == Spec => []PushesAscend
<1>1. IInv => PushesAscend
  <2> SUFFICES ASSUME IInv PROVE PushesAscend
    OBVIOUS
  <2> USE DupStackAssumption
  <2>1. TypeOK /\ CallInv /\ DataInv
    BY DEF IInv
  <2>2. /\ Len(data) \in Nat /\ DOMAIN data = 1 .. Len(data)
        /\ \A i \in DOMAIN data : data[i] \in Nat
        /\ data # <<>> => Len(data) # 0
        /\ newfd \in Int
    BY <2>1, DataFacts, EmptySeq DEF TypeOK, Numbers
  <2>3. ASSUME data # <<>> PROVE Len(data) < CAPACITY
    <3>1. Len(data) \in DOMAIN data
      BY <2>2, <2>3
    <3>2. Len(data) - 1 <= data[Len(data)] /\ data[Len(data)] < newfd
      BY <2>1, <3>1 DEF DataInv
    <3>3. newfd < CAPACITY
      BY <2>1 DEF CallInv
    <3>4. QED  BY <2>2, <3>1, <3>2, <3>3
  <2>4. QED  BY <2>1, <2>3 DEF PushesAscend, DataInv
<1>2. QED  BY <1>1, Inductive, PTL

\* Before the first pop, the stack holds just what the table has more than
\* before the call.
THEOREM StackIsComplete == Spec => []StackHasDups
<1>1. IInv => StackHasDups
  <2> SUFFICES ASSUME IInv, at \in {"dup", "unwind"}, size = Len(data),
                      NEW d \in Numbers \ {newfd}
               PROVE  fds[d] = IF d \in Range(data) THEN before[oldfd]
                               ELSE before[d]
    BY DEF StackHasDups
  <2>1. CASE at = "dup"
    BY <2>1 DEF IInv, LoopInv
  <2>2. CASE at = "unwind"
    <3>1. fds[d] = Unwinding(d, -1)
      BY <2>2 DEF IInv, LoopInv
    <3>2. (\E i \in DOMAIN data : i <= size + 1 /\ d = data[i]) <=> d \in Range(data)
      BY DataFacts DEF IInv, Range
    <3>3. d # -1
      BY DataFacts DEF IInv
    <3>4. QED  BY <3>1, <3>2, <3>3 DEF Unwinding, Wanted
  <2>3. QED  BY <2>1, <2>2
<1>2. QED  BY <1>1, Inductive, PTL

\* A call that succeeds leaves newfd a duplicate of oldfd, the first of the
\* intermediate descriptors open, and at most one number closed that was not to
\* be; one that fails changes nothing but newfd.
THEOREM DamageIsBounded == Spec => []DamageBounded
BY Inductive, PTL DEF IInv
=============================================================================
