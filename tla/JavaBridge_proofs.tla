------------------------- MODULE JavaBridge_proofs -------------------------
(* The properties of JavaBridge, for any classes, members, tables of lines, arrays and
   widths.  Three invariants carry them, one per component, since no component writes
   the variables of another except outcome:

     BreakpointsInv  the list is what is set, a breakpoint is where bp() put it, and
                     a bp() in progress is at one of its methods;
     ArraysInv       an element fits the type of its array;
     CallsInv        the call about to return is the one that Choose made.

   The rest is about operators: what AllMethods finds in a hierarchy, where a line is
   in a table in order, which of the arguments Choose has converted, what a value
   is after it has gone to Lua and back. *)
EXTENDS JavaBridge, SequenceTheorems, WellFoundedInduction, TLAPS

---------------------------------------------------------------------------
(* Sequences.  What holds of every length is shown by its least counterexample. *)

LEMMA LeastNatural ==
  ASSUME NEW S \in SUBSET Nat, S # {}
  PROVE  \E n \in S : \A m \in S : n <= m
  <1>1. PICK n \in S : \A m \in S : ~(<<m, n>> \in OpToRel(<, Nat))
    BY NatLessThanWellFounded, WFMin
  <1>2. \A m \in S : ~(m < n)
    BY <1>1 DEF OpToRel
  <1> QED BY <1>2

\* The lengths of the first parts of a sequence of sequences, and what FlattenSeq
\* has made of them so far.
LEMMA Parts ==
  ASSUME NEW A, NEW ss \in Seq(Seq(A))
  PROVE  \E f \in [1..Len(ss) -> Seq(A)] :
           \A i \in 1..Len(ss) : f[i] = IF i = 1 THEN ss[i] ELSE f[i - 1] \o ss[i]
  <1> DEFINE Upto(n) == {f \in [1..n -> Seq(A)] :
                           \A i \in 1..n : f[i] = IF i = 1 THEN ss[i] ELSE f[i - 1] \o ss[i]}
             Bad == {n \in 0..Len(ss) : Upto(n) = {}}
  <1>1. Len(ss) \in Nat /\ \A i \in 1..Len(ss) : ss[i] \in Seq(A)
    BY LenProperties
  <1>2. ASSUME Bad # {} PROVE FALSE
    <2>0. Bad \in SUBSET Nat
      BY <1>1
    <2> HIDE DEF Upto, Bad
    <2>1. PICK n \in Bad : \A m \in Bad : n <= m
      BY <1>2, <2>0, LeastNatural
    <2> USE DEF Upto, Bad
    <2>2. n \in 0..Len(ss) /\ Upto(n) = {}
      OBVIOUS
    <2>3. n # 0
      <3>1. [i \in 1..0 |-> <<>>] \in Upto(0)
        OBVIOUS
      <3> QED BY <2>2, <3>1
    <2>4. n - 1 \in 0..Len(ss) /\ n - 1 \notin Bad
      <3>1. n - 1 \in 0..Len(ss) /\ ~(n <= n - 1)
        BY <1>1, <2>2, <2>3
      <3> HIDE DEF Bad
      <3> QED BY <2>1, <3>1
    <2>5. PICK f : f \in Upto(n - 1)
      <3> HIDE DEF Upto
      <3> QED BY <2>4
    <2> DEFINE g == [i \in 1..n |-> IF i < n THEN f[i] ELSE IF n = 1 THEN ss[n] ELSE f[n - 1] \o ss[n]]
    <2>6. /\ f \in [1..(n - 1) -> Seq(A)]
          /\ \A i \in 1..(n - 1) : f[i] = IF i = 1 THEN ss[i] ELSE f[i - 1] \o ss[i]
      BY <2>5
    <2>7. n # 1 => f[n - 1] \o ss[n] \in Seq(A)
      BY <1>1, <2>2, <2>3, <2>6, ConcatProperties
    <2>8. g \in [1..n -> Seq(A)]
      BY <1>1, <2>2, <2>3, <2>6, <2>7
    <2>9. \A i \in 1..n : g[i] = IF i = 1 THEN ss[i] ELSE g[i - 1] \o ss[i]
      <3> TAKE i \in 1..n
      <3>1. CASE i < n
        <4>1. f[i] = IF i = 1 THEN ss[i] ELSE f[i - 1] \o ss[i]
          <5>1. i \in 1..(n - 1)
            BY <1>1, <2>2, <3>1
          <5> QED BY <2>6, <5>1
        <4>2. g[i] = f[i] /\ (i # 1 => g[i - 1] = f[i - 1])
          BY <1>1, <2>2, <3>1
        <4> QED BY <4>1, <4>2
      <3>2. CASE i = n
        BY <1>1, <2>2, <3>2
      <3> QED BY <2>2, <3>1, <3>2
    <2> HIDE DEF g
    <2> QED BY <2>2, <2>8, <2>9
  <1>3. Len(ss) \notin Bad
    BY <1>2
  <1>4. PICK f \in Upto(Len(ss)) : TRUE
    BY <1>1, <1>3
  <1> QED BY <1>4

LEMMA FlattenParts ==
  ASSUME NEW A, NEW ss \in Seq(Seq(A)), Len(ss) # 0
  PROVE  \E f \in [1..Len(ss) -> Seq(A)] :
           /\ \A i \in 1..Len(ss) : f[i] = IF i = 1 THEN ss[i] ELSE f[i - 1] \o ss[i]
           /\ FlattenSeq(ss) = f[Len(ss)]
  <1> DEFINE n == Len(ss)
             Part(g, i) == IF i = 1 THEN ss[i] ELSE g[i - 1] \o ss[i]
             flatten == CHOOSE g : g = [i \in 1..n |-> Part(g, i)]
  <1>1. PICK f \in [1..n -> Seq(A)] : \A i \in 1..n : f[i] = Part(f, i)
    BY Parts
  <1>2. f = [i \in 1..n |-> Part(f, i)]
    BY <1>1
  <1>3. flatten = [i \in 1..n |-> Part(flatten, i)]
    BY <1>2
  <1>4. FlattenSeq(ss) = flatten[n]
    BY DEF FlattenSeq
  <1> HIDE DEF flatten
  <1> DEFINE Bad == {i \in 1..n : flatten[i] # f[i]}
  <1>5. Bad = {}
    <2> SUFFICES ASSUME Bad # {} PROVE FALSE
      OBVIOUS
    <2>1. Bad \in SUBSET Nat /\ n \in Nat
      BY LenProperties
    <2> HIDE DEF Bad
    <2>2. PICK i \in Bad : \A j \in Bad : i <= j
      BY <2>1, LeastNatural
    <2>3. i \in 1..n /\ flatten[i] # f[i]
      BY DEF Bad
    <2>4. i # 1 => i - 1 \in 1..n /\ ~(i <= i - 1)
      BY <2>1, <2>3
    <2>5. i # 1 => flatten[i - 1] = f[i - 1]
      BY <2>2, <2>4 DEF Bad
    <2>6. flatten[i] = Part(flatten, i) /\ f[i] = Part(f, i)
      BY <1>1, <1>3, <2>3
    <2> QED BY <2>3, <2>5, <2>6
  <1>6. n \in 1..n
    BY LenProperties
  <1>7. flatten[n] = f[n]
    BY <1>5, <1>6
  <1> QED BY <1>1, <1>4, <1>7

\* Where the parts of a sequence are in it: off[i - 1] is where the i-th begins.
Offsets(ss, off) ==
  /\ off \in [0..Len(ss) -> Nat]
  /\ off[0] = 0
  /\ \A i \in 1..Len(ss) : off[i] = off[i - 1] + Len(ss[i])
  /\ \A i, j \in 0..Len(ss) : i <= j => off[i] <= off[j]

\* The elements of a flattened sequence are those of its parts, in their order.
LEMMA FlattenProperties ==
  ASSUME NEW A, NEW ss \in Seq(Seq(A))
  PROVE  /\ FlattenSeq(ss) \in Seq(A)
         /\ \E off :
              /\ Offsets(ss, off)
              /\ Len(FlattenSeq(ss)) = off[Len(ss)]
              /\ \A i \in 1..Len(ss) : \A k \in 1..Len(ss[i]) :
                   /\ off[i - 1] + k \in 1..Len(FlattenSeq(ss))
                   /\ FlattenSeq(ss)[off[i - 1] + k] = ss[i][k]
              /\ \A p \in 1..Len(FlattenSeq(ss)) :
                   \E i \in 1..Len(ss) : \E k \in 1..Len(ss[i]) : p = off[i - 1] + k
  <1> DEFINE n == Len(ss)
  <1>0. n \in Nat /\ \A i \in 1..n : ss[i] \in Seq(A) /\ Len(ss[i]) \in Nat
    BY LenProperties
  <1>1. CASE n = 0
    <2>1. ss = <<>> /\ FlattenSeq(ss) = ss
      BY <1>1, EmptySeq DEF FlattenSeq
    <2>2. FlattenSeq(ss) \in Seq(A) /\ Len(FlattenSeq(ss)) = 0
      BY <2>1, EmptySeq
    <2> DEFINE zero == [i \in 0..0 |-> 0]
    <2>3. Offsets(ss, zero)
      BY <1>1 DEF Offsets
    <2> QED BY <1>1, <2>2, <2>3
  <1>2. CASE n # 0
    <2>1. PICK f \in [1..n -> Seq(A)] :
            /\ \A i \in 1..n : f[i] = IF i = 1 THEN ss[i] ELSE f[i - 1] \o ss[i]
            /\ FlattenSeq(ss) = f[n]
      BY <1>2, FlattenParts
    <2> DEFINE off == [i \in 0..n |-> IF i = 0 THEN 0 ELSE Len(f[i])]
               Right(i) == /\ off[i] = off[i - 1] + Len(ss[i])
                           /\ \A j \in 0..i : off[j] <= off[i]
                           /\ \A j \in 1..i : \A k \in 1..Len(ss[j]) :
                                off[j - 1] + k \in 1..off[i] /\ f[i][off[j - 1] + k] = ss[j][k]
                           /\ \A p \in 1..off[i] :
                                \E j \in 1..i : \E k \in 1..Len(ss[j]) : p = off[j - 1] + k
               Bad == {i \in 1..n : ~Right(i)}
    <2> HIDE DEF Right, Bad
    <2>a. \A i \in 1..n : f[i] \in Seq(A) /\ Len(f[i]) \in Nat
      BY <2>1, LenProperties
    <2>2. /\ off \in [0..n -> Nat] /\ off[0] = 0
          /\ \A i \in 1..n : f[i] \in Seq(A) /\ Len(f[i]) \in Nat /\ off[i] = Len(f[i])
      BY <1>0, <2>a
    <2> HIDE DEF off
    <2>3. Right(1)
      <3>1. 1 \in 1..n /\ f[1] = ss[1]
        <4>1. 1 \in 1..n
          BY <1>0, <1>2
        <4> QED BY <2>1, <4>1
      <3>2. off[0] = 0 /\ off[1] = Len(ss[1]) /\ Len(ss[1]) \in Nat
        BY <2>2, <3>1
      <3>3. 1 - 1 = 0 /\ 1..1 = {1} /\ 0..1 = {0, 1}
        OBVIOUS
      <3> QED BY <2>2, <3>1, <3>2, <3>3 DEF Right
    <2>4. ASSUME NEW i \in 1..n, i # 1, Right(i - 1) PROVE Right(i)
      <3>1. i - 1 \in 1..n /\ i \in Nat /\ f[i] = f[i - 1] \o ss[i]
        <4>1. i \in Nat /\ i - 1 \in 1..n
          BY <1>0, <2>4
        <4> QED BY <2>1, <2>4, <4>1
      <3>2. /\ Len(f[i]) = Len(f[i - 1]) + Len(ss[i])
            /\ \A p \in 1..(Len(f[i - 1]) + Len(ss[i])) :
                 f[i][p] = IF p <= Len(f[i - 1]) THEN f[i - 1][p] ELSE ss[i][p - Len(f[i - 1])]
        <4>1. f[i - 1] \in Seq(A) /\ ss[i] \in Seq(A)
          BY <1>0, <2>2, <3>1
        <4>2. /\ Len(f[i - 1] \o ss[i]) = Len(f[i - 1]) + Len(ss[i])
              /\ \A p \in 1..(Len(f[i - 1]) + Len(ss[i])) :
                   (f[i - 1] \o ss[i])[p] = IF p <= Len(f[i - 1]) THEN f[i - 1][p]
                                           ELSE ss[i][p - Len(f[i - 1])]
          BY <4>1, ConcatProperties
        <4> QED BY <3>1, <4>2
      <3>3. off[i] = off[i - 1] + Len(ss[i]) /\ off[i - 1] \in Nat /\ Len(ss[i]) \in Nat
        BY <1>0, <2>2, <3>1, <3>2
      <3>4. \A j \in 0..i : off[j] <= off[i]
        <4>1. \A j \in 0..(i - 1) : off[j] <= off[i - 1]
          BY <2>4 DEF Right
        <4>2. off[i] \in Nat /\ off[i - 1] <= off[i]
          BY <2>2, <3>3
        <4>3. \A j \in 0..i : off[j] \in Nat /\ (j = i \/ j \in 0..(i - 1))
          BY <1>0, <2>2, <3>1
        <4> QED BY <3>3, <4>1, <4>2, <4>3
      <3>5. ASSUME NEW j \in 1..i, NEW k \in 1..Len(ss[j])
            PROVE  off[j - 1] + k \in 1..off[i] /\ f[i][off[j - 1] + k] = ss[j][k]
        <4>1. CASE j = i
          <5>1. k \in 1..Len(ss[i]) /\ off[i - 1] = Len(f[i - 1])
            BY <2>2, <3>1, <3>5, <4>1
          <5>2. k \in Nat /\ k >= 1 /\ k <= Len(ss[i])
            BY <3>3, <5>1
          <5>3. off[i - 1] + k \in 1..off[i]
            BY <3>3, <5>2
          <5>4. ~(off[i - 1] + k <= off[i - 1]) /\ (off[i - 1] + k) - off[i - 1] = k
            BY <3>3, <5>2
          <5> QED BY <3>2, <3>3, <4>1, <5>1, <5>3, <5>4
        <4>2. CASE j # i
          <5>1. /\ j \in 1..(i - 1) /\ off[j - 1] + k \in 1..off[i - 1]
                /\ f[i - 1][off[j - 1] + k] = ss[j][k]
            <6>1. j \in 1..(i - 1)
              BY <3>1, <3>5, <4>2
            <6> QED BY <2>4, <3>5, <6>1 DEF Right
          <5>2. off[i - 1] = Len(f[i - 1]) /\ off[j - 1] + k <= off[i - 1]
                /\ off[j - 1] + k \in 1..off[i]
            BY <2>2, <3>1, <3>3, <5>1
          <5> QED BY <3>2, <3>3, <5>1, <5>2
        <4> QED BY <4>1, <4>2
      <3>6. ASSUME NEW p \in 1..off[i]
            PROVE  \E j \in 1..i : \E k \in 1..Len(ss[j]) : p = off[j - 1] + k
        <4>1. CASE p <= off[i - 1]
          <5>1. \E j \in 1..(i - 1) : \E k \in 1..Len(ss[j]) : p = off[j - 1] + k
            <6>1. p \in 1..off[i - 1]
              BY <3>3, <3>6, <4>1
            <6> QED BY <2>4, <6>1 DEF Right
          <5> QED BY <3>1, <5>1
        <4>2. CASE p > off[i - 1]
          <5>1. p - off[i - 1] \in 1..Len(ss[i]) /\ p = off[i - 1] + (p - off[i - 1])
            BY <3>3, <3>6, <4>2
          <5> QED BY <3>1, <5>1
        <4> QED BY <3>3, <4>1, <4>2
      <3> QED BY <3>3, <3>4, <3>5, <3>6 DEF Right
    <2>5. Bad = {}
      <3> SUFFICES ASSUME Bad # {} PROVE FALSE
        OBVIOUS
      <3>1. Bad \in SUBSET Nat
        BY <1>0 DEF Bad
      <3>2. PICK i \in Bad : \A j \in Bad : i <= j
        BY <3>1, LeastNatural
      <3>3. i \in 1..n /\ ~Right(i)
        BY DEF Bad
      <3>4. i # 1 /\ i - 1 \in 1..n /\ ~(i <= i - 1)
        BY <1>0, <2>3, <3>3
      <3>5. Right(i - 1)
        BY <3>2, <3>4 DEF Bad
      <3> QED BY <2>4, <3>3, <3>4, <3>5
    <2>6. \A i \in 1..n : Right(i)
      BY <2>5 DEF Bad
    <2>7. n \in 1..n
      BY <1>0, <1>2
    <2>8. Offsets(ss, off)
      <3>1. \A i \in 1..n : off[i] = off[i - 1] + Len(ss[i])
        BY <2>6 DEF Right
      <3>2. ASSUME NEW i \in 0..n, NEW j \in 0..n, i <= j PROVE off[i] <= off[j]
        <4>1. CASE j = 0
          BY <1>0, <2>2, <3>2, <4>1
        <4>2. CASE j # 0
          BY <1>0, <2>6, <3>2, <4>2 DEF Right
        <4> QED BY <4>1, <4>2
      <3> QED BY <2>2, <3>1, <3>2 DEF Offsets
    <2>9. Right(n) /\ Len(FlattenSeq(ss)) = off[n] /\ FlattenSeq(ss) \in Seq(A)
      BY <2>1, <2>2, <2>6, <2>7
    <2>10. /\ \A i \in 1..n : \A k \in 1..Len(ss[i]) :
                /\ off[i - 1] + k \in 1..Len(FlattenSeq(ss))
                /\ FlattenSeq(ss)[off[i - 1] + k] = ss[i][k]
           /\ \A p \in 1..Len(FlattenSeq(ss)) :
                \E i \in 1..n : \E k \in 1..Len(ss[i]) : p = off[i - 1] + k
      <3>1. /\ \A j \in 1..n : \A k \in 1..Len(ss[j]) :
                 off[j - 1] + k \in 1..off[n] /\ f[n][off[j - 1] + k] = ss[j][k]
            /\ \A p \in 1..off[n] :
                 \E j \in 1..n : \E k \in 1..Len(ss[j]) : p = off[j - 1] + k
        BY <2>9 DEF Right
      <3>2. FlattenSeq(ss) = f[n] /\ Len(FlattenSeq(ss)) = off[n]
        BY <2>1, <2>9
      <3> HIDE DEF n
      <3> QED BY <3>1, <3>2
    <2> QED BY <2>8, <2>9, <2>10
  <1> QED BY <1>1, <1>2

LEMMA IsSequence ==
  ASSUME NEW A, NEW n \in Nat, NEW s \in [1..n -> A]
  PROVE  s \in Seq(A) /\ Len(s) = n
  OBVIOUS

LEMMA Single ==
  ASSUME NEW A, NEW x \in A
  PROVE  <<x>> \in Seq(A) /\ Len(<<x>>) = 1 /\ <<x>>[1] = x
  OBVIOUS

\* How many of the first elements of s are in S, and so where each that is has
\* its place among them.
Counts(s, S, count) ==
  /\ count \in [0..Len(s) -> Nat]
  /\ count[0] = 0
  /\ \A i \in 1..Len(s) : count[i] = count[i - 1] + (IF s[i] \in S THEN 1 ELSE 0)
  /\ \A i, j \in 0..Len(s) : i <= j => count[i] <= count[j]
  /\ Len(Only(s, S)) = count[Len(s)]
  /\ \A i \in 1..Len(s) : s[i] \in S => /\ count[i] \in 1..Len(Only(s, S))
                                        /\ Only(s, S)[count[i]] = s[i]
  /\ \A k \in 1..Len(Only(s, S)) : \E i \in 1..Len(s) : s[i] \in S /\ count[i] = k

LEMMA OnlyProperties ==
  ASSUME NEW A, NEW s \in Seq(A), NEW S
  PROVE  /\ Only(s, S) \in Seq(A \cap S)
         /\ \E count : Counts(s, S, count)
  <1> DEFINE ss == [i \in DOMAIN s |-> IF s[i] \in S THEN <<s[i]>> ELSE <<>>]
  <1>1. Len(s) \in Nat /\ DOMAIN s = 1..Len(s) /\ \A i \in 1..Len(s) : s[i] \in A
    BY LenProperties
  <1>2. \A i \in 1..Len(s) : /\ s[i] \in S => ss[i] = <<s[i]>>
                             /\ s[i] \notin S => ss[i] = <<>>
    BY <1>1
  <1>0. ss = [i \in 1..Len(s) |-> ss[i]]
    BY <1>1
  <1>4. Only(s, S) = FlattenSeq(ss)
    BY DEF Only
  <1> HIDE DEF ss
  <1>3. ss \in [1..Len(s) -> Seq(A \cap S)]
    <2>1. \A i \in 1..Len(s) : ss[i] \in Seq(A \cap S)
      <3> TAKE i \in 1..Len(s)
      <3>1. CASE s[i] \in S
        <4>1. s[i] \in A \cap S
          BY <1>1, <3>1
        <4> QED BY <1>2, <3>1, <4>1, Single
      <3>2. CASE s[i] \notin S
        BY <1>2, <3>2, EmptySeq
      <3> QED BY <3>1, <3>2
    <2> QED BY <1>0, <2>1
  <1>5. ss \in Seq(Seq(A \cap S)) /\ Len(ss) = Len(s)
    BY <1>1, <1>3
  <1>6. \A i \in 1..Len(s) : /\ s[i] \in S => Len(ss[i]) = 1 /\ ss[i][1] = s[i]
                             /\ s[i] \notin S => Len(ss[i]) = 0
    <2> TAKE i \in 1..Len(s)
    <2>1. s[i] \in S => Len(ss[i]) = 1 /\ ss[i][1] = s[i]
      BY <1>1, <1>2, Single
    <2>2. s[i] \notin S => Len(ss[i]) = 0
      BY <1>2, EmptySeq
    <2> QED BY <2>1, <2>2
  <1>7. PICK off :
          /\ Offsets(ss, off)
          /\ Len(FlattenSeq(ss)) = off[Len(ss)]
          /\ \A i \in 1..Len(ss) : \A k \in 1..Len(ss[i]) :
               /\ off[i - 1] + k \in 1..Len(FlattenSeq(ss))
               /\ FlattenSeq(ss)[off[i - 1] + k] = ss[i][k]
          /\ \A p \in 1..Len(FlattenSeq(ss)) :
               \E i \in 1..Len(ss) : \E k \in 1..Len(ss[i]) : p = off[i - 1] + k
    BY <1>5, FlattenProperties
  <1>8. Only(s, S) \in Seq(A \cap S)
    BY <1>4, <1>5, FlattenProperties
  <1>9. /\ off \in [0..Len(s) -> Nat] /\ off[0] = 0
        /\ \A i \in 1..Len(s) : off[i] = off[i - 1] + (IF s[i] \in S THEN 1 ELSE 0)
        /\ \A i, j \in 0..Len(s) : i <= j => off[i] <= off[j]
    BY <1>5, <1>6, <1>7 DEF Offsets
  <1>10. ASSUME NEW i \in 1..Len(s), s[i] \in S
         PROVE  off[i] \in 1..Len(Only(s, S)) /\ Only(s, S)[off[i]] = s[i]
    <2>1. 1 \in 1..Len(ss[i]) /\ off[i - 1] + 1 = off[i]
      BY <1>6, <1>9, <1>10
    <2> QED BY <1>4, <1>5, <1>6, <1>7, <1>10, <2>1
  <1>11. ASSUME NEW k \in 1..Len(Only(s, S))
         PROVE  \E i \in 1..Len(s) : s[i] \in S /\ off[i] = k
    <2>1. PICK i \in 1..Len(s) : \E j \in 1..Len(ss[i]) : k = off[i - 1] + j
      <3>1. k \in 1..Len(FlattenSeq(ss)) /\ Len(ss) = Len(s)
        BY <1>4, <1>5, <1>11
      <3> QED BY <1>7, <3>1
    <2>2. s[i] \in S /\ k = off[i - 1] + 1
      <3>1. PICK j \in 1..Len(ss[i]) : k = off[i - 1] + j
        BY <2>1
      <3>2. s[i] \in S
        BY <1>6, <3>1
      <3>3. j = 1
        <4>1. Len(ss[i]) = 1
          BY <1>6, <3>2
        <4> QED BY <3>1, <4>1
      <3> QED BY <3>1, <3>2, <3>3
    <2> QED BY <1>9, <2>2
  <1>12. Counts(s, S, off)
    BY <1>4, <1>5, <1>7, <1>9, <1>10, <1>11 DEF Counts
  <1> QED BY <1>8, <1>12

---------------------------------------------------------------------------
(* Classes *)

\* The way up from a class
IsChain(s, c) ==
  /\ s \in Seq(Classes) /\ Len(s) >= 1 /\ s[1] = c
  /\ \A i \in 1..Len(s) : Super[s[i]] = IF i < Len(s) THEN s[i + 1] ELSE Nil

LEMMA SuperTypes ==
  /\ Nil \notin Classes
  /\ \A c \in Classes : Super[c] = Nil \/ Super[c] \in Classes
  BY TypesAssumption

LEMMA TopChain ==
  ASSUME NEW c \in Classes, Super[c] = Nil
  PROVE  IsChain(<<c>>, c)
  BY DEF IsChain

LEMMA LongerChain ==
  ASSUME NEW c \in Classes, NEW d \in Classes, Super[c] = d, NEW s, IsChain(s, d)
  PROVE  IsChain(<<c>> \o s, c)
  <1>1. s \in Seq(Classes) /\ Len(s) \in Nat /\ <<c>> \in Seq(Classes) /\ Len(<<c>>) = 1
    BY LenProperties, Single DEF IsChain
  <1> DEFINE t == <<c>> \o s
  <1>2. /\ t \in Seq(Classes) /\ Len(t) = 1 + Len(s)
        /\ \A i \in 1..(1 + Len(s)) : t[i] = IF i <= 1 THEN <<c>>[i] ELSE s[i - 1]
    BY <1>1, ConcatProperties
  <1>3. t[1] = c /\ \A i \in 1..Len(s) : t[i + 1] = s[i]
    BY <1>1, <1>2
  <1> HIDE DEF t
  <1>4. ASSUME NEW i \in 1..Len(t) PROVE Super[t[i]] = IF i < Len(t) THEN t[i + 1] ELSE Nil
    <2>1. CASE i = 1
      BY <1>1, <1>2, <1>3, <2>1 DEF IsChain
    <2>2. CASE i # 1
      <3>1. i - 1 \in 1..Len(s) /\ t[i] = s[i - 1]
        BY <1>1, <1>2, <1>4, <2>2
      <3>2. Super[s[i - 1]] = IF i - 1 < Len(s) THEN s[i] ELSE Nil
        BY <1>1, <3>1 DEF IsChain
      <3>3. i - 1 < Len(s) => t[i + 1] = s[i]
        BY <1>1, <1>3, <3>1
      <3> QED BY <1>1, <1>2, <3>1, <3>2, <3>3
    <2> QED BY <2>1, <2>2
  <1>5. IsChain(t, c)
    BY <1>1, <1>2, <1>3, <1>4 DEF IsChain
  <1> QED BY <1>5 DEF t

LEMMA OneChain ==
  ASSUME NEW c, NEW s, NEW t, IsChain(s, c), IsChain(t, c)
  PROVE  s = t
  <1>1. /\ Len(s) \in Nat /\ Len(t) \in Nat /\ Len(s) >= 1 /\ Len(t) >= 1
        /\ s \in Seq(Classes) /\ t \in Seq(Classes)
        /\ \A i \in 1..Len(s) : s[i] \in Classes
        /\ \A i \in 1..Len(t) : t[i] \in Classes
    BY LenProperties DEF IsChain
  <1> DEFINE Bad == {i \in Nat : i \in 1..Len(s) /\ i \in 1..Len(t) /\ s[i] # t[i]}
  <1>2. Bad = {}
    <2> SUFFICES ASSUME Bad # {} PROVE FALSE
      OBVIOUS
    <2>1. Bad \in SUBSET Nat
      OBVIOUS
    <2> HIDE DEF Bad
    <2>2. PICK i \in Bad : \A j \in Bad : i <= j
      BY <2>1, LeastNatural
    <2>3. i \in Nat /\ i \in 1..Len(s) /\ i \in 1..Len(t) /\ s[i] # t[i]
      BY DEF Bad
    <2>4. i # 1
      BY <2>3 DEF IsChain
    <2>5. i - 1 \in Nat /\ i - 1 \in 1..Len(s) /\ i - 1 \in 1..Len(t) /\ ~(i <= i - 1)
      BY <1>1, <2>3, <2>4
    <2>6. s[i - 1] = t[i - 1]
      BY <2>2, <2>5 DEF Bad
    <2>7. Super[s[i - 1]] = s[i] /\ Super[t[i - 1]] = t[i]
      <3>1. i - 1 < Len(s) /\ i - 1 < Len(t) /\ (i - 1) + 1 = i
        BY <1>1, <2>3, <2>5
      <3> QED BY <2>5, <3>1 DEF IsChain
    <2> QED BY <2>3, <2>6, <2>7
  <1>3. Len(s) = Len(t)
    <2>1. ~(Len(s) < Len(t))
      <3> SUFFICES ASSUME Len(s) < Len(t) PROVE FALSE
        OBVIOUS
      <3>1. Len(s) \in 1..Len(s) /\ Len(s) \in 1..Len(t) /\ Len(s) + 1 \in 1..Len(t)
        BY <1>1
      <3>2. s[Len(s)] = t[Len(s)]
        BY <1>1, <1>2, <3>1
      <3> QED BY <1>1, <3>1, <3>2, SuperTypes DEF IsChain
    <2>2. ~(Len(t) < Len(s))
      <3> SUFFICES ASSUME Len(t) < Len(s) PROVE FALSE
        OBVIOUS
      <3>1. Len(t) \in 1..Len(t) /\ Len(t) \in 1..Len(s) /\ Len(t) + 1 \in 1..Len(s)
        BY <1>1
      <3>2. s[Len(t)] = t[Len(t)]
        BY <1>1, <1>2, <3>1
      <3> QED BY <1>1, <3>1, <3>2, SuperTypes DEF IsChain
    <2> QED BY <1>1, <2>1, <2>2
  <1>4. \A i \in 1..Len(s) : s[i] = t[i]
    BY <1>1, <1>2, <1>3
  <1> QED BY <1>1, <1>3, <1>4, SeqEqual

\* The way up from a class begins with the class.
LEMMA ChainOfClass ==
  ASSUME NEW c \in Classes
  PROVE  IsChain(SuperChain[c], c)
  <1> DEFINE Up(g, d) == IF Super[d] = Nil THEN <<d>> ELSE <<d>> \o g[Super[d]]
             Without == {d \in Classes : \A s : ~IsChain(s, d)}
             way == [d \in Classes |-> CHOOSE s : IsChain(s, d)]
  <1>1. Without = {}
    <2> SUFFICES ASSUME Without # {} PROVE FALSE
      OBVIOUS
    <2>1. PICK d \in Without : Super[d] \notin Without
      BY TypesAssumption
    <2>2. d \in Classes /\ \A s : ~IsChain(s, d)
      BY <2>1
    <2>3. Super[d] \in Classes
      BY <2>2, SuperTypes, TopChain
    <2>4. PICK s : IsChain(s, Super[d])
      BY <2>1, <2>3
    <2> QED BY <2>2, <2>3, <2>4, LongerChain
  <1>2. \A d \in Classes : IsChain(way[d], d)
    BY <1>1
  <1> HIDE DEF way
  <1>3. \A d \in Classes : way[d] = Up(way, d)
    <2> TAKE d \in Classes
    <2>1. IsChain(Up(way, d), d)
      BY <1>2, SuperTypes, TopChain, LongerChain
    <2> HIDE DEF Up
    <2> QED BY <1>2, <2>1, OneChain
  <1>4. way = [d \in Classes |-> Up(way, d)]
    BY <1>3 DEF way
  <1>5. SuperChain = [d \in Classes |-> Up(SuperChain, d)]
    BY <1>4 DEF SuperChain
  <1> DEFINE Wrong == {d \in Classes : ~IsChain(SuperChain[d], d)}
  <1>6. Wrong = {}
    <2> SUFFICES ASSUME Wrong # {} PROVE FALSE
      OBVIOUS
    <2>1. PICK d \in Wrong : Super[d] \notin Wrong
      BY TypesAssumption
    <2>2. d \in Classes /\ SuperChain[d] = Up(SuperChain, d) /\ ~IsChain(SuperChain[d], d)
      BY <1>5, <2>1
    <2>3. Super[d] # Nil /\ Super[d] \in Classes
      BY <2>2, SuperTypes, TopChain
    <2>4. IsChain(SuperChain[Super[d]], Super[d])
      BY <2>1, <2>3
    <2> QED BY <2>2, <2>3, <2>4, LongerChain
  <1> QED BY <1>6

---------------------------------------------------------------------------
(* Members *)

MethodRecords ==
  [class : Classes, name : STRING, args : Seq(Types), ret : Types \cup {Void},
   static : BOOLEAN, code : BOOLEAN, lines : LineTables]

LEMMA MethodTypes ==
  /\ \A c \in Classes : Declared[c] \in Seq(Methods)
  /\ \A c \in Classes : \A m \in Range(Declared[c]) : m \in Methods /\ m.class = c
  /\ \A m \in Methods : m \in MethodRecords /\ m \in Range(Declared[m.class])
  /\ \A m \in Methods : m.name = "<init>" => m.ret = Void
  <1>1. ASSUME NEW c \in Classes
        PROVE  /\ Declared[c] \in Seq(Methods)
               /\ \A m \in Range(Declared[c]) :
                    m \in Methods /\ m.class = c /\ m \in MethodRecords
                      /\ (m.name = "<init>" => m.ret = Void)
    <2> DEFINE R == [class : {c}, name : STRING, args : Seq(Types), ret : Types \cup {Void},
                     static : BOOLEAN, code : BOOLEAN, lines : LineTables]
    <2>1. Declared[c] \in Seq(R)
      BY MembersAssumption
    <2> HIDE DEF R
    <2>2. /\ DOMAIN Declared[c] = 1..Len(Declared[c]) /\ Len(Declared[c]) \in Nat
          /\ \A i \in 1..Len(Declared[c]) : Declared[c][i] \in R
          /\ Declared[c] \in [1..Len(Declared[c]) -> R]
      BY <2>1, LenProperties
    <2>3. \A m \in R : m.class = c /\ m \in MethodRecords
      BY DEF R, MethodRecords
    <2>4. \A i \in 1..Len(Declared[c]) : Declared[c][i] \in Methods
      BY <2>2 DEF Methods, Range
    <2>5. Declared[c] \in Seq(Methods)
      BY <2>2, <2>4
    <2>6. \A m \in Range(Declared[c]) : m \in Methods /\ m \in R
      BY <2>2, <2>4 DEF Range
    <2> QED BY <2>3, <2>5, <2>6, MembersAssumption
  <1>2. \A m \in Methods : \E c \in Classes : m \in Range(Declared[c])
    BY DEF Methods
  <1> QED BY <1>1, <1>2

\* Of one class and signature there is one method.
LEMMA OneSignature ==
  ASSUME NEW m \in Methods, NEW n \in Methods, m.class = n.class,
         m.name = n.name, m.args = n.args, m.ret = n.ret
  PROVE  m = n
  <1>1. m.class \in Classes /\ m \in Range(Declared[m.class]) /\ n \in Range(Declared[m.class])
    BY MethodTypes DEF MethodRecords
  <1>2. \A c \in Classes : \A p, q \in Range(Declared[c]) :
          p.name = q.name /\ p.args = q.args /\ p.ret = q.ret => p = q
    BY MembersAssumption
  <1> QED BY <1>1, <1>2

LEMMA InterfacesTypes ==
  ASSUME NEW c \in Classes
  PROVE  /\ WithInterfaces(c) \in Seq(Methods)
         /\ Len(Declared[c]) \in Nat /\ Len(Declared[c]) <= Len(WithInterfaces(c))
         /\ \A i \in 1..Len(Declared[c]) : WithInterfaces(c)[i] = Declared[c][i]
  <1> DEFINE more == [i \in DOMAIN Interfaces[c] |-> Declared[Interfaces[c][i]]]
  <1>1. Interfaces[c] \in Seq(Classes)
    BY TypesAssumption
  <1>2. /\ DOMAIN Interfaces[c] = 1..Len(Interfaces[c]) /\ Len(Interfaces[c]) \in Nat
        /\ \A i \in 1..Len(Interfaces[c]) : Interfaces[c][i] \in Classes
    BY <1>1, LenProperties
  <1>3. \A i \in 1..Len(Interfaces[c]) : Declared[Interfaces[c][i]] \in Seq(Methods)
    BY <1>2, MethodTypes
  <1>4. more \in Seq(Seq(Methods))
    BY <1>2, <1>3
  <1>5. FlattenSeq(more) \in Seq(Methods) /\ Declared[c] \in Seq(Methods)
    BY <1>4, FlattenProperties, MethodTypes
  <1>6. WithInterfaces(c) = Declared[c] \o FlattenSeq(more)
    BY DEF WithInterfaces
  <1> HIDE DEF more
  <1> QED BY <1>5, <1>6, ConcatProperties, LenProperties

\* What find_methods goes through: the methods of the classes up from c, with
\* those of their interfaces.
AllMethods(c) == FlattenSeq([i \in DOMAIN SuperChain[c] |-> WithInterfaces(SuperChain[c][i])])

\* Going through the classes up from c, what c itself has comes first.
LEMMA UpFrom ==
  ASSUME NEW c \in Classes, NEW X \in [Classes -> Seq(Methods)],
         NEW all, all = FlattenSeq([i \in DOMAIN SuperChain[c] |-> X[SuperChain[c][i]]])
  PROVE  /\ all \in Seq(Methods)
         /\ Len(X[c]) \in Nat /\ Len(X[c]) <= Len(all)
         /\ \A k \in 1..Len(X[c]) : all[k] = X[c][k]
  <1> DEFINE ss == [i \in DOMAIN SuperChain[c] |-> X[SuperChain[c][i]]]
  <1>1. /\ SuperChain[c] \in Seq(Classes) /\ Len(SuperChain[c]) \in Nat
        /\ 1 \in 1..Len(SuperChain[c]) /\ SuperChain[c][1] = c
        /\ DOMAIN SuperChain[c] = 1..Len(SuperChain[c])
        /\ \A i \in 1..Len(SuperChain[c]) : SuperChain[c][i] \in Classes
    BY ChainOfClass, LenProperties DEF IsChain
  <1>2. ss \in [1..Len(SuperChain[c]) -> Seq(Methods)] /\ ss[1] = X[c]
    <2>1. \A i \in 1..Len(SuperChain[c]) : X[SuperChain[c][i]] \in Seq(Methods)
      BY <1>1
    <2> QED BY <1>1, <2>1
  <1>3. all = FlattenSeq(ss)
    OBVIOUS
  <1> HIDE DEF ss
  <1>4. ss \in Seq(Seq(Methods)) /\ 1 \in 1..Len(ss)
    <2>1. ss \in Seq(Seq(Methods)) /\ Len(ss) = Len(SuperChain[c])
      BY <1>1, <1>2, IsSequence
    <2> QED BY <1>1, <2>1
  <1>5. PICK off :
          /\ Offsets(ss, off)
          /\ Len(FlattenSeq(ss)) = off[Len(ss)]
          /\ \A i \in 1..Len(ss) : \A k \in 1..Len(ss[i]) :
               /\ off[i - 1] + k \in 1..Len(FlattenSeq(ss))
               /\ FlattenSeq(ss)[off[i - 1] + k] = ss[i][k]
          /\ \A p \in 1..Len(FlattenSeq(ss)) :
               \E i \in 1..Len(ss) : \E k \in 1..Len(ss[i]) : p = off[i - 1] + k
    BY <1>4, FlattenProperties
  <1>6. \A k \in 1..Len(X[c]) : k \in 1..Len(all) /\ all[k] = X[c][k]
    <2>1. off[0] = 0 /\ 1 - 1 = 0
      BY <1>5 DEF Offsets
    <2>2. \A k \in 1..Len(ss[1]) :
            0 + k \in 1..Len(FlattenSeq(ss)) /\ FlattenSeq(ss)[0 + k] = ss[1][k]
      BY <1>4, <1>5, <2>1
    <2>3. \A k \in 1..Len(ss[1]) : 0 + k = k
      OBVIOUS
    <2> QED BY <1>2, <1>3, <2>2, <2>3
  <1>7. all \in Seq(Methods) /\ Len(all) \in Nat /\ Len(X[c]) \in Nat
    BY <1>3, <1>4, FlattenProperties, LenProperties
  <1>8. Len(X[c]) <= Len(all)
    <2>1. CASE Len(X[c]) = 0
      BY <1>7, <2>1
    <2>2. CASE Len(X[c]) # 0
      BY <1>6, <1>7, <2>2
    <2> QED BY <2>1, <2>2
  <1> QED BY <1>6, <1>7, <1>8

\* The methods of the class itself come first.
LEMMA AllMethodsTypes ==
  ASSUME NEW c \in Classes
  PROVE  /\ AllMethods(c) \in Seq(Methods)
         /\ Len(Declared[c]) \in Nat /\ Len(Declared[c]) <= Len(AllMethods(c))
         /\ \A i \in 1..Len(Declared[c]) : AllMethods(c)[i] = Declared[c][i]
  <1> DEFINE X == [d \in Classes |-> WithInterfaces(d)]
  <1>1. X \in [Classes -> Seq(Methods)] /\ X[c] = WithInterfaces(c)
    BY InterfacesTypes
  <1>2. AllMethods(c) = FlattenSeq([i \in DOMAIN SuperChain[c] |-> X[SuperChain[c][i]]])
    <2>1. \A i \in DOMAIN SuperChain[c] : SuperChain[c][i] \in Classes
      BY ChainOfClass, LenProperties DEF IsChain
    <2>2. [i \in DOMAIN SuperChain[c] |-> X[SuperChain[c][i]]]
            = [i \in DOMAIN SuperChain[c] |-> WithInterfaces(SuperChain[c][i])]
      BY <2>1
    <2> QED BY <2>2 DEF AllMethods
  <1> HIDE DEF X
  <1>3. /\ AllMethods(c) \in Seq(Methods) /\ Len(AllMethods(c)) \in Nat
        /\ Len(X[c]) \in Nat /\ Len(X[c]) <= Len(AllMethods(c))
        /\ \A k \in 1..Len(X[c]) : AllMethods(c)[k] = X[c][k]
    BY <1>1, <1>2, UpFrom, LenProperties
  <1> QED BY <1>1, <1>3, InterfacesTypes

\* What GetMethodID goes through first.
LEMMA AllDeclared ==
  ASSUME NEW c \in Classes,
         NEW all, all = FlattenSeq([i \in DOMAIN SuperChain[c] |-> Declared[SuperChain[c][i]]])
  PROVE  /\ all \in Seq(Methods)
         /\ Len(Declared[c]) \in Nat /\ Len(Declared[c]) <= Len(all)
         /\ \A i \in 1..Len(Declared[c]) : all[i] = Declared[c][i]
  <1> DEFINE X == [d \in Classes |-> Declared[d]]
  <1>1. X \in [Classes -> Seq(Methods)] /\ X[c] = Declared[c]
    BY MethodTypes
  <1>2. all = FlattenSeq([i \in DOMAIN SuperChain[c] |-> X[SuperChain[c][i]]])
    <2>1. \A i \in DOMAIN SuperChain[c] : SuperChain[c][i] \in Classes
      BY ChainOfClass, LenProperties DEF IsChain
    <2>2. [i \in DOMAIN SuperChain[c] |-> X[SuperChain[c][i]]]
            = [i \in DOMAIN SuperChain[c] |-> Declared[SuperChain[c][i]]]
      BY <2>1
    <2> QED BY <2>2
  <1> HIDE DEF X
  <1>3. /\ all \in Seq(Methods)
        /\ Len(X[c]) \in Nat /\ Len(X[c]) <= Len(all)
        /\ \A k \in 1..Len(X[c]) : all[k] = X[c][k]
    BY <1>1, <1>2, UpFrom
  <1> QED BY <1>1, <1>3

\* The methods of a name are those that are gone through and have it, each with
\* the class they were looked for in.
LEMMA FindMethodsTypes ==
  ASSUME NEW c \in Classes, NEW name \in Names
  PROVE  /\ FindMethods[c][name] \in Seq(MethodIds)
         /\ \A i \in 1..Len(FindMethods[c][name]) : FindMethods[c][name][i].class = c
         /\ \E count :
              /\ Counts(AllMethods(c), {m \in Methods : LuaName(m) = name}, count)
              /\ Len(FindMethods[c][name]) = Len(Only(AllMethods(c), {m \in Methods : LuaName(m) = name}))
              /\ \A i \in 1..Len(FindMethods[c][name]) :
                   FindMethods[c][name][i].raw = Only(AllMethods(c), {m \in Methods : LuaName(m) = name})[i]
  <1> DEFINE S == {m \in Methods : LuaName(m) = name}
             hits == Only(AllMethods(c), S)
  <1>1. FindMethods[c][name] = [i \in DOMAIN hits |-> [raw |-> hits[i], class |-> c]]
    BY DEF FindMethods, AllMethods
  <1>2. hits \in Seq(Methods \cap S)
    BY AllMethodsTypes, OnlyProperties
  <1>3. PICK count : Counts(AllMethods(c), S, count)
    BY AllMethodsTypes, OnlyProperties
  <1> HIDE DEF hits
  <1>4. DOMAIN hits = 1..Len(hits) /\ Len(hits) \in Nat /\ \A i \in 1..Len(hits) : hits[i] \in Methods
    BY <1>2, LenProperties
  <1>5. /\ FindMethods[c][name] \in [1..Len(hits) -> MethodIds]
        /\ \A i \in 1..Len(hits) : /\ FindMethods[c][name][i].raw = hits[i]
                                   /\ FindMethods[c][name][i].class = c
    BY <1>1, <1>4 DEF MethodIds
  <1>6. FindMethods[c][name] \in Seq(MethodIds) /\ Len(FindMethods[c][name]) = Len(hits)
    BY <1>4, <1>5
  <1> QED BY <1>3, <1>5, <1>6 DEF hits

\* A method is its class's own when it is the one the class declares, if any.
Own(e) ==
  \A m \in Methods :
    m.class = e.class /\ m.name = e.raw.name /\ m.args = e.raw.args /\ m.ret = e.raw.ret
      => m = e.raw

\* Of the elements of a sequence that are in S, those before position n come first.
LEMMA OnlyFirst ==
  ASSUME NEW A, NEW s \in Seq(A), NEW S, NEW count, Counts(s, S, count),
         NEW k \in 1..Len(s), NEW p \in 1..Len(s), s[k] \in S, s[p] \in S, k < p
  PROVE  count[k] < count[p] /\ count[k] \in 1..Len(Only(s, S)) /\ count[p] \in 1..Len(Only(s, S))
  <1>1. k \in 0..Len(s) /\ p - 1 \in 0..Len(s) /\ k <= p - 1 /\ Len(s) \in Nat
    BY LenProperties
  <1>2. count[k] <= count[p - 1] /\ count[p] = count[p - 1] + 1
    BY <1>1 DEF Counts
  <1>3. count[k] \in Nat /\ count[p - 1] \in Nat
    BY <1>1 DEF Counts
  <1> QED BY <1>2, <1>3 DEF Counts

\* jmethod_id.find finds the method of the class itself when there is one.
LEMMA FindMethodTypes ==
  ASSUME NEW c \in Classes, NEW name, NEW args, NEW ret, NEW e \in FindMethod(c, name, args, ret)
  PROVE  e \in MethodIds /\ e.class = c /\ Own(e)
  <1> DEFINE S == {m \in Methods : /\ m.name = name /\ m.args = args /\ m.ret = ret
                                   /\ name = "<init>" => m.class = c}
             all == FlattenSeq([i \in DOMAIN SuperChain[c] |-> Declared[SuperChain[c][i]]])
             own == Only(all, S)
  <1>1. /\ GetMethodID(c, name, args, ret)
             = IF own # <<>> THEN {Head(own)} ELSE {m \in S : m.class \in Ancestors[c]}
        /\ e = [raw |-> e.raw, class |-> c] /\ e.raw \in GetMethodID(c, name, args, ret)
    <2>1. PICK raw \in GetMethodID(c, name, args, ret) : e = [raw |-> raw, class |-> c]
      BY DEF FindMethod
    <2>2. GetMethodID(c, name, args, ret)
             = IF own # <<>> THEN {Head(own)} ELSE {m \in S : m.class \in Ancestors[c]}
      BY DEF GetMethodID
    <2> QED BY <2>1, <2>2
  <1>2. /\ all \in Seq(Methods)
        /\ Len(Declared[c]) \in Nat /\ Len(Declared[c]) <= Len(all)
        /\ \A i \in 1..Len(Declared[c]) : all[i] = Declared[c][i]
    BY AllDeclared
  <1> HIDE DEF all
  <1>3. own \in Seq(Methods \cap S)
    BY <1>2, OnlyProperties
  <1>4. PICK count : Counts(all, S, count)
    BY <1>2, OnlyProperties
  <1>5. Len(own) \in Nat /\ (own # <<>> => Len(own) >= 1 /\ Head(own) = own[1] /\ own[1] \in S)
    BY <1>3, EmptySeq, LenProperties
  <1>6. e.raw \in S /\ e.raw \in Methods
    BY <1>1, <1>5
  <1>7. e \in MethodIds /\ e.class = c
    BY <1>1, <1>6 DEF MethodIds
  <1>8. ASSUME NEW m \in Methods, m.class = c, m.name = e.raw.name, m.args = e.raw.args,
               m.ret = e.raw.ret
        PROVE  m = e.raw
    <2>1. m \in S
      BY <1>6, <1>8
    <2>2. Declared[c] \in Seq(Methods) /\ m \in Range(Declared[c])
      BY <1>8, MethodTypes
    <2>3. PICK k \in 1..Len(Declared[c]) : Declared[c][k] = m
      BY <2>2, LenProperties DEF Range
    <2>4. k \in 1..Len(all) /\ all[k] = m /\ Len(all) \in Nat
      BY <1>2, <2>3, LenProperties
    <2>5. count[k] \in 1..Len(own)
      BY <1>4, <2>1, <2>4 DEF Counts
    <2>6. own # <<>> /\ e.raw = own[1] /\ 1 \in 1..Len(own)
      BY <1>1, <1>5, <2>5, EmptySeq
    <2>7. PICK p \in 1..Len(all) : all[p] \in S /\ count[p] = 1 /\ own[1] = all[p]
      <3>1. \A j \in 1..Len(own) : \E i \in 1..Len(all) : all[i] \in S /\ count[i] = j
        BY <1>4 DEF Counts
      <3>2. PICK p \in 1..Len(all) : all[p] \in S /\ count[p] = 1
        BY <2>6, <3>1
      <3>3. own[count[p]] = all[p]
        BY <1>4, <3>2 DEF Counts
      <3> QED BY <3>2, <3>3
    <2>8. ~(k < p)
      BY <1>2, <1>4, <1>5, <2>1, <2>4, <2>5, <2>7, OnlyFirst
    <2>9. p \in 1..Len(Declared[c])
      BY <1>2, <2>3, <2>4, <2>7, <2>8
    <2>10. e.raw \in Range(Declared[c])
      BY <1>2, <2>2, <2>6, <2>7, <2>9, LenProperties DEF Range
    <2>11. e.raw.class = c
      BY <2>10, MethodTypes
    <2> QED BY <1>6, <1>8, <2>11, OneSignature
  <1> QED BY <1>7, <1>8 DEF Own

\* A method of the name that is not its class's own comes after the one that is.
LEMMA OwnComesFirst ==
  ASSUME NEW c \in Classes, NEW name \in Names, NEW j \in 1..Len(FindMethods[c][name]),
         ~Own(FindMethods[c][name][j])
  PROVE  \E k \in 1..(j - 1) : SameMethod(FindMethods[c][name][k], FindMethods[c][name][j])
  <1> DEFINE ms == FindMethods[c][name]
             all == AllMethods(c)
             S == {m \in Methods : LuaName(m) = name}
             hits == Only(all, S)
  <1>1. PICK count :
          /\ Counts(all, S, count)
          /\ Len(ms) = Len(hits)
          /\ \A i \in 1..Len(ms) : ms[i].raw = hits[i]
    BY FindMethodsTypes
  <1>2. ms \in Seq(MethodIds) /\ \A i \in 1..Len(ms) : ms[i].class = c
    BY FindMethodsTypes
  <1>3. /\ all \in Seq(Methods)
        /\ Len(Declared[c]) \in Nat /\ Len(Declared[c]) <= Len(all)
        /\ \A i \in 1..Len(Declared[c]) : all[i] = Declared[c][i]
    BY AllMethodsTypes
  <1>4. ~Own(ms[j]) /\ j \in 1..Len(ms) /\ Len(ms) \in Nat /\ Len(all) \in Nat
    BY <1>2, <1>3, LenProperties
  <1> HIDE DEF ms, all
  <1>5. hits \in Seq(Methods \cap S)
    BY <1>3, OnlyProperties
  <1>6. hits[j] \in Methods /\ hits[j] \in S /\ ms[j].raw = hits[j]
    BY <1>1, <1>4, <1>5, LenProperties
  <1>7. PICK m \in Methods : /\ m.class = c /\ m.name = ms[j].raw.name /\ m.args = ms[j].raw.args
                             /\ m.ret = ms[j].raw.ret /\ m # ms[j].raw
    BY <1>2, <1>4 DEF Own
  <1>8. m \in S
    BY <1>6, <1>7 DEF LuaName
  <1>9. Declared[c] \in Seq(Methods) /\ m \in Range(Declared[c])
    BY <1>7, MethodTypes
  <1>10. PICK k \in 1..Len(Declared[c]) : Declared[c][k] = m
    BY <1>9, LenProperties DEF Range
  <1>11. k \in 1..Len(all) /\ all[k] = m
    BY <1>3, <1>4, <1>10
  <1>12. PICK p \in 1..Len(all) : all[p] \in S /\ count[p] = j
    <2>1. \A i \in 1..Len(hits) : \E q \in 1..Len(all) : all[q] \in S /\ count[q] = i
      BY <1>1 DEF Counts
    <2> QED BY <1>1, <1>4, <2>1
  <1>13. hits[j] = all[p]
    BY <1>1, <1>12 DEF Counts
  <1>14. ~(p <= k)
    <2>1. ASSUME p <= k PROVE p \in 1..Len(Declared[c])
      BY <1>3, <1>10, <1>12, <2>1
    <2>2. ASSUME p <= k PROVE all[p] \in Range(Declared[c])
      BY <1>3, <1>9, <2>1, <2>2, LenProperties DEF Range
    <2>3. ASSUME p <= k PROVE all[p].class = c
      BY <2>2, <2>3, MethodTypes
    <2> QED BY <1>6, <1>7, <1>13, <2>3, OneSignature
  <1>15. k < p
    BY <1>11, <1>12, <1>14
  <1>16. count[k] < count[p] /\ count[k] \in 1..Len(hits)
    BY <1>1, <1>3, <1>8, <1>11, <1>12, <1>15, OnlyFirst
  <1>17. hits[count[k]] = m
    BY <1>1, <1>8, <1>11 DEF Counts
  <1>18. count[k] \in 1..(j - 1) /\ ms[count[k]].raw = m /\ ms[count[k]].class = c /\ ms[j].class = c
    BY <1>1, <1>2, <1>4, <1>12, <1>16, <1>17
  <1>19. SameMethod(ms[count[k]], ms[j])
    BY <1>7, <1>18 DEF SameMethod
  <1> QED BY <1>18, <1>19 DEF ms

---------------------------------------------------------------------------
(* Lines and locations *)

LEMMA LeastOf ==
  ASSUME NEW S \in SUBSET Nat, S # {}
  PROVE  Min(S) \in S /\ \A n \in S : Min(S) <= n
  BY LeastNatural DEF Min

LEMMA LinesOfMethod ==
  ASSUME NEW m \in Methods
  PROVE  /\ Len(m.lines) \in Nat /\ DOMAIN m.lines = 1..Len(m.lines)
         /\ m.lines = <<>> <=> Len(m.lines) = 0
         /\ \A i \in 1..Len(m.lines) : m.lines[i].location \in Nat /\ m.lines[i].line \in Nat \ {0}
  <1> DEFINE L == [location : Nat, line : Nat \ {0}]
  <1>1. m.lines \in Seq(L)
    BY MethodTypes DEF MethodRecords, LineTables
  <1>2. \A x \in L : x.location \in Nat /\ x.line \in Nat \ {0}
    OBVIOUS
  <1> HIDE DEF L
  <1>3. /\ Len(m.lines) \in Nat /\ DOMAIN m.lines = 1..Len(m.lines)
        /\ \A i \in 1..Len(m.lines) : m.lines[i] \in L
    BY <1>1, LenProperties
  <1>4. m.lines = <<>> <=> Len(m.lines) = 0
    BY <1>1, EmptySeq
  <1> QED BY <1>2, <1>3, <1>4

\* The entries of a line table that are not before a line.
After(m, line) == {i \in DOMAIN m.lines : line <= m.lines[i].line}

\* The cases of method_location_for_line_num, with what holds in each.
LEMMA WhereLineIs ==
  ASSUME NEW m \in Methods, NEW line \in Nat
  PROVE  \/ m.lines = <<>> /\ LocationForLine(m, line) = 0
         \/ /\ m.lines # <<>> /\ \A i \in 1..Len(m.lines) : m.lines[i].line < line
            /\ LocationForLine(m, line) = m.lines[Len(m.lines)].location
         \/ \E first \in 1..Len(m.lines) :
              /\ line <= m.lines[first].line
              /\ \A i \in 1..Len(m.lines) : i < first => m.lines[i].line < line
              /\ LocationForLine(m, line) =
                   IF m.lines[first].line = line THEN m.lines[first].location
                   ELSE IF first > 1 THEN m.lines[first - 1].location ELSE 0
  <1> DEFINE after == After(m, line)
  <1>1. /\ Len(m.lines) \in Nat /\ DOMAIN m.lines = 1..Len(m.lines)
        /\ m.lines = <<>> <=> Len(m.lines) = 0
        /\ \A i \in 1..Len(m.lines) : m.lines[i].location \in Nat /\ m.lines[i].line \in Nat \ {0}
    BY LinesOfMethod
  <1>2. LocationForLine(m, line) =
          IF m.lines = <<>> THEN 0
          ELSE IF after = {} THEN m.lines[Len(m.lines)].location
          ELSE IF m.lines[Min(after)].line = line THEN m.lines[Min(after)].location
          ELSE IF Min(after) > 1 THEN m.lines[Min(after) - 1].location
          ELSE 0
    BY DEF LocationForLine, After, Last
  <1>3. CASE m.lines = <<>>
    BY <1>2, <1>3
  <1>4. CASE m.lines # <<>> /\ after = {}
    <2>1. \A i \in 1..Len(m.lines) : ~(line <= m.lines[i].line)
      BY <1>1, <1>4 DEF After
    <2>2. \A i \in 1..Len(m.lines) : m.lines[i].line < line
      BY <1>1, <2>1
    <2> QED BY <1>2, <1>4, <2>2
  <1>5. CASE m.lines # <<>> /\ after # {}
    <2>1. after \in SUBSET Nat
      BY <1>1 DEF After
    <2> HIDE DEF after
    <2>2. Min(after) \in after /\ \A n \in after : Min(after) <= n
      BY <1>5, <2>1, LeastOf
    <2>3. Min(after) \in 1..Len(m.lines) /\ line <= m.lines[Min(after)].line
      BY <1>1, <2>2 DEF after, After
    <2>4. \A i \in 1..Len(m.lines) : i < Min(after) => m.lines[i].line < line
      <3>1. SUFFICES ASSUME NEW i \in 1..Len(m.lines), i < Min(after) PROVE m.lines[i].line < line
        OBVIOUS
      <3>2. i \notin after
        BY <2>2, <2>3, <3>1
      <3>3. ~(line <= m.lines[i].line)
        BY <1>1, <3>2 DEF after, After
      <3> QED BY <1>1, <3>3
    <2> QED BY <1>2, <1>5, <2>3, <2>4
  <1> QED BY <1>3, <1>4, <1>5

LEMMA LocationTypes ==
  ASSUME NEW m \in Methods
  PROVE  /\ \A line \in Nat : LocationForLine(m, line) \in Nat
         /\ LocationForLine(m, 0) = 0
  <1>1. /\ Len(m.lines) \in Nat
        /\ m.lines = <<>> <=> Len(m.lines) = 0
        /\ \A i \in 1..Len(m.lines) : m.lines[i].location \in Nat /\ m.lines[i].line \in Nat \ {0}
    BY LinesOfMethod
  <1>2. ASSUME NEW line \in Nat PROVE LocationForLine(m, line) \in Nat
    <2>1. ASSUME NEW first \in 1..Len(m.lines),
                 LocationForLine(m, line) =
                   IF m.lines[first].line = line THEN m.lines[first].location
                   ELSE IF first > 1 THEN m.lines[first - 1].location ELSE 0
          PROVE  LocationForLine(m, line) \in Nat
      <3>1. first > 1 => first - 1 \in 1..Len(m.lines)
        BY <1>1
      <3> QED BY <1>1, <2>1, <3>1
    <2>2. m.lines # <<>> => m.lines[Len(m.lines)].location \in Nat
      BY <1>1
    <2> QED BY <2>1, <2>2, WhereLineIs
  <1>3. LocationForLine(m, 0) = 0
    <2>1. CASE m.lines # <<>> /\ \A i \in 1..Len(m.lines) : m.lines[i].line < 0
      BY <1>1, <2>1
    <2>2. ASSUME NEW first \in 1..Len(m.lines),
                 \A i \in 1..Len(m.lines) : i < first => m.lines[i].line < 0,
                 LocationForLine(m, 0) =
                   IF m.lines[first].line = 0 THEN m.lines[first].location
                   ELSE IF first > 1 THEN m.lines[first - 1].location ELSE 0
          PROVE  LocationForLine(m, 0) = 0
      BY <1>1, <2>2
    <2> QED BY <2>1, <2>2, WhereLineIs
  <1> QED BY <1>2, <1>3

\* In a table in the order of its lines, the location is that of the last line
\* that is not after the one looked for.
LEMMA NearestLine ==
  ASSUME NEW m \in Methods, NEW line \in Nat, Ascending(m.lines),
         NEW j \in 1..Len(m.lines), m.lines[j].line <= line
  PROVE  \E k \in 1..Len(m.lines) :
           /\ m.lines[k].line <= line /\ m.lines[k].location = LocationForLine(m, line)
           /\ \A i \in 1..Len(m.lines) : m.lines[i].line <= line => m.lines[i].line <= m.lines[k].line
  <1>1. /\ Len(m.lines) \in Nat /\ DOMAIN m.lines = 1..Len(m.lines)
        /\ m.lines = <<>> <=> Len(m.lines) = 0
        /\ \A i \in 1..Len(m.lines) : m.lines[i].location \in Nat /\ m.lines[i].line \in Nat \ {0}
    BY LinesOfMethod
  <1>2. \A i, k \in 1..Len(m.lines) : i <= k => m.lines[i].line <= m.lines[k].line
    BY <1>1 DEF Ascending
  <1>3. CASE /\ \A i \in 1..Len(m.lines) : m.lines[i].line < line
             /\ LocationForLine(m, line) = m.lines[Len(m.lines)].location
    <2>1. Len(m.lines) \in 1..Len(m.lines)
      BY <1>1
    <2> QED BY <1>1, <1>2, <1>3, <2>1
  <1>4. ASSUME NEW first \in 1..Len(m.lines), line <= m.lines[first].line,
               \A i \in 1..Len(m.lines) : i < first => m.lines[i].line < line,
               LocationForLine(m, line) =
                 IF m.lines[first].line = line THEN m.lines[first].location
                 ELSE IF first > 1 THEN m.lines[first - 1].location ELSE 0
        PROVE  \E k \in 1..Len(m.lines) :
                 /\ m.lines[k].line <= line /\ m.lines[k].location = LocationForLine(m, line)
                 /\ \A i \in 1..Len(m.lines) :
                      m.lines[i].line <= line => m.lines[i].line <= m.lines[k].line
    <2>1. CASE m.lines[first].line = line
      BY <1>1, <1>4, <2>1
    <2>2. CASE m.lines[first].line # line
      <3>1. \A i \in 1..Len(m.lines) : m.lines[i].line <= line => i < first
        <4>1. SUFFICES ASSUME NEW i \in 1..Len(m.lines), m.lines[i].line <= line, ~(i < first)
                       PROVE  FALSE
          OBVIOUS
        <4>2. first <= i
          BY <4>1
        <4>3. m.lines[first].line <= m.lines[i].line
          BY <1>2, <4>2
        <4> QED BY <1>1, <1>4, <2>2, <4>1, <4>3
      <3>2. first > 1 /\ first - 1 \in 1..Len(m.lines) /\ first - 1 < first
        BY <1>1, <3>1
      <3>3. m.lines[first - 1].line <= line
        BY <1>1, <1>4, <3>2
      <3>4. \A i \in 1..Len(m.lines) : m.lines[i].line <= line => m.lines[i].line <= m.lines[first - 1].line
        <4>1. SUFFICES ASSUME NEW i \in 1..Len(m.lines), m.lines[i].line <= line
                       PROVE  m.lines[i].line <= m.lines[first - 1].line
          OBVIOUS
        <4>2. i <= first - 1
          BY <3>1, <4>1
        <4> QED BY <1>2, <3>2, <4>2
      <3> QED BY <1>4, <2>2, <3>2, <3>3, <3>4
    <2> QED BY <2>1, <2>2
  <1> QED BY <1>1, <1>3, <1>4, WhereLineIs

---------------------------------------------------------------------------
(* Breakpoints: the inductive invariant *)

LEMMA SameMethodAgain ==
  ASSUME NEW a, NEW b, NEW d, SameMethod(a, b), SameMethod(b, d)
  PROVE  SameMethod(a, d) /\ SameMethod(b, a)
  BY DEF SameMethod

\* Every entry is where its line is, and of the method its class has of its own,
\* if it has one.
Listed ==
  \A i \in 1..Len(breakpoints) :
    /\ breakpoints[i].location = LocationForLine(breakpoints[i].raw, breakpoints[i].line)
    /\ Own(breakpoints[i])

\* The calls of bp() in turn: a method that is not its class's own comes after the
\* one that is, and for those dealt with there is an entry.  Only of one method is
\* a line given.
InTurn(methods, next, line) ==
  /\ next \in 1..Len(methods)
  /\ Len(methods) = 1 \/ line = 0
  /\ \A j \in 1..Len(methods) :
       Own(methods[j]) \/ \E k \in 1..(j - 1) : SameMethod(methods[k], methods[j])
  /\ \A j \in 1..Len(methods) : j < next =>
       \E i \in 1..Len(breakpoints) :
         /\ SameMethod(breakpoints[i], methods[j])
         /\ breakpoints[i].location = LocationForLine(methods[j].raw, line)

Turn ==
  Adding =>
    /\ outcome \in [op : {"adding"}, methods : Seq(MethodIds), next : Nat, line : Nat]
    /\ InTurn(outcome.methods, outcome.next, outcome.line)

Set ==
  /\ {At(breakpoints[i]) : i \in 1..Len(breakpoints)} = set
  /\ \A i, j \in 1..Len(breakpoints) : At(breakpoints[i]) = At(breakpoints[j]) => i = j

BreakpointsInv ==
  /\ breakpoints \in Seq(BreakpointRecords)
  /\ Set
  /\ Listed
  /\ Turn

LEMMA Records ==
  ASSUME breakpoints \in Seq(BreakpointRecords)
  PROVE  /\ Len(breakpoints) \in Nat /\ DOMAIN breakpoints = 1..Len(breakpoints)
         /\ \A i \in 1..Len(breakpoints) :
              /\ breakpoints[i] \in BreakpointRecords
              /\ breakpoints[i].raw \in Methods /\ breakpoints[i].class \in Classes
              /\ breakpoints[i].line \in Nat /\ breakpoints[i].location \in Nat
              /\ At(breakpoints[i]) \in [raw : Methods, location : Nat]
  <1>1. /\ Len(breakpoints) \in Nat /\ DOMAIN breakpoints = 1..Len(breakpoints)
        /\ \A i \in 1..Len(breakpoints) : breakpoints[i] \in BreakpointRecords
    BY LenProperties
  <1>2. \A b \in BreakpointRecords :
          /\ b.raw \in Methods /\ b.class \in Classes /\ b.line \in Nat /\ b.location \in Nat
          /\ At(b) \in [raw : Methods, location : Nat]
    BY DEF BreakpointRecords, At
  <1> QED BY <1>1, <1>2

\* What else is typed, and what Java does, leaves the breakpoints alone.
LEMMA BreakpointsAlone ==
  ASSUME BreakpointsInv, UNCHANGED <<breakpoints, set>>, outcome'.op # "adding"
  PROVE  BreakpointsInv'
  BY DEF BreakpointsInv, Set, Listed, Turn, Adding

LEMMA BpInvariant ==
  ASSUME BreakpointsInv, NEW methods \in Seq(MethodIds), NEW line \in Nat,
         Len(methods) \in Nat \ {0}, Len(methods) = 1 \/ line = 0,
         \A j \in 1..Len(methods) :
           Own(methods[j]) \/ \E k \in 1..(j - 1) : SameMethod(methods[k], methods[j]),
         Bp(methods, line)
  PROVE  BreakpointsInv'
  <1>1. /\ outcome' = [op |-> "adding", methods |-> methods, next |-> 1, line |-> line]
        /\ UNCHANGED <<breakpoints, set>>
    BY DEF Bp, breakpointVars
  <1>2. outcome' \in [op : {"adding"}, methods : Seq(MethodIds), next : Nat, line : Nat]
    BY <1>1
  <1>3. outcome'.methods = methods /\ outcome'.next = 1 /\ outcome'.line = line
    BY <1>1
  <1>4. InTurn(methods, 1, line)'
    <2>1. 1 \in 1..Len(methods) /\ \A j \in 1..Len(methods) : ~(j < 1)
      OBVIOUS
    <2> QED BY <2>1 DEF InTurn
  <1>5. Turn'
    BY <1>2, <1>3, <1>4 DEF Turn
  <1> QED BY <1>1, <1>5 DEF BreakpointsInv, Set, Listed

LEMMA BpMethodInvariant ==
  ASSUME BreakpointsInv, NEW m \in Stops, NEW c \in Classes, NEW line \in Lines,
         BpMethod(c, m.name, m.args, m.ret, line)
  PROVE  BreakpointsInv'
  <1>1. PICK e \in FindMethod(c, m.name, m.args, m.ret) : Bp(<<e>>, line)
    BY DEF BpMethod
  <1>2. e \in MethodIds /\ Own(e)
    BY <1>1, FindMethodTypes
  <1>3. <<e>> \in Seq(MethodIds) /\ Len(<<e>>) = 1 /\ <<e>>[1] = e
    BY <1>2, Single
  <1>4. \A j \in 1..Len(<<e>>) : Own(<<e>>[j])
    BY <1>2, <1>3
  <1>5. line \in Nat
    BY BreakpointsAssumption
  <1> DEFINE ms == <<e>>
  <1>6. /\ ms \in Seq(MethodIds) /\ Len(ms) \in Nat \ {0} /\ Len(ms) = 1
        /\ \A j \in 1..Len(ms) : Own(ms[j])
        /\ Bp(ms, line)
    BY <1>1, <1>3, <1>4
  <1> HIDE DEF ms
  <1> QED BY <1>5, <1>6, BpInvariant

LEMMA BpCallableInvariant ==
  ASSUME BreakpointsInv, NEW m \in Stops, NEW c \in Classes, BpCallable(c, LuaName(m))
  PROVE  BreakpointsInv'
  <1> DEFINE ms == FindMethods[c][LuaName(m)]
  <1>1. LuaName(m) \in Names
    BY BreakpointsAssumption DEF Names
  <1>2. ms \in Seq(MethodIds) /\ ms # <<>> /\ Bp(ms, 0)
    BY <1>1, FindMethodsTypes DEF BpCallable
  <1>3. Len(ms) \in Nat \ {0}
    BY <1>2, EmptySeq
  <1>4. \A j \in 1..Len(ms) : Own(ms[j]) \/ \E k \in 1..(j - 1) : SameMethod(ms[k], ms[j])
    BY <1>1, OwnComesFirst
  <1> HIDE DEF ms
  <1> QED BY <1>2, <1>3, <1>4, BpInvariant

LEMMA NextTurn ==
  ASSUME BreakpointsInv, Adding, NextMethod,
         breakpoints' \in Seq(BreakpointRecords),
         Len(breakpoints') \in Nat, Len(breakpoints) <= Len(breakpoints'),
         \A i \in 1..Len(breakpoints) : breakpoints'[i] = breakpoints[i],
         \E i \in 1..Len(breakpoints') :
           /\ SameMethod(breakpoints'[i], outcome.methods[outcome.next])
           /\ breakpoints'[i].location
                = LocationForLine(outcome.methods[outcome.next].raw, outcome.line)
  PROVE  Turn'
  <1> DEFINE ms == outcome.methods
             n == outcome.next
             line == outcome.line
  <1>1. /\ outcome \in [op : {"adding"}, methods : Seq(MethodIds), next : Nat, line : Nat]
        /\ InTurn(ms, n, line)
    BY DEF BreakpointsInv, Turn
  <1>2. ms \in Seq(MethodIds) /\ Len(ms) \in Nat /\ n \in 1..Len(ms) /\ line \in Nat
    BY <1>1, LenProperties DEF InTurn
  <1>3. CASE ~(n < Len(ms))
    <2>1. outcome' = [op |-> "bp", failed |-> FALSE]
      BY <1>3 DEF NextMethod
    <2>2. outcome'.op # "adding"
      BY <2>1
    <2> QED BY <2>2 DEF Turn, Adding
  <1>4. CASE n < Len(ms)
    <2>1. outcome' = [outcome EXCEPT !.next = @ + 1]
      BY <1>4 DEF NextMethod
    <2>2. /\ outcome' \in [op : {"adding"}, methods : Seq(MethodIds), next : Nat, line : Nat]
          /\ outcome'.methods = ms /\ outcome'.next = n + 1 /\ outcome'.line = line
      <3>1. outcome = [op |-> "adding", methods |-> ms, next |-> n, line |-> line]
        BY <1>1
      <3>2. outcome' = [op |-> "adding", methods |-> ms, next |-> n + 1, line |-> line]
        BY <2>1, <3>1
      <3> HIDE DEF ms, n, line
      <3>3. n + 1 \in Nat
        BY <1>2
      <3> QED BY <1>2, <3>2, <3>3
    <2>3. n + 1 \in 1..Len(ms)
      BY <1>2, <1>4
    <2>4. ASSUME NEW j \in 1..Len(ms), j < n + 1
          PROVE  \E i \in 1..Len(breakpoints') :
                   /\ SameMethod(breakpoints'[i], ms[j])
                   /\ breakpoints'[i].location = LocationForLine(ms[j].raw, line)
      <3>1. CASE j = n
        BY <3>1
      <3>2. CASE j # n
        <4>1. j < n
          BY <1>2, <2>4, <3>2
        <4>2. PICK i \in 1..Len(breakpoints) :
                /\ SameMethod(breakpoints[i], ms[j])
                /\ breakpoints[i].location = LocationForLine(ms[j].raw, line)
          BY <1>1, <4>1 DEF InTurn
        <4>3. Len(breakpoints) \in Nat
          BY Records DEF BreakpointsInv
        <4>4. i \in 1..Len(breakpoints') /\ breakpoints'[i] = breakpoints[i]
          BY <4>2, <4>3
        <4> QED BY <4>2, <4>4
      <3> QED BY <3>1, <3>2
    <2>5. InTurn(outcome.methods, outcome.next, outcome.line)'
      BY <1>1, <2>2, <2>3, <2>4 DEF InTurn
    <2> QED BY <2>2, <2>5 DEF Turn
  <1> QED BY <1>3, <1>4

\* bp() of a method that is not its class's own comes when the one that is has a
\* breakpoint at the same location, and so lists none.
LEMMA OwnIsListed ==
  ASSUME BreakpointsInv, Adding,
         ~Exists(Breakpoint(outcome.methods[outcome.next], outcome.line))
  PROVE  Own(outcome.methods[outcome.next])
  <1> DEFINE ms == outcome.methods
             n == outcome.next
             line == outcome.line
             b == Breakpoint(ms[n], line)
  <1>1. /\ outcome \in [op : {"adding"}, methods : Seq(MethodIds), next : Nat, line : Nat]
        /\ InTurn(ms, n, line)
    BY DEF BreakpointsInv, Turn
  <1>2. /\ Len(ms) \in Nat /\ n \in 1..Len(ms)
        /\ \A i \in 1..Len(ms) : ms[i] \in MethodIds
    BY <1>1, LenProperties DEF InTurn
  <1>3. \A i \in 1..Len(ms) : ms[i].raw \in Methods
    BY <1>2 DEF MethodIds
  <1>4. SUFFICES ASSUME NEW k \in 1..(n - 1), SameMethod(ms[k], ms[n]) PROVE FALSE
    BY <1>1, <1>2 DEF InTurn
  <1>5. k \in 1..Len(ms) /\ k < n /\ line = 0
    BY <1>1, <1>2 DEF InTurn
  <1>6. PICK i \in 1..Len(breakpoints) :
          /\ SameMethod(breakpoints[i], ms[k])
          /\ breakpoints[i].location = LocationForLine(ms[k].raw, line)
    BY <1>1, <1>5 DEF InTurn
  <1>7. breakpoints[i].location = 0 /\ LocationForLine(ms[n].raw, line) = 0
    BY <1>2, <1>3, <1>5, <1>6, LocationTypes
  <1>8. SameMethod(breakpoints[i], ms[n])
    BY <1>4, <1>6, SameMethodAgain
  <1>9. /\ b.raw = ms[n].raw /\ b.class = ms[n].class /\ b.location = LocationForLine(ms[n].raw, line)
    BY DEF Breakpoint
  <1>10. SameMethod(breakpoints[i], b) /\ breakpoints[i].location = b.location
    BY <1>7, <1>8, <1>9 DEF SameMethod
  <1>11. i \in DOMAIN breakpoints
    BY Records DEF BreakpointsInv
  <1> QED BY <1>10, <1>11 DEF Exists

LEMMA AddInvariant ==
  ASSUME BreakpointsInv, Add
  PROVE  BreakpointsInv'
  <1> DEFINE ms == outcome.methods
             n == outcome.next
             line == outcome.line
             b == Breakpoint(ms[n], line)
  <1>1. Adding /\ \/ Exists(b) /\ NextMethod /\ UNCHANGED breakpointVars
                  \/ /\ ~Exists(b) /\ CanSet(b)
                     /\ set' = set \cup {At(b)}
                     /\ breakpoints' = Append(breakpoints, b)
                     /\ NextMethod
                  \/ /\ ~Exists(b) /\ ~CanSet(b)
                     /\ outcome' = [op |-> "bp", failed |-> TRUE]
                     /\ UNCHANGED breakpointVars
    BY DEF Add
  <1>2. /\ outcome \in [op : {"adding"}, methods : Seq(MethodIds), next : Nat, line : Nat]
        /\ InTurn(ms, n, line)
    BY <1>1 DEF BreakpointsInv, Turn
  <1>3. ms \in Seq(MethodIds) /\ Len(ms) \in Nat /\ n \in 1..Len(ms) /\ ms[n] \in MethodIds
        /\ line \in Nat
    BY <1>2, LenProperties DEF InTurn
  <1>4. ms[n].raw \in Methods /\ ms[n].class \in Classes
    BY <1>3 DEF MethodIds
  <1>5. /\ b.raw = ms[n].raw /\ b.class = ms[n].class /\ b.line = line
        /\ b.location = LocationForLine(ms[n].raw, line)
        /\ b \in BreakpointRecords
    <2>1. LocationForLine(ms[n].raw, line) \in Nat
      BY <1>3, <1>4, LocationTypes
    <2> QED BY <1>3, <1>4, <2>1 DEF Breakpoint, BreakpointRecords
  <1>6. SameMethod(b, ms[n])
    BY <1>5 DEF SameMethod
  <1>7. /\ Len(breakpoints) \in Nat /\ DOMAIN breakpoints = 1..Len(breakpoints)
        /\ breakpoints \in Seq(BreakpointRecords)
    BY Records DEF BreakpointsInv
  <1> HIDE DEF b, ms, n, line
  <1>8. CASE Exists(b) /\ NextMethod /\ UNCHANGED breakpointVars
    <2>1. PICK i \in 1..Len(breakpoints) :
            SameMethod(breakpoints[i], b) /\ breakpoints[i].location = b.location
      BY <1>7, <1>8 DEF Exists
    <2>2. SameMethod(breakpoints[i], ms[n]) /\ breakpoints[i].location = LocationForLine(ms[n].raw, line)
      BY <1>5, <1>6, <2>1, SameMethodAgain
    <2>3. breakpoints' = breakpoints /\ set' = set
      BY <1>8 DEF breakpointVars
    <2>4. Turn'
      BY <1>1, <1>7, <1>8, <2>2, <2>3, NextTurn DEF ms, n, line
    <2> QED BY <2>3, <2>4 DEF BreakpointsInv, Set, Listed
  <1>9. CASE /\ ~Exists(b) /\ CanSet(b)
             /\ set' = set \cup {At(b)}
             /\ breakpoints' = Append(breakpoints, b)
             /\ NextMethod
    <2>1. /\ breakpoints' \in Seq(BreakpointRecords)
          /\ Len(breakpoints') = Len(breakpoints) + 1
          /\ \A i \in 1..Len(breakpoints) : breakpoints'[i] = breakpoints[i]
          /\ breakpoints'[Len(breakpoints) + 1] = b
      BY <1>5, <1>7, <1>9, AppendProperties
    <2>2. /\ Len(breakpoints') \in Nat /\ Len(breakpoints) <= Len(breakpoints')
          /\ Len(breakpoints) + 1 \in 1..Len(breakpoints')
          /\ \A i \in 1..Len(breakpoints') : i \in 1..Len(breakpoints) \/ i = Len(breakpoints) + 1
          /\ \A i \in 1..Len(breakpoints) : i \in 1..Len(breakpoints')
      BY <1>7, <2>1
    <2>3. Turn'
      BY <1>1, <1>5, <1>6, <1>9, <2>1, <2>2, NextTurn DEF ms, n, line
    <2>4. Own(b)
      <3>1. Own(ms[n])
        BY <1>1, <1>9, OwnIsListed DEF b, ms, n, line
      <3> QED BY <1>5, <3>1 DEF Own
    <2>5. Listed'
      <3>1. \A i \in 1..Len(breakpoints') : breakpoints'[i] = b \/ i \in 1..Len(breakpoints)
        BY <2>1, <2>2
      <3>2. b.location = LocationForLine(b.raw, b.line)
        BY <1>5
      <3>3. \A i \in 1..Len(breakpoints) :
              /\ breakpoints'[i].location = LocationForLine(breakpoints'[i].raw, breakpoints'[i].line)
              /\ Own(breakpoints'[i])
        BY <2>1 DEF BreakpointsInv, Listed
      <3> QED BY <2>4, <3>1, <3>2, <3>3 DEF Listed
    <2>6. Set'
      <3>1. /\ {At(breakpoints[i]) : i \in 1..Len(breakpoints)} = set
            /\ \A i, j \in 1..Len(breakpoints) : At(breakpoints[i]) = At(breakpoints[j]) => i = j
        BY DEF BreakpointsInv, Set
      <3>2. At(b) \notin set
        BY <1>9 DEF CanSet
      <3>3. {At(breakpoints'[i]) : i \in 1..Len(breakpoints')} = set'
        BY <1>9, <2>1, <2>2, <3>1
      <3>4. \A i \in 1..Len(breakpoints) : At(breakpoints'[i]) \in set /\ At(breakpoints'[i]) # At(b)
        BY <2>1, <3>1, <3>2
      <3>5. \A i, j \in 1..Len(breakpoints') : At(breakpoints'[i]) = At(breakpoints'[j]) => i = j
        <4>1. SUFFICES ASSUME NEW i \in 1..Len(breakpoints'), NEW j \in 1..Len(breakpoints'),
                              At(breakpoints'[i]) = At(breakpoints'[j])
                       PROVE  i = j
          OBVIOUS
        <4>2. CASE i \in 1..Len(breakpoints) /\ j \in 1..Len(breakpoints)
          BY <2>1, <3>1, <4>1, <4>2
        <4>3. CASE i = Len(breakpoints) + 1 /\ j \in 1..Len(breakpoints)
          BY <2>1, <3>4, <4>1, <4>3
        <4>4. CASE i \in 1..Len(breakpoints) /\ j = Len(breakpoints) + 1
          BY <2>1, <3>4, <4>1, <4>4
        <4> QED BY <2>2, <4>2, <4>3, <4>4
      <3> QED BY <3>3, <3>5 DEF Set
    <2> QED BY <2>1, <2>3, <2>5, <2>6 DEF BreakpointsInv
  <1>10. CASE outcome' = [op |-> "bp", failed |-> TRUE] /\ UNCHANGED breakpointVars
    <2>1. outcome'.op # "adding" /\ UNCHANGED <<breakpoints, set>>
      BY <1>10 DEF breakpointVars
    <2> QED BY <2>1, BreakpointsAlone
  <1> QED BY <1>1, <1>8, <1>9, <1>10

LEMMA Removal ==
  ASSUME NEW A, NEW s \in Seq(A), NEW n \in 1..Len(s)
  PROVE  /\ RemoveAt(s, n) \in Seq(A)
         /\ Len(RemoveAt(s, n)) = Len(s) - 1
         /\ \A i \in 1..(Len(s) - 1) : RemoveAt(s, n)[i] = IF i < n THEN s[i] ELSE s[i + 1]
  <1> DEFINE a == SubSeq(s, 1, n - 1)
             z == SubSeq(s, n + 1, Len(s))
  <1>1. Len(s) \in Nat /\ n \in Nat /\ n >= 1 /\ n <= Len(s) /\ \A i \in 1..Len(s) : s[i] \in A
    BY LenProperties
  <1>2. /\ a \in Seq(A) /\ Len(a) = n - 1
        /\ \A i \in 1..(n - 1) : a[i] = s[i]
    <2>1. 1 \in Int /\ n - 1 \in Int /\ \A i \in 1..(n - 1) : s[i] \in A
      BY <1>1
    <2>2. /\ a \in Seq(A) /\ Len(a) = IF 1 <= n - 1 THEN (n - 1) - 1 + 1 ELSE 0
          /\ \A i \in 1..((n - 1) - 1 + 1) : a[i] = s[1 + i - 1]
      BY <2>1, SubSeqProperties
    <2> HIDE DEF a
    <2>3. (n - 1) - 1 + 1 = n - 1 /\ \A i \in 1..(n - 1) : 1 + i - 1 = i
      BY <1>1
    <2>4. \A i \in 1..(n - 1) : a[i] = s[i]
      BY <2>2, <2>3
    <2>5. Len(a) = n - 1
      BY <1>1, <2>2
    <2> QED BY <2>2, <2>4, <2>5
  <1>3. /\ z \in Seq(A) /\ Len(z) = Len(s) - n
        /\ \A i \in 1..(Len(s) - n) : z[i] = s[n + i]
    <2>1. n + 1 \in Int /\ Len(s) \in Int /\ \A i \in (n + 1)..Len(s) : s[i] \in A
      BY <1>1
    <2>2. /\ z \in Seq(A) /\ Len(z) = IF n + 1 <= Len(s) THEN Len(s) - (n + 1) + 1 ELSE 0
          /\ \A i \in 1..(Len(s) - (n + 1) + 1) : z[i] = s[(n + 1) + i - 1]
      BY <2>1, SubSeqProperties
    <2> HIDE DEF z
    <2>3. Len(s) - (n + 1) + 1 = Len(s) - n /\ \A i \in 1..(Len(s) - n) : (n + 1) + i - 1 = n + i
      BY <1>1
    <2>4. \A i \in 1..(Len(s) - n) : z[i] = s[n + i]
      BY <2>2, <2>3
    <2>5. Len(z) = Len(s) - n
      BY <1>1, <2>2
    <2> QED BY <2>2, <2>4, <2>5
  <1>4. RemoveAt(s, n) = a \o z
    BY DEF RemoveAt
  <1> HIDE DEF a, z
  <1>5. /\ a \o z \in Seq(A) /\ Len(a \o z) = Len(a) + Len(z)
        /\ \A i \in 1..(Len(a) + Len(z)) :
             (a \o z)[i] = IF i <= Len(a) THEN a[i] ELSE z[i - Len(a)]
    BY <1>2, <1>3, ConcatProperties
  <1>6. Len(a) + Len(z) = Len(s) - 1
    BY <1>1, <1>2, <1>3
  <1>7. ASSUME NEW i \in 1..(Len(s) - 1)
        PROVE  (a \o z)[i] = IF i < n THEN s[i] ELSE s[i + 1]
    <2>1. CASE i < n
      <3>1. i <= Len(a) /\ i \in 1..(n - 1)
        BY <1>1, <1>2, <2>1
      <3> QED BY <1>2, <1>5, <1>6, <2>1, <3>1
    <2>2. CASE ~(i < n)
      <3>1. ~(i <= Len(a)) /\ i - Len(a) \in 1..(Len(s) - n) /\ n + (i - Len(a)) = i + 1
        BY <1>1, <1>2, <2>2
      <3>2. z[i - Len(a)] = s[n + (i - Len(a))]
        BY <1>3, <3>1
      <3> QED BY <1>5, <1>6, <2>2, <3>1, <3>2
    <2> QED BY <2>1, <2>2
  <1> QED BY <1>4, <1>5, <1>6, <1>7

LEMMA BcInvariant ==
  ASSUME BreakpointsInv, NEW n \in 1..Len(breakpoints), Bc(n)
  PROVE  BreakpointsInv'
  <1> DEFINE N == Len(breakpoints)
  <1>1. /\ set' = set \ {At(breakpoints[n])}
        /\ breakpoints' = RemoveAt(breakpoints, n)
        /\ outcome' = [op |-> "bc"]
    BY DEF Bc
  <1>2. breakpoints \in Seq(BreakpointRecords) /\ N \in Nat
    BY Records DEF BreakpointsInv
  <1>3. /\ breakpoints' \in Seq(BreakpointRecords) /\ Len(breakpoints') = N - 1
        /\ \A i \in 1..(N - 1) :
             breakpoints'[i] = IF i < n THEN breakpoints[i] ELSE breakpoints[i + 1]
    BY <1>1, <1>2, Removal
  <1>4. \A i \in 1..Len(breakpoints') :
          \E k \in 1..N : /\ k # n /\ breakpoints'[i] = breakpoints[k]
                          /\ k = IF i < n THEN i ELSE i + 1
    <2>1. SUFFICES ASSUME NEW i \in 1..Len(breakpoints')
                   PROVE  \E k \in 1..N : /\ k # n /\ breakpoints'[i] = breakpoints[k]
                                          /\ k = IF i < n THEN i ELSE i + 1
      OBVIOUS
    <2>2. i \in 1..(N - 1)
      BY <1>3
    <2>3. CASE i < n
      BY <1>2, <1>3, <2>2, <2>3
    <2>4. CASE ~(i < n)
      BY <1>2, <1>3, <2>2, <2>4
    <2> QED BY <2>3, <2>4
  <1>5. \A k \in 1..N : k # n => \E i \in 1..Len(breakpoints') : breakpoints'[i] = breakpoints[k]
    <2>1. SUFFICES ASSUME NEW k \in 1..N, k # n
                   PROVE  \E i \in 1..Len(breakpoints') : breakpoints'[i] = breakpoints[k]
      OBVIOUS
    <2>2. CASE k < n
      <3>1. k \in 1..(N - 1)
        BY <1>2, <2>2
      <3> QED BY <1>3, <2>2, <3>1
    <2>3. CASE k > n
      <3>1. k - 1 \in 1..(N - 1) /\ ~(k - 1 < n) /\ (k - 1) + 1 = k
        BY <1>2, <2>3
      <3> QED BY <1>3, <3>1
    <2> QED BY <1>2, <2>1, <2>2, <2>3
  <1>6. Listed'
    BY <1>4 DEF BreakpointsInv, Listed
  <1>7. Set'
    <2>1. /\ {At(breakpoints[i]) : i \in 1..N} = set
          /\ \A i, j \in 1..N : At(breakpoints[i]) = At(breakpoints[j]) => i = j
      BY DEF BreakpointsInv, Set
    <2>2. ASSUME NEW x \in {At(breakpoints'[i]) : i \in 1..Len(breakpoints')} PROVE x \in set'
      <3>1. PICK i \in 1..Len(breakpoints') : x = At(breakpoints'[i])
        BY <2>2
      <3>2. PICK k \in 1..N : k # n /\ breakpoints'[i] = breakpoints[k]
        BY <1>4
      <3> QED BY <1>1, <2>1, <3>1, <3>2
    <2>3. ASSUME NEW x \in set' PROVE x \in {At(breakpoints'[i]) : i \in 1..Len(breakpoints')}
      <3>1. x \in set /\ x # At(breakpoints[n])
        BY <1>1
      <3>2. PICK k \in 1..N : x = At(breakpoints[k])
        BY <2>1, <3>1
      <3>3. k # n
        BY <3>1, <3>2
      <3> QED BY <1>5, <3>2, <3>3
    <2>4. ASSUME NEW i \in 1..Len(breakpoints'), NEW j \in 1..Len(breakpoints'),
                 At(breakpoints'[i]) = At(breakpoints'[j])
          PROVE  i = j
      <3>1. PICK k \in 1..N : breakpoints'[i] = breakpoints[k] /\ k = IF i < n THEN i ELSE i + 1
        BY <1>4
      <3>2. PICK l \in 1..N : breakpoints'[j] = breakpoints[l] /\ l = IF j < n THEN j ELSE j + 1
        BY <1>4
      <3>3. k = l
        BY <2>1, <2>4, <3>1, <3>2
      <3>4. i \in Int /\ j \in Int /\ n \in Int
        BY <1>2, <1>3
      <3> QED BY <3>1, <3>2, <3>3, <3>4
    <2> QED BY <2>2, <2>3, <2>4 DEF Set
  <1>8. Turn'
    <2>1. outcome'.op # "adding"
      BY <1>1
    <2> QED BY <2>1 DEF Turn, Adding
  <1> QED BY <1>3, <1>6, <1>7, <1>8 DEF BreakpointsInv

LEMMA BcAllInvariant ==
  ASSUME BreakpointsInv, BcAll
  PROVE  BreakpointsInv'
  <1>1. /\ set' = set \ {At(breakpoints[n]) : n \in DOMAIN breakpoints}
        /\ breakpoints' = <<>> /\ outcome' = [op |-> "bc"]
    BY DEF BcAll
  <1>2. DOMAIN breakpoints = 1..Len(breakpoints)
    BY Records DEF BreakpointsInv
  <1>3. set' = {}
    BY <1>1, <1>2 DEF BreakpointsInv, Set
  <1>4. breakpoints' \in Seq(BreakpointRecords) /\ Len(breakpoints') = 0
    BY <1>1, EmptySeq
  <1>5. Listed' /\ Set'
    BY <1>3, <1>4 DEF Listed, Set
  <1>6. outcome'.op # "adding"
    BY <1>1
  <1> QED BY <1>4, <1>5, <1>6 DEF BreakpointsInv, Turn, Adding

LEMMA HitInvariant ==
  ASSUME BreakpointsInv, NEW at \in set, Hit(at)
  PROVE  BreakpointsInv'
  <1>1. UNCHANGED <<breakpoints, set>> /\ outcome' = [op |-> "hit", at |-> at, found |-> Found(at.raw)]
    BY DEF Hit, breakpointVars
  <1>2. outcome'.op # "adding"
    BY <1>1
  <1> QED BY <1>1, <1>2, BreakpointsAlone

\* Calls, fields, arrays and the prompt
LEMMA OthersInvariant ==
  ASSUME BreakpointsInv, UNCHANGED <<breakpoints, set>>,
         \/ CallNext \/ Return \/ FieldsNext \/ ArraysNext \/ Prompt
  PROVE  BreakpointsInv'
  <1>1. CASE CallNext
    <2>1. PICK r \in Receivers, name \in Names, args \in ArgLists : Call(r, name, args)
      BY <1>1 DEF CallNext
    <2>2. outcome'.op = "call"
      BY <2>1 DEF Call
    <2> QED BY <2>2, BreakpointsAlone
  <1>2. CASE Return
    <2>1. outcome'.op = "result"
      BY <1>2 DEF Return
    <2> QED BY <2>1, BreakpointsAlone
  <1>3. CASE FieldsNext
    <2>1. PICK r \in Receivers, name \in Names : GetField(r, name)
      BY <1>3 DEF FieldsNext
    <2>2. outcome'.op = "result"
      BY <2>1 DEF GetField
    <2> QED BY <2>2, BreakpointsAlone
  <1>4. CASE ArraysNext
    <2>1. PICK a \in Arrays, k \in Indices : GetElement(a, k) \/ \E v \in Values : SetElement(a, k, v)
      BY <1>4 DEF ArraysNext
    <2>2. outcome'.op \in {"get", "set"}
      BY <2>1 DEF GetElement, SetElement
    <2> QED BY <2>2, BreakpointsAlone
  <1>5. CASE Prompt
    <2>1. outcome'.op = "none"
      BY <1>5 DEF Prompt
    <2> QED BY <2>1, BreakpointsAlone
  <1> QED BY <1>1, <1>2, <1>3, <1>4, <1>5

LEMMA BreakpointsInitial ==
  ASSUME Init
  PROVE  BreakpointsInv
  <1>1. breakpoints = <<>> /\ set = {} /\ outcome = [op |-> "none"]
    BY DEF Init, BreakpointsInit, AtPrompt
  <1>2. breakpoints \in Seq(BreakpointRecords) /\ Len(breakpoints) = 0
    BY <1>1, EmptySeq
  <1>3. outcome.op # "adding"
    BY <1>1
  <1> QED BY <1>1, <1>2, <1>3 DEF BreakpointsInv, Listed, Set, Turn, Adding

LEMMA BreakpointsStep ==
  ASSUME BreakpointsInv, [Next]_vars
  PROVE  BreakpointsInv'
  <1>1. CASE BreakpointsNext
    <2>1. ASSUME NEW m \in Stops, NEW c \in Classes, NEW line \in Lines,
                 BpMethod(c, m.name, m.args, m.ret, line)
          PROVE  BreakpointsInv'
      BY <2>1, BpMethodInvariant
    <2>2. ASSUME NEW m \in Stops, NEW c \in Classes, BpCallable(c, LuaName(m))
          PROVE  BreakpointsInv'
      BY <2>2, BpCallableInvariant
    <2>3. ASSUME NEW n \in DOMAIN breakpoints, Bc(n)
          PROVE  BreakpointsInv'
      <3>1. n \in 1..Len(breakpoints)
        BY Records DEF BreakpointsInv
      <3> QED BY <2>3, <3>1, BcInvariant
    <2>4. CASE BcAll
      BY <2>4, BcAllInvariant
    <2>5. ASSUME NEW at \in set, Hit(at)
          PROVE  BreakpointsInv'
      BY <2>5, HitInvariant
    <2> QED BY <1>1, <2>1, <2>2, <2>3, <2>4, <2>5 DEF BreakpointsNext
  <1>2. CASE Add
    BY <1>2, AddInvariant
  <1>3. CASE /\ CallNext \/ Return \/ FieldsNext \/ ArraysNext \/ Prompt
             /\ UNCHANGED <<breakpoints, set>>
    BY <1>3, OthersInvariant
  <1>4. CASE UNCHANGED vars
    BY <1>4 DEF vars, BreakpointsInv, Set, Listed, Turn, Adding, InTurn
  <1> QED BY <1>1, <1>2, <1>3, <1>4 DEF Next, Prompt

LEMMA BreakpointsAlways == Spec => []BreakpointsInv
  <1>1. Init => BreakpointsInv
    BY BreakpointsInitial
  <1>2. BreakpointsInv /\ [Next]_vars => BreakpointsInv'
    BY BreakpointsStep
  <1> QED BY <1>1, <1>2, PTL DEF Spec

\* The debugger's list and the virtual machine's breakpoints are the same, whatever
\* fails on the way of bp() over the methods of a name.
THEOREM ListsWhatIsSet == Spec => []ListMatchesVM
  <1>1. BreakpointsInv => ListMatchesVM
    <2>1. ASSUME BreakpointsInv PROVE ListMatchesVM
      <3>1. DOMAIN breakpoints = 1..Len(breakpoints)
        BY <2>1, Records DEF BreakpointsInv
      <3> QED BY <2>1, <3>1 DEF BreakpointsInv, Set, ListMatchesVM
    <2> QED BY <2>1
  <1> QED BY <1>1, BreakpointsAlways, PTL

\* A breakpoint at a line is where the line is, or at the code before it.
THEOREM BreaksAtLine == Spec => []LineIsFound
  <1>1. BreakpointsInv => LineIsFound
    <2>1. SUFFICES ASSUME BreakpointsInv PROVE LineIsFound
      OBVIOUS
    <2>2. SUFFICES ASSUME NEW n \in DOMAIN breakpoints,
                          Ascending(breakpoints[n].raw.lines),
                          NEW x \in Range(breakpoints[n].raw.lines), x.line <= breakpoints[n].line
                   PROVE  \E e \in Range(breakpoints[n].raw.lines) :
                            /\ e.line <= breakpoints[n].line
                            /\ e.location = breakpoints[n].location
                            /\ \A f \in Range(breakpoints[n].raw.lines) :
                                 f.line <= breakpoints[n].line => f.line <= e.line
      BY DEF LineIsFound
    <2> DEFINE b == breakpoints[n]
               m == b.raw
    <2>3. n \in 1..Len(breakpoints) /\ m \in Methods /\ b.line \in Nat
      BY <2>1, Records DEF BreakpointsInv
    <2>4. b.location = LocationForLine(m, b.line)
      BY <2>1, <2>3 DEF BreakpointsInv, Listed
    <2>5. DOMAIN m.lines = 1..Len(m.lines)
      BY <2>3, LinesOfMethod
    <2>6. PICK j \in 1..Len(m.lines) : m.lines[j] = x
      BY <2>2, <2>5 DEF Range
    <2>7. PICK k \in 1..Len(m.lines) :
            /\ m.lines[k].line <= b.line /\ m.lines[k].location = LocationForLine(m, b.line)
            /\ \A i \in 1..Len(m.lines) : m.lines[i].line <= b.line => m.lines[i].line <= m.lines[k].line
      BY <2>2, <2>3, <2>6, NearestLine
    <2>8. m.lines[k] \in Range(m.lines)
      BY <2>5 DEF Range
    <2>9. \A f \in Range(m.lines) : f.line <= b.line => f.line <= m.lines[k].line
      BY <2>5, <2>7 DEF Range
    <2> QED BY <2>4, <2>7, <2>8, <2>9
  <1> QED BY <1>1, BreakpointsAlways, PTL

---------------------------------------------------------------------------
(* Hits *)

LEMMA GreatestOf ==
  ASSUME NEW n \in Nat, NEW S \in SUBSET (1..n), S # {}
  PROVE  Max(S) \in S
  <1> DEFINE T == {n - i : i \in S}
  <1>1. T \in SUBSET Nat /\ T # {}
    <2>1. \A i \in S : i \in 1..n
      OBVIOUS
    <2>2. \A i \in S : n - i \in Nat
      BY <2>1
    <2> QED BY <2>2
  <1> HIDE DEF T
  <1>2. PICK t \in T : \A u \in T : t <= u
    BY <1>1, LeastNatural
  <1>3. PICK i \in S : t = n - i
    BY <1>2 DEF T
  <1>4. \A k \in S : n - i <= n - k
    BY <1>2, <1>3 DEF T
  <1>5. \A k \in S : i >= k
    BY <1>4
  <1> QED BY <1>5 DEF Max

\* The entries cb_breakpoint compares the method that was hit with are of that
\* method: each is what its class has of its own.
LEMMA FoundIsOfMethod ==
  ASSUME BreakpointsInv, NEW m \in Methods
  PROVE  IF Found(m) = Nil
         THEN \A i \in 1..Len(breakpoints) : breakpoints[i].raw = m => breakpoints[i].class # m.class
         ELSE Found(m).raw = m
  <1> DEFINE own == {i \in DOMAIN breakpoints :
                       SameMethod(breakpoints[i], [raw |-> m, class |-> m.class])}
  <1>1. Found(m) = IF own = {} THEN Nil ELSE breakpoints[Max(own)]
    BY DEF Found
  <1>2. /\ Len(breakpoints) \in Nat /\ DOMAIN breakpoints = 1..Len(breakpoints)
        /\ \A i \in 1..Len(breakpoints) : breakpoints[i] \in BreakpointRecords
    BY Records DEF BreakpointsInv
  <1>3. CASE own = {}
    <2>1. ASSUME NEW i \in 1..Len(breakpoints), breakpoints[i].raw = m
          PROVE  breakpoints[i].class # m.class
      <3>1. ~SameMethod(breakpoints[i], [raw |-> m, class |-> m.class])
        BY <1>2, <1>3
      <3> QED BY <2>1, <3>1 DEF SameMethod
    <2> QED BY <1>1, <1>3, <2>1
  <1>4. CASE own # {}
    <2>1. own \in SUBSET (1..Len(breakpoints))
      BY <1>2
    <2> HIDE DEF own
    <2>2. Max(own) \in own
      BY <1>2, <1>4, <2>1, GreatestOf
    <2> DEFINE b == breakpoints[Max(own)]
    <2>3. Max(own) \in 1..Len(breakpoints) /\ SameMethod(b, [raw |-> m, class |-> m.class])
      BY <2>1, <2>2 DEF own
    <2>4. Own(b) /\ b # Nil
      BY <1>2, <2>3, BreakpointsAssumption DEF BreakpointsInv, Listed
    <2>5. m.class = b.class /\ m.name = b.raw.name /\ m.args = b.raw.args /\ m.ret = b.raw.ret
      BY <2>3 DEF SameMethod
    <2>6. m = b.raw
      BY <2>4, <2>5 DEF Own
    <2> QED BY <1>1, <1>4, <2>4, <2>6
  <1> QED BY <1>3, <1>4

LEMMA AddOutcome ==
  ASSUME BreakpointsInv, Add
  PROVE  outcome'.op \in {"adding", "bp"}
  <1>1. Adding /\ (NextMethod \/ outcome' = [op |-> "bp", failed |-> TRUE])
    BY DEF Add
  <1>2. outcome \in [op : {"adding"}, methods : Seq(MethodIds), next : Nat, line : Nat]
    BY <1>1 DEF BreakpointsInv, Turn
  <1>3. CASE outcome' = [outcome EXCEPT !.next = @ + 1]
    <2>1. outcome'.op = outcome.op
      BY <1>2, <1>3
    <2> QED BY <1>2, <2>1
  <1>4. CASE outcome' = [op |-> "bp", failed |-> FALSE] \/ outcome' = [op |-> "bp", failed |-> TRUE]
    BY <1>4
  <1> QED BY <1>1, <1>3, <1>4 DEF NextMethod

\* What a step comes to: what is kept about it only hits, calls and results matter to.
LEMMA StepOutcome ==
  ASSUME BreakpointsInv, [Next]_vars
  PROVE  \/ outcome'.op \in {"adding", "bp", "bc", "get", "set", "none"}
         \/ \E at \in set : Hit(at)
         \/ \E r \in Receivers, name \in Names, args \in ArgLists : Call(r, name, args)
         \/ Return
         \/ \E r \in Receivers, name \in Names : GetField(r, name)
         \/ UNCHANGED vars
  <1>1. CASE BreakpointsNext
    <2>1. ASSUME NEW m \in Stops, NEW c \in Classes, NEW line \in Lines,
                 BpMethod(c, m.name, m.args, m.ret, line)
          PROVE  outcome'.op = "adding"
      <3>1. \E e : Bp(<<e>>, line)
        BY <2>1 DEF BpMethod
      <3> QED BY <3>1 DEF Bp
    <2>2. ASSUME NEW m \in Stops, NEW c \in Classes, BpCallable(c, LuaName(m))
          PROVE  outcome'.op = "adding"
      BY <2>2 DEF BpCallable, Bp
    <2>3. (\E n \in DOMAIN breakpoints : Bc(n)) \/ BcAll => outcome'.op = "bc"
      BY DEF Bc, BcAll
    <2> QED BY <1>1, <2>1, <2>2, <2>3 DEF BreakpointsNext
  <1>2. CASE Add
    BY <1>2, AddOutcome
  <1>3. CASE CallNext
    BY <1>3 DEF CallNext
  <1>4. CASE FieldsNext
    BY <1>4 DEF FieldsNext
  <1>5. CASE ArraysNext
    <2>1. PICK a \in Arrays, k \in Indices : GetElement(a, k) \/ \E v \in Values : SetElement(a, k, v)
      BY <1>5 DEF ArraysNext
    <2>2. outcome'.op \in {"get", "set"}
      BY <2>1 DEF GetElement, SetElement
    <2> QED BY <2>2
  <1>6. CASE Prompt
    BY <1>6 DEF Prompt
  <1> QED BY <1>1, <1>2, <1>3, <1>4, <1>5, <1>6 DEF Next

\* A hit is taken for a breakpoint of its own method; assert(bp) fails only where
\* all breakpoints of the method were set under names of classes that inherit it.
THEOREM HitsOwnMethod == Spec => []HitFindsItsMethod
  <1>1. Init => HitFindsItsMethod
    <2>1. Init => outcome.op = "none"
      BY DEF Init, AtPrompt
    <2> QED BY <2>1 DEF HitFindsItsMethod
  <1>2. BreakpointsInv /\ HitFindsItsMethod /\ [Next]_vars => HitFindsItsMethod'
    <2> SUFFICES ASSUME BreakpointsInv, HitFindsItsMethod, [Next]_vars
                 PROVE  HitFindsItsMethod'
      OBVIOUS
    <2>1. ASSUME NEW at \in set, Hit(at) PROVE HitFindsItsMethod'
      <3>1. /\ outcome' = [op |-> "hit", at |-> at, found |-> Found(at.raw)]
            /\ breakpoints' = breakpoints
        BY <2>1 DEF Hit, breakpointVars
      <3>2. DOMAIN breakpoints = 1..Len(breakpoints)
        BY Records DEF BreakpointsInv
      <3>3. PICK i \in 1..Len(breakpoints) : at = At(breakpoints[i])
        BY DEF BreakpointsInv, Set
      <3>4. at.raw = breakpoints[i].raw
        BY <3>3 DEF At
      <3>5. at.raw \in Methods
        BY <3>3, <3>4, Records DEF BreakpointsInv
      <3>6. outcome'.at = at /\ outcome'.found = Found(at.raw)
        BY <3>1
      <3> QED BY <3>1, <3>2, <3>5, <3>6, FoundIsOfMethod DEF HitFindsItsMethod
    <2>2. CASE UNCHANGED vars
      BY <2>2 DEF vars, HitFindsItsMethod
    <2>3. ASSUME outcome'.op # "hit" PROVE HitFindsItsMethod'
      BY <2>3 DEF HitFindsItsMethod
    <2>4. ASSUME NEW r \in Receivers, NEW name \in Names, NEW args \in ArgLists, Call(r, name, args)
          PROVE  outcome'.op = "call"
      BY <2>4 DEF Call
    <2>5. Return => outcome'.op = "result"
      BY DEF Return
    <2>6. ASSUME NEW r \in Receivers, NEW name \in Names, GetField(r, name)
          PROVE  outcome'.op = "result"
      BY <2>6 DEF GetField
    <2> QED BY <2>1, <2>2, <2>3, <2>4, <2>5, <2>6, StepOutcome
  <1> QED BY <1>1, <1>2, BreakpointsAlways, PTL DEF Spec

---------------------------------------------------------------------------
(* Values *)

LEMMA Modulus ==
  ASSUME NEW n \in Int, NEW d \in Nat \ {0}
  PROVE  /\ n % d \in 0..(d - 1)
         /\ n \in 0..(d - 1) => n % d = n
         /\ n \in (-d)..(-1) => n % d = n + d
  <1>1. n % d \in 0..(d - 1)
    OBVIOUS
  <1>2. n \in 0..(d - 1) => n % d = n
    OBVIOUS
  <1>3. n \in (-d)..(-1) => n % d = n + d
    OBVIOUS
  <1> QED BY <1>1, <1>2, <1>3

\* What a number is cut to is one of the type, and itself if it was.
LEMMA WrapProperties ==
  ASSUME NEW n \in Int, NEW p \in Numeric
  PROVE  /\ Wrap(n, p) \in Numbers(p)
         /\ n \in Numbers(p) => Wrap(n, p) = n
  <1> DEFINE h == Half[p]
             d == 2 * h
             m == n % d
  <1>1. h \in Nat \ {0}
    BY TypesAssumption
  <1>2. d \in Nat \ {0} /\ -h >= -d
    BY <1>1
  <1>3. /\ Wrap(n, p) = IF p # Unsigned /\ m >= h THEN m - d ELSE m
        /\ Numbers(p) = IF p = Unsigned THEN 0..(d - 1) ELSE (-h)..(h - 1)
    BY DEF Wrap, Numbers
  <1> HIDE DEF h
  <1>4. /\ m \in 0..(d - 1)
        /\ n \in 0..(d - 1) => m = n
        /\ n \in (-d)..(-1) => m = n + d
    <2> HIDE DEF d
    <2> QED BY <1>2, Modulus
  <1> HIDE DEF m
  <1>5. CASE p = Unsigned
    BY <1>3, <1>4, <1>5
  <1>6. CASE p # Unsigned
    <2>1. Wrap(n, p) \in (-h)..(h - 1)
      BY <1>1, <1>3, <1>4, <1>6
    <2>2. ASSUME n \in (-h)..(h - 1) PROVE Wrap(n, p) = n
      <3>1. CASE n >= 0
        BY <1>1, <1>3, <1>4, <1>6, <2>2, <3>1
      <3>2. CASE n < 0
        BY <1>1, <1>2, <1>3, <1>4, <1>6, <2>2, <3>2
      <3> QED BY <2>2, <3>1, <3>2
    <2> QED BY <1>3, <1>6, <2>1, <2>2
  <1> QED BY <1>5, <1>6

\* Up to Precision Lua has every whole number.
LEMMA SmallIsExact ==
  ASSUME NEW n \in (-Precision)..Precision
  PROVE  ToDouble(n) = n
  <1> DEFINE D == {d \in Units : n \in (-Precision * d)..(Precision * d)}
  <1>1. 1 \in D /\ \A d \in D : 1 <= d
    BY TypesAssumption DEF Units
  <1>2. Min(D) = 1
    <2>1. \E x \in D : \A y \in D : x <= y
      BY <1>1
    <2>2. Min(D) \in D /\ \A y \in D : Min(D) <= y
      BY <2>1 DEF Min
    <2>3. Min(D) \in Nat
      BY <2>2 DEF Units
    <2> HIDE DEF D
    <2> QED BY <1>1, <2>2, <2>3
  <1>3. n \in Int /\ n \div 1 = n /\ n % 1 = 0
    BY TypesAssumption
  <1> QED BY <1>2, <1>3 DEF ToDouble

LEMMA Kinds ==
  ASSUME NEW v \in LuaValues \cup Data
  PROVE  /\ IsNumber(v) => v = Number(v.number) /\ v.number \in Int
         /\ IsBoolean(v) => v = Boolean(v.boolean) /\ v.boolean \in BOOLEAN
         /\ IsObject(v) => v = Object(v.object) /\ v.object \in Types
         /\ IsNumber(v) \/ IsBoolean(v) \/ IsObject(v) => v \in Data /\ v # JavaNull /\ v # nil
         /\ IsNumber(v) => ~IsBoolean(v) /\ ~IsObject(v) /\ ~IsString(v)
         /\ IsBoolean(v) => ~IsObject(v) /\ ~IsString(v)
         /\ IsObject(v) => ~IsString(v)
         /\ IsNumber(v) \/ IsBoolean(v) \/ IsObject(v) \/ v \in {JavaNull, String, nil}
  <1>1. CASE v \in [number : Int]
    BY <1>1 DEF IsNumber, IsBoolean, IsObject, IsString, Number, Data, JavaNull, nil
  <1>2. CASE v \in [boolean : BOOLEAN]
    BY <1>2 DEF IsNumber, IsBoolean, IsObject, IsString, Boolean, Data, JavaNull, nil
  <1>3. CASE v \in [object : Types]
    BY <1>3 DEF IsNumber, IsBoolean, IsObject, IsString, Object, Data, JavaNull, nil
  <1>4. CASE v \in {JavaNull, String, nil}
    BY <1>4 DEF IsNumber, IsBoolean, IsObject, IsString, JavaNull, nil, String
  <1>5. [number : {n \in Int : ToDouble(n) = n}] \subseteq [number : Int]
    OBVIOUS
  <1> QED BY <1>1, <1>2, <1>3, <1>4, <1>5 DEF LuaValues, Data

\* A number that was typed, or was read before, is one Lua has.
LEMMA TypedIsExact ==
  ASSUME NEW v \in LuaValues, IsNumber(v)
  PROVE  ToDouble(v.number) = v.number
  <1>1. CASE v \in [number : {n \in Int : ToDouble(n) = n}]
    BY <1>1
  <1>2. CASE v \in [boolean : BOOLEAN] \cup [object : Types] \cup {JavaNull, String, nil}
    BY <1>2 DEF IsNumber, JavaNull, String, nil
  <1> QED BY <1>1, <1>2 DEF LuaValues

LEMMA NotKinds ==
  /\ ~IsNumber(JavaNull) /\ ~IsBoolean(JavaNull) /\ ~IsObject(JavaNull) /\ ~IsString(JavaNull)
  /\ ~IsNumber(nil) /\ ~IsBoolean(nil) /\ ~IsObject(nil) /\ ~IsString(nil)
  /\ JavaNull # nil /\ JavaNull \in Data
  BY DEF IsNumber, IsBoolean, IsObject, IsString, JavaNull, nil, Data

LEMMA Made ==
  /\ \A n \in Int : Number(n) \in Data /\ IsNumber(Number(n)) /\ Number(n).number = n
  /\ \A b \in BOOLEAN : Boolean(b) \in Data /\ IsBoolean(Boolean(b))
  /\ \A t \in Types : Object(t) \in Data /\ IsObject(Object(t)) /\ Object(t).object = t
  BY DEF Data, Number, Boolean, Object, IsNumber, IsBoolean, IsObject

LEMMA KindsOfTypes ==
  ASSUME NEW t \in Types
  PROVE  /\ t.dims \in Nat /\ t = [dims |-> t.dims, base |-> t.base]
         /\ IsReference(t) \/ t = Type("Z") \/ (t.dims = 0 /\ t.base \in Numeric)
         /\ t.base \in Classes => IsReference(t)
         /\ \A p \in Primitives : p \notin Classes
         /\ \A p \in Primitives : ~IsReference(Type(p)) /\ Type(p).base = p /\ Type(p).dims = 0
         /\ \A c \in Classes : Type(c) \in Types /\ c # "Z"
  <1>1. t.dims \in Nat /\ t.base \in Classes \cup Primitives /\ t = [dims |-> t.dims, base |-> t.base]
    BY DEF Types
  <1>2. \A p \in Primitives : p \notin Classes
    BY TypesAssumption
  <1>3. "Z" \in Primitives /\ Primitives = Numeric \cup {"Z"}
    BY DEF Primitives
  <1>4. \A p \in Primitives : ~IsReference(Type(p)) /\ Type(p).base = p /\ Type(p).dims = 0
    BY <1>2 DEF IsReference, Type
  <1>5. \A c \in Classes : Type(c) \in Types /\ c # "Z"
    BY <1>2, <1>3 DEF Type, Types
  <1>6. t.base \in Classes => IsReference(t)
    BY DEF IsReference
  <1>7. IsReference(t) \/ t = Type("Z") \/ (t.dims = 0 /\ t.base \in Numeric)
    BY <1>1, <1>3 DEF IsReference, Type
  <1> QED BY <1>1, <1>2, <1>4, <1>5, <1>6, <1>7

---------------------------------------------------------------------------
(* Arrays *)

ArraysInv ==
  /\ DOMAIN elements = Arrays
  /\ \A a \in Arrays : /\ elements[a] \in [1..Length[a] -> Data]
                       /\ \A i \in 1..Length[a] : Has(Component(a), elements[a][i])

LEMMA ComponentTypes ==
  ASSUME NEW a \in Arrays
  PROVE  Component(a) \in Types
  <1>1. ArrayType[a] \in Types /\ ArrayType[a].dims > 0
    BY ArraysAssumption
  <1>2. ArrayType[a].dims - 1 \in Nat
    BY <1>1 DEF Types
  <1>3. Component(a) = [dims |-> ArrayType[a].dims - 1, base |-> ArrayType[a].base]
    BY <1>1 DEF Component, Types
  <1> QED BY <1>1, <1>2, <1>3 DEF Types

LEMMA DefaultFits ==
  ASSUME NEW t \in Types
  PROVE  Default(t) \in Data /\ Has(t, Default(t))
  <1>1. CASE IsReference(t)
    BY <1>1, NotKinds DEF Default, Has
  <1>2. CASE ~IsReference(t) /\ t.base = "Z"
    BY <1>2, Made DEF Default, Has
  <1>3. CASE ~IsReference(t) /\ t.base # "Z"
    <2>1. t.base \in Numeric
      BY <1>3, KindsOfTypes DEF Type
    <2>2. Half[t.base] \in Nat \ {0}
      BY <2>1, TypesAssumption
    <2>3. 0 \in Numbers(t.base)
      BY <2>2 DEF Numbers
    <2> QED BY <1>3, <2>3, Made DEF Default, Has
  <1> QED BY <1>1, <1>2, <1>3

\* What an element is assigned is a value of its type.
LEMMA ConvertedFits ==
  ASSUME NEW t \in Types, NEW v \in LuaValues, NEW e \in Converted(v, t), Storable(e, t)
  PROVE  e \in Data /\ Has(t, e)
  <1>1. CASE v = nil
    <2>1. IsReference(t) /\ e = JavaNull
      BY <1>1 DEF Converted
    <2> QED BY <2>1, NotKinds DEF Has
  <1>2. CASE v # nil /\ t.base \in Classes
    <2>1. e \in Coerced(v, t) /\ IsReference(t)
      BY <1>2, KindsOfTypes DEF Converted
    <2>2. e \in Data /\ IsObject(e)
      <3>1. CASE IsObject(v)
        BY <2>1, <3>1, Kinds DEF Coerced
      <3>2. CASE ~IsObject(v)
        <4>1. PICK c \in {StringClass, IntegerClass, DoubleClass} : e = Object(Type(c))
          BY <2>1, <3>2 DEF Coerced
        <4>2. c \in Classes
          BY <4>1, TypesAssumption
        <4> QED BY <4>1, <4>2, KindsOfTypes, Made
      <3> QED BY <3>1, <3>2
    <2>3. Assignable(t, e.object)
      BY <2>2 DEF Storable
    <2> QED BY <2>1, <2>2, <2>3 DEF Has
  <1>3. CASE v # nil /\ t.base \notin Classes
    <2>1. t.dims = 0 /\ ~IsReference(t)
      BY <1>3, KindsOfTypes DEF Converted, IsReference
    <2>2. CASE t.base = "Z"
      <3>1. IsBoolean(v) /\ e = v
        BY <1>3, <2>1, <2>2 DEF Converted
      <3> QED BY <2>1, <2>2, <3>1, Kinds DEF Has
    <2>3. CASE t.base # "Z"
      <3>1. IsNumber(v) /\ e = Number(Wrap(v.number, t.base)) /\ t.base \in Numeric
        BY <1>3, <2>1, <2>3, KindsOfTypes DEF Converted, Type
      <3>2. Wrap(v.number, t.base) \in Numbers(t.base)
        BY <3>1, Kinds, WrapProperties
      <3>3. Wrap(v.number, t.base) \in Int
        <4>1. Half[t.base] \in Nat
          BY <3>1, TypesAssumption
        <4> QED BY <3>2, <4>1 DEF Numbers
      <3> QED BY <2>1, <2>3, <3>1, <3>2, <3>3, Made DEF Has
    <2> QED BY <2>2, <2>3
  <1> QED BY <1>1, <1>2, <1>3

\* array[k] = value assigns nothing, or one value to one element.
LEMMA WhatIsSet ==
  ASSUME ArraysInv, NEW a \in Arrays, NEW k \in Indices, NEW v \in Values, SetElement(a, k, v)
  PROVE  \/ elements' = elements
         \/ /\ k \in 1..Length[a]
            /\ \E e \in Converted(v, Component(a)) :
                 Storable(e, Component(a)) /\ elements' = [elements EXCEPT ![a][k] = e]
  <1> DEFINE t == Component(a)
             new == Converted(v, t)
             e == CHOOSE e \in new : TRUE
  <1>1. elements' = IF new # {} /\ k \in 1..Length[a] /\ \A x \in new : Storable(x, t)
                    THEN [elements EXCEPT ![a][k] = e] ELSE elements
    BY DEF SetElement
  <1>2. new # {} => e \in new
    OBVIOUS
  <1> QED BY <1>1, <1>2

LEMMA ArraysStep ==
  ASSUME ArraysInv, [Next]_vars
  PROVE  ArraysInv'
  <1>1. CASE ArraysNext
    <2>1. PICK a \in Arrays, k \in Indices : GetElement(a, k) \/ \E v \in Values : SetElement(a, k, v)
      BY <1>1 DEF ArraysNext
    <2>2. CASE GetElement(a, k)
      BY <2>2 DEF GetElement, ArraysInv
    <2>3. ASSUME NEW v \in Values, SetElement(a, k, v) PROVE ArraysInv'
      <3>1. CASE elements' = elements
        BY <3>1 DEF ArraysInv
      <3>2. ASSUME k \in 1..Length[a],
                   NEW e \in Converted(v, Component(a)), Storable(e, Component(a)),
                   elements' = [elements EXCEPT ![a][k] = e]
            PROVE  ArraysInv'
        <4>1. Component(a) \in Types /\ v \in LuaValues
          BY ComponentTypes, ArraysAssumption
        <4>2. e \in Data /\ Has(Component(a), e)
          BY <3>2, <4>1, ConvertedFits
        <4>3. a \in DOMAIN elements /\ elements[a] \in [1..Length[a] -> Data]
          BY DEF ArraysInv
        <4>4. /\ DOMAIN elements' = Arrays
              /\ elements'[a] = [elements[a] EXCEPT ![k] = e]
              /\ \A b \in Arrays : b # a => elements'[b] = elements[b]
          BY <3>2, <4>3 DEF ArraysInv
        <4>5. /\ elements'[a] \in [1..Length[a] -> Data]
              /\ \A i \in 1..Length[a] : elements'[a][i] = IF i = k THEN e ELSE elements[a][i]
          BY <3>2, <4>2, <4>3, <4>4
        <4>6. ASSUME NEW b \in Arrays
              PROVE  /\ elements'[b] \in [1..Length[b] -> Data]
                     /\ \A i \in 1..Length[b] : Has(Component(b), elements'[b][i])
          <5>1. CASE b = a
            BY <4>2, <4>5, <5>1 DEF ArraysInv
          <5>2. CASE b # a
            BY <4>4, <5>2 DEF ArraysInv
          <5> QED BY <5>1, <5>2
        <4> QED BY <4>4, <4>6 DEF ArraysInv
      <3> QED BY <2>3, <3>1, <3>2, WhatIsSet
    <2> QED BY <2>1, <2>2, <2>3
  <1>2. CASE elements' = elements
    BY <1>2 DEF ArraysInv
  <1> QED BY <1>1, <1>2 DEF Next, Prompt, vars

LEMMA ArraysAlways == Spec => []ArraysInv
  <1>1. Init => ArraysInv
    <2>1. SUFFICES ASSUME Init PROVE ArraysInv
      OBVIOUS
    <2>2. elements = [a \in Arrays |-> [i \in 1..Length[a] |-> Default(Component(a))]]
      BY <2>1 DEF Init, ArraysInit
    <2>3. \A a \in Arrays : Default(Component(a)) \in Data /\ Has(Component(a), Default(Component(a)))
      BY ComponentTypes, DefaultFits
    <2> QED BY <2>2, <2>3 DEF ArraysInv
  <1>2. ArraysInv /\ [Next]_vars => ArraysInv'
    BY ArraysStep
  <1> QED BY <1>1, <1>2, PTL DEF Spec

\* The breakpoints are well formed and every element of an array is a value of the
\* array's type, of the width it has.
THEOREM TypeCorrect == Spec => []TypeOK
  <1>1. BreakpointsInv /\ ArraysInv => TypeOK
    <2>1. SUFFICES ASSUME BreakpointsInv, ArraysInv PROVE TypeOK
      OBVIOUS
    <2>2. set \subseteq [raw : Methods, location : Nat]
      <3>1. \A i \in 1..Len(breakpoints) : At(breakpoints[i]) \in [raw : Methods, location : Nat]
        BY <2>1, Records DEF BreakpointsInv
      <3> QED BY <2>1, <3>1 DEF BreakpointsInv, Set
    <2> QED BY <2>1, <2>2 DEF TypeOK, BreakpointsInv, ArraysInv
  <1> QED BY <1>1, BreakpointsAlways, ArraysAlways, PTL

LEMMA OneOf ==
  ASSUME NEW e
  PROVE  (CHOOSE x \in {e} : TRUE) = e
  OBVIOUS

\* A value the element type has is taken as it is.
LEMMA RepresentedIsKept ==
  ASSUME NEW t \in Types, NEW v \in LuaValues, Represents(t, v)
  PROVE  \E e : Converted(v, t) = {e} /\ Storable(e, t) /\ FromJava(e) = v
  <1>1. CASE v = nil /\ IsReference(t)
    <2>1. Converted(v, t) = {JavaNull}
      BY <1>1 DEF Converted
    <2> QED BY <1>1, <2>1, NotKinds DEF Storable, FromJava
  <1>2. CASE t = Type("Z") /\ IsBoolean(v)
    <2>1. t.base = "Z" /\ t.dims = 0 /\ t.base \notin Classes
      BY <1>2, KindsOfTypes DEF Type, Primitives
    <2>2. v # nil /\ v # JavaNull /\ ~IsObject(v) /\ ~IsNumber(v)
      BY <1>2, Kinds
    <2>3. Converted(v, t) = {v}
      BY <1>2, <2>1, <2>2 DEF Converted
    <2> QED BY <2>2, <2>3 DEF Storable, FromJava
  <1>3. CASE t.dims = 0 /\ t.base \in Numeric /\ IsNumber(v) /\ v.number \in Numbers(t.base)
    <2>1. t.base \in Primitives /\ t.base \notin Classes /\ t.base # "Z"
      BY <1>3, KindsOfTypes DEF Primitives, Numeric
    <2>2. v # nil /\ v # JavaNull /\ ~IsObject(v) /\ v = Number(v.number) /\ v.number \in Int
      BY <1>3, Kinds
    <2>3. Converted(v, t) = {Number(Wrap(v.number, t.base))}
      BY <1>3, <2>1, <2>2 DEF Converted
    <2>4. Number(Wrap(v.number, t.base)) = v
      BY <1>3, <2>2, WrapProperties
    <2>5. ToDouble(v.number) = v.number
      BY <1>3, TypedIsExact
    <2> QED BY <1>3, <2>2, <2>3, <2>4, <2>5 DEF Storable, FromJava
  <1>4. CASE t.base \in Classes /\ IsObject(v) /\ Assignable(t, v.object)
    <2>1. v # nil /\ v # JavaNull
      BY <1>4, Kinds
    <2>2. Converted(v, t) = {v}
      BY <1>4, <2>1 DEF Converted, Coerced
    <2> QED BY <1>4, <2>1, <2>2, Kinds DEF Storable, FromJava
  <1> QED BY <1>1, <1>2, <1>3, <1>4 DEF Represents

\* array[k] reads what was assigned to it where the element type has the value, and
\* the other elements are what they were.
THEOREM ReadsWhatWasSet == Spec => ReadsBack
  <1>1. ASSUME ArraysInv, NEW a \in Arrays, NEW k \in Indices, NEW v \in Values, SetElement(a, k, v)
        PROVE  /\ k \in 1..Length[a] /\ Represents(Component(a), v) => Reads(a, k)' = {v}
               /\ \A j \in 1..Length[a] \ {k} : Reads(a, j)' = Reads(a, j)
    <2> DEFINE t == Component(a)
               new == Converted(v, t)
    <2>1. t \in Types /\ v \in LuaValues
      BY ComponentTypes, ArraysAssumption
    <2>2. a \in DOMAIN elements /\ DOMAIN elements[a] = 1..Length[a]
      BY <1>1 DEF ArraysInv
    <2>3. ASSUME k \in 1..Length[a], Represents(t, v) PROVE Reads(a, k)' = {v}
      <3>1. PICK e : new = {e} /\ Storable(e, t) /\ FromJava(e) = v
        BY <2>1, <2>3, RepresentedIsKept
      <3>2. elements' = [elements EXCEPT ![a][k] = CHOOSE x \in new : TRUE]
        BY <1>1, <2>3, <3>1 DEF SetElement
      <3>3. elements' = [elements EXCEPT ![a][k] = e]
        BY <3>1, <3>2, OneOf
      <3>4. elements'[a][k] = e
        BY <2>2, <2>3, <3>3
      <3> QED BY <2>3, <3>1, <3>4 DEF Reads
    <2>4. ASSUME NEW j \in 1..Length[a] \ {k} PROVE Reads(a, j)' = Reads(a, j)
      <3>1. elements'[a][j] = elements[a][j]
        <4>1. CASE elements' = elements
          BY <4>1
        <4>2. ASSUME NEW e, elements' = [elements EXCEPT ![a][k] = e]
              PROVE  elements'[a][j] = elements[a][j]
          <5>1. elements'[a] = [elements[a] EXCEPT ![k] = e]
            BY <2>2, <4>2
          <5> QED BY <2>2, <5>1
        <4> QED BY <1>1, <4>1, <4>2, WhatIsSet
      <3> QED BY <3>1 DEF Reads
    <2> QED BY <2>3, <2>4
  <1>2. ArraysInv => [\A a \in Arrays, k \in Indices, v \in Values :
                        SetElement(a, k, v) =>
                          /\ k \in 1..Length[a] /\ Represents(Component(a), v) => Reads(a, k)' = {v}
                          /\ \A j \in 1..Length[a] \ {k} : Reads(a, j)' = Reads(a, j)]_<<elements, outcome>>
    BY <1>1
  <1> QED BY <1>2, ArraysAlways, PTL DEF ReadsBack

---------------------------------------------------------------------------
(* Calls *)

LEMMA DataOfJava ==
  ASSUME NEW t, NEW v \in LuaValues, Accepts(t, v)
  PROVE  ToJava(t, v) \in Data
  <1>1. CASE v = JavaNull \/ IsObject(v)
    BY <1>1, Kinds, NotKinds DEF ToJava
  <1>2. CASE ~(v = JavaNull \/ IsObject(v)) /\ t = Type(StringClass)
    <2>1. ToJava(t, v) = Object(t) /\ t \in Types
      BY <1>2, KindsOfTypes, TypesAssumption DEF ToJava, Type, Types
    <2> QED BY <2>1, Made
  <1>3. CASE ~(v = JavaNull \/ IsObject(v)) /\ t # Type(StringClass) /\ IsBoolean(v)
    BY <1>3, Kinds DEF ToJava
  <1>4. CASE ~(v = JavaNull \/ IsObject(v)) /\ t # Type(StringClass) /\ ~IsBoolean(v)
    <2>1. IsNumber(v) /\ t \in {Type("I"), Type("J")}
      BY <1>4 DEF Accepts
    <2>2. t.base \in Numeric
      BY <2>1 DEF Type, Numeric
    <2>3. ToJava(t, v) = Number(Wrap(v.number, t.base))
      BY <1>4 DEF ToJava
    <2>4. v.number \in Int
      BY <2>1, Kinds
    <2>5. Wrap(v.number, t.base) \in Int
      <3>1. Half[t.base] \in Nat
        BY <2>2, TypesAssumption
      <3>2. Wrap(v.number, t.base) \in Numbers(t.base)
        BY <2>2, <2>4, WrapProperties
      <3> QED BY <3>1, <3>2 DEF Numbers
    <2> QED BY <2>3, <2>5, Made
  <1> QED BY <1>1, <1>2, <1>3, <1>4

LEMMA PiecesTypes ==
  ASSUME NEW t \in Types
  PROVE  /\ Pieces(t) \in Seq({TwoBrackets} \cup Types)
         /\ Len(Pieces(t)) \in Nat \ {0}
         /\ t.dims = 0 => Pieces(t) = <<t>>
  <1> DEFINE a == [i \in 1..(t.dims \div 2) |-> TwoBrackets]
             z == [t EXCEPT !.dims = @ % 2]
             P == {TwoBrackets} \cup Types
  <1>1. t.dims \in Nat /\ t = [dims |-> t.dims, base |-> t.base] /\ t.base \in Classes \cup Primitives
    BY DEF Types
  <1>2. t.dims \div 2 \in Nat /\ t.dims % 2 \in Nat /\ (t.dims = 0 => t.dims \div 2 = 0 /\ t.dims % 2 = 0)
    BY <1>1
  <1>3. z \in Types /\ (t.dims = 0 => z = t)
    BY <1>1, <1>2 DEF Types
  <1>4. a \in Seq(P) /\ Len(a) = t.dims \div 2
    <2>1. a \in [1..(t.dims \div 2) -> P]
      OBVIOUS
    <2> HIDE DEF a, P
    <2> QED BY <1>2, <2>1, IsSequence
  <1>5. Pieces(t) = a \o <<z>>
    BY DEF Pieces
  <1> HIDE DEF a, z
  <1>6. <<z>> \in Seq(P) /\ Len(<<z>>) = 1
    BY <1>3, Single
  <1>7. a \o <<z>> \in Seq(P) /\ Len(a \o <<z>>) = t.dims \div 2 + 1
    BY <1>4, <1>6, ConcatProperties
  <1>8. t.dims = 0 => a \o <<z>> = <<z>>
    <2>1. t.dims = 0 => a = <<>>
      BY <1>2, <1>4, EmptySeq
    <2> QED BY <1>6, <2>1, ConcatEmptySeq
  <1> QED BY <1>2, <1>3, <1>5, <1>7, <1>8

\* A parameter is at least one piece.
LEMMA SpecTypes ==
  ASSUME NEW args \in Seq(Types)
  PROVE  /\ ParseArgSpec(args) \in Seq({TwoBrackets} \cup Types)
         /\ Len(ParseArgSpec(args)) \in Nat
         /\ Len(ParseArgSpec(args)) = 0 => args = <<>>
  <1> DEFINE P == {TwoBrackets} \cup Types
             ss == [i \in DOMAIN args |-> Pieces(args[i])]
  <1>1. /\ Len(args) \in Nat /\ DOMAIN args = 1..Len(args)
        /\ \A i \in 1..Len(args) : args[i] \in Types
    BY LenProperties
  <1>2. \A i \in 1..Len(args) : Pieces(args[i]) \in Seq(P) /\ Len(Pieces(args[i])) \in Nat \ {0}
    BY <1>1, PiecesTypes
  <1>3. ParseArgSpec(args) = FlattenSeq(ss)
    BY DEF ParseArgSpec
  <1>4. ss \in [1..Len(args) -> Seq(P)] /\ \A i \in 1..Len(args) : Len(ss[i]) \in Nat \ {0}
    BY <1>1, <1>2
  <1> HIDE DEF ss, P
  <1>5. ss \in Seq(Seq(P)) /\ Len(ss) = Len(args)
    BY <1>1, <1>4, IsSequence
  <1>6. FlattenSeq(ss) \in Seq(P) /\ Len(FlattenSeq(ss)) \in Nat
    BY <1>5, FlattenProperties, LenProperties
  <1>7. PICK off :
          /\ Offsets(ss, off)
          /\ Len(FlattenSeq(ss)) = off[Len(ss)]
          /\ \A i \in 1..Len(ss) : \A k \in 1..Len(ss[i]) :
               /\ off[i - 1] + k \in 1..Len(FlattenSeq(ss))
               /\ FlattenSeq(ss)[off[i - 1] + k] = ss[i][k]
          /\ \A p \in 1..Len(FlattenSeq(ss)) :
               \E i \in 1..Len(ss) : \E k \in 1..Len(ss[i]) : p = off[i - 1] + k
    BY <1>5, FlattenProperties
  <1>8. ASSUME args # <<>> PROVE Len(FlattenSeq(ss)) # 0
    <2>1. 1 \in 1..Len(ss) /\ 1 \in 1..Len(ss[1])
      <3>1. Len(args) # 0
        BY <1>8, EmptySeq
      <3> QED BY <1>1, <1>4, <1>5, <3>1
    <2>2. off[1 - 1] + 1 \in 1..Len(FlattenSeq(ss))
      BY <1>7, <2>1
    <2> QED BY <1>6, <2>2
  <1> QED BY <1>3, <1>6, <1>8 DEF P

\* A stretch of s is in S, and as many more are counted.
AllIn(s, S, a, b) == \A k \in 1..b : s[a + k] \in S
CountsUp(count, a, b) == \A k \in 0..b : count[a + k] = count[a] + k

LEMMA CountAll ==
  ASSUME NEW A, NEW s \in Seq(A), NEW S, NEW count, Counts(s, S, count),
         NEW a \in Nat, NEW b \in Nat, a + b <= Len(s),
         AllIn(s, S, a, b)
  PROVE  CountsUp(count, a, b)
  <1> DEFINE Bad == {k \in 0..b : count[a + k] # count[a] + k}
  <1>1. SUFFICES ASSUME Bad # {} PROVE FALSE
    BY DEF CountsUp
  <1>2. PICK k \in Bad : \A m \in Bad : k <= m
    <2>1. Bad \in SUBSET Nat
      OBVIOUS
    <2> HIDE DEF Bad
    <2> QED BY <1>1, <2>1, LeastNatural
  <1>3. Len(s) \in Nat
    BY LenProperties
  <1>4. count \in [0..Len(s) -> Nat] /\ a \in 0..Len(s)
    BY <1>3 DEF Counts
  <1>5. k # 0
    <2>1. count[a + 0] = count[a] + 0
      BY <1>4
    <2> QED BY <1>2, <2>1
  <1>6. k \in 1..b /\ k - 1 \in 0..b /\ k - 1 \notin Bad /\ (a + k) - 1 = a + (k - 1)
    BY <1>2, <1>5
  <1>7. count[a + (k - 1)] = count[a] + (k - 1)
    BY <1>6
  <1>8. a + k \in 1..Len(s) /\ s[a + k] \in S
    <2>1. k \in Nat /\ k >= 1 /\ k <= b
      BY <1>6
    <2>2. a + k \in 1..Len(s)
      BY <1>3, <2>1
    <2> QED BY <1>6, <2>2 DEF AllIn
  <1>9. count[a + k] = count[(a + k) - 1] + 1
    BY <1>8 DEF Counts
  <1>10. count[a + k] = count[a] + k
    BY <1>4, <1>6, <1>7, <1>9
  <1> QED BY <1>2, <1>10

\* Where none of the first elements is, none is counted.
LEMMA CountNone ==
  ASSUME NEW A, NEW s \in Seq(A), NEW S, NEW count, Counts(s, S, count),
         NEW a \in Nat, a <= Len(s),
         \A p \in 1..a : s[p] \notin S
  PROVE  count[a] = 0
  <1> DEFINE Bad == {p \in 0..a : count[p] # 0}
  <1>1. SUFFICES ASSUME Bad # {} PROVE FALSE
    OBVIOUS
  <1>2. PICK p \in Bad : \A m \in Bad : p <= m
    <2>1. Bad \in SUBSET Nat
      OBVIOUS
    <2> HIDE DEF Bad
    <2> QED BY <1>1, <2>1, LeastNatural
  <1>3. Len(s) \in Nat
    BY LenProperties
  <1>4. p # 0
    BY <1>2 DEF Counts
  <1>5. p \in 1..a /\ p - 1 \in 0..a /\ p - 1 \notin Bad
    BY <1>2, <1>4
  <1>6. count[p - 1] = 0
    BY <1>5
  <1>7. p \in 1..Len(s) /\ s[p] \notin S
    BY <1>3, <1>5
  <1>8. count[p] = count[p - 1] + 0
    BY <1>7 DEF Counts
  <1> QED BY <1>2, <1>6, <1>8

\* What is tried of candidate c with argument i
Try(methods, args, c, i) ==
  [method |-> methods[c], arg |-> args[i], type |-> ParseArgSpec(methods[c].raw.args)[i]]

AllTries(methods, args) ==
  {Try(methods, args, c, i) : c \in 1..Len(methods), i \in 1..Len(args)}

\* They are tried in rows, one for each candidate; off counts those before.
InRows(methods, args, T, off) ==
  /\ off \in [0..Len(methods) -> Nat]
  /\ \A c \in 1..Len(methods) : off[c] = off[c - 1] + Len(args)
  /\ \A c, d \in 0..Len(methods) : c <= d => off[c] <= off[d]
  /\ off[Len(methods)] = Len(T)
  /\ \A c \in 1..Len(methods) : \A k \in 1..Len(args) :
       /\ off[c - 1] + k \in 1..Len(T)
       /\ T[off[c - 1] + k] = Try(methods, args, c, k)
  /\ \A p \in 1..Len(T) :
       \E c \in 1..Len(methods) : \E k \in 1..Len(args) : p = off[c - 1] + k

LEMMA TriesProperties ==
  ASSUME NEW methods \in Seq(MethodIds), NEW args \in Seq(LuaValues),
         NEW T, T = Tries(methods, args)
  PROVE  /\ T \in Seq(AllTries(methods, args))
         /\ Len(T) \in Nat
         /\ \E off : InRows(methods, args, T, off)
  <1> DEFINE A == AllTries(methods, args)
             ss == [c \in DOMAIN methods |-> [i \in DOMAIN args |-> Try(methods, args, c, i)]]
  <1>1. /\ Len(methods) \in Nat /\ DOMAIN methods = 1..Len(methods)
        /\ Len(args) \in Nat /\ DOMAIN args = 1..Len(args)
    BY LenProperties
  <1>2. T = FlattenSeq(ss)
    BY DEF Tries, Try
  <1>3. \A c \in 1..Len(methods) : ss[c] \in [1..Len(args) -> A]
    <2>1. SUFFICES ASSUME NEW c \in 1..Len(methods) PROVE ss[c] \in [1..Len(args) -> A]
      OBVIOUS
    <2>2. ss[c] = [i \in 1..Len(args) |-> Try(methods, args, c, i)]
      BY <1>1
    <2>3. \A i \in 1..Len(args) : Try(methods, args, c, i) \in A
      BY DEF AllTries
    <2> QED BY <2>2, <2>3
  <1>4. \A c \in 1..Len(methods) : \A i \in 1..Len(args) : ss[c][i] = Try(methods, args, c, i)
    BY <1>1
  <1>5. DOMAIN ss = 1..Len(methods) /\ ss = [c \in 1..Len(methods) |-> ss[c]]
    BY <1>1
  <1> HIDE DEF ss, A
  <1>6. \A c \in 1..Len(methods) : ss[c] \in Seq(A) /\ Len(ss[c]) = Len(args)
    BY <1>1, <1>3, IsSequence
  <1>7. ss \in [1..Len(methods) -> Seq(A)]
    BY <1>5, <1>6
  <1>8. ss \in Seq(Seq(A)) /\ Len(ss) = Len(methods)
    BY <1>1, <1>7, IsSequence
  <1>9. T \in Seq(A) /\ Len(T) \in Nat
    BY <1>2, <1>8, FlattenProperties, LenProperties
  <1>10. PICK off :
          /\ Offsets(ss, off)
          /\ Len(FlattenSeq(ss)) = off[Len(ss)]
          /\ \A i \in 1..Len(ss) : \A k \in 1..Len(ss[i]) :
               /\ off[i - 1] + k \in 1..Len(FlattenSeq(ss))
               /\ FlattenSeq(ss)[off[i - 1] + k] = ss[i][k]
          /\ \A p \in 1..Len(FlattenSeq(ss)) :
               \E i \in 1..Len(ss) : \E k \in 1..Len(ss[i]) : p = off[i - 1] + k
    BY <1>8, FlattenProperties
  <1>11. /\ off \in [0..Len(methods) -> Nat]
         /\ \A c \in 1..Len(methods) : off[c] = off[c - 1] + Len(args)
         /\ \A c, d \in 0..Len(methods) : c <= d => off[c] <= off[d]
         /\ off[Len(methods)] = Len(T)
    BY <1>2, <1>6, <1>8, <1>10 DEF Offsets
  <1>12. \A c \in 1..Len(methods) : \A k \in 1..Len(args) :
           /\ off[c - 1] + k \in 1..Len(T)
           /\ T[off[c - 1] + k] = Try(methods, args, c, k)
    <2>1. SUFFICES ASSUME NEW c \in 1..Len(methods), NEW k \in 1..Len(args)
                   PROVE  /\ off[c - 1] + k \in 1..Len(T)
                          /\ T[off[c - 1] + k] = Try(methods, args, c, k)
      OBVIOUS
    <2>2. c \in 1..Len(ss) /\ k \in 1..Len(ss[c])
      BY <1>6, <1>8
    <2>3. off[c - 1] + k \in 1..Len(T) /\ T[off[c - 1] + k] = ss[c][k]
      BY <1>2, <1>10, <2>2
    <2> QED BY <1>4, <2>3
  <1>13. \A p \in 1..Len(T) : \E c \in 1..Len(methods) : \E k \in 1..Len(args) : p = off[c - 1] + k
    <2>1. SUFFICES ASSUME NEW p \in 1..Len(T)
                   PROVE  \E c \in 1..Len(methods) : \E k \in 1..Len(args) : p = off[c - 1] + k
      OBVIOUS
    <2>2. PICK c \in 1..Len(ss) : \E k \in 1..Len(ss[c]) : p = off[c - 1] + k
      BY <1>2, <1>10
    <2>3. c \in 1..Len(methods) /\ Len(ss[c]) = Len(args)
      BY <1>6, <1>8
    <2> QED BY <2>2, <2>3
  <1> QED BY <1>9, <1>11, <1>12, <1>13 DEF InRows, A

\* Whether candidate c is taken to accept argument j
Takes(methods, args, c, j) == Accepts(ParseArgSpec(methods[c].raw.args)[j], args[j])

LEMMA ChooseProperties ==
  ASSUME NEW methods \in Seq(MethodIds), NEW args \in Seq(LuaValues), args # <<>>
  PROVE  /\ Choose(methods, args) \in [method : MethodIds, args : Seq(Data)] \cup {Nil}
         /\ \A c \in 1..Len(methods) :
              (\A j \in 1..Len(args) : Takes(methods, args, c, j)) =>
                /\ Choose(methods, args) # Nil
                /\ (\A k \in 1..(c - 1) : \A j \in 1..Len(args) : ~Takes(methods, args, k, j)) =>
                     Choose(methods, args) =
                       [method |-> methods[c],
                        args |-> [j \in 1..Len(args) |->
                                    ToJava(ParseArgSpec(methods[c].raw.args)[j], args[j])]]
  <1> DEFINE n == Len(args)
             A == AllTries(methods, args)
             tries == Tries(methods, args)
             S == {t \in Range(tries) : Accepts(t.type, t.arg)}
             taken == Only(tries, S)
  <1>1. /\ n \in Nat \ {0} /\ Len(methods) \in Nat
        /\ \A i \in 1..n : args[i] \in LuaValues
        /\ \A c \in 1..Len(methods) : methods[c] \in MethodIds
    BY EmptySeq, LenProperties
  <1>15. tries = Tries(methods, args) /\ n = Len(args) /\ A = AllTries(methods, args)
    OBVIOUS
  <1> HIDE DEF n, A, tries
  <1>2. /\ tries \in Seq(A) /\ Len(tries) \in Nat
    BY <1>15, TriesProperties
  <1>3. PICK off :
          /\ off \in [0..Len(methods) -> Nat]
          /\ \A c \in 1..Len(methods) : off[c] = off[c - 1] + n
          /\ \A c, d \in 0..Len(methods) : c <= d => off[c] <= off[d]
          /\ off[Len(methods)] = Len(tries)
          /\ \A c \in 1..Len(methods) : \A k \in 1..n :
               off[c - 1] + k \in 1..Len(tries) /\ tries[off[c - 1] + k] = Try(methods, args, c, k)
          /\ \A p \in 1..Len(tries) : \E c \in 1..Len(methods) : \E k \in 1..n : p = off[c - 1] + k
    <2>1. PICK off : InRows(methods, args, tries, off)
      BY <1>15, TriesProperties
    <2> QED BY <2>1, <1>15 DEF InRows
  <1>4. Choose(methods, args) =
          IF Len(taken) < n THEN Nil
          ELSE [method |-> taken[n].method,
                args |-> [i \in 1..n |-> ToJava(taken[i].type, taken[i].arg)]]
    BY DEF Choose, Taken, n, tries
  <1>5. \A p \in 1..Len(tries) : tries[p] \in S <=> Accepts(tries[p].type, tries[p].arg)
    BY <1>2, LenProperties DEF Range
  <1>6. \A x \in A : x.method \in MethodIds /\ x.arg \in LuaValues
    BY <1>1 DEF AllTries, Try, A, n
  <1>7. \A c \in 1..Len(methods) : \A k \in 1..n :
          tries[off[c - 1] + k] \in S <=> Takes(methods, args, c, k)
    <2>1. SUFFICES ASSUME NEW c \in 1..Len(methods), NEW k \in 1..n
                   PROVE  tries[off[c - 1] + k] \in S <=> Takes(methods, args, c, k)
      OBVIOUS
    <2>2. off[c - 1] + k \in 1..Len(tries) /\ tries[off[c - 1] + k] = Try(methods, args, c, k)
      BY <1>3
    <2>3. tries[off[c - 1] + k] \in S
            <=> Accepts(Try(methods, args, c, k).type, Try(methods, args, c, k).arg)
      BY <1>5, <2>2
    <2>4. /\ Try(methods, args, c, k).type = ParseArgSpec(methods[c].raw.args)[k]
          /\ Try(methods, args, c, k).arg = args[k]
      BY DEF Try
    <2> QED BY <2>3, <2>4 DEF Takes
  <1>8. \A x \in S : Accepts(x.type, x.arg)
    OBVIOUS
  <1> HIDE DEF S
  <1>9. taken \in Seq(A \cap S)
    BY <1>2, OnlyProperties
  <1>10. PICK count : Counts(tries, S, count)
    BY <1>2, OnlyProperties
  <1> HIDE DEF taken
  <1>11. Len(taken) \in Nat /\ \A i \in 1..Len(taken) : taken[i] \in A \cap S
    BY <1>9, LenProperties
  <1>12. Len(taken) = count[Len(tries)] /\ count \in [0..Len(tries) -> Nat]
         /\ \A i, j \in 0..Len(tries) : i <= j => count[i] <= count[j]
    BY <1>10 DEF Counts, taken
  <1>13. Choose(methods, args) \in [method : MethodIds, args : Seq(Data)] \cup {Nil}
         /\ (~(Len(taken) < n) => Choose(methods, args) # Nil)
    <2>1. ASSUME ~(Len(taken) < n)
          PROVE  Choose(methods, args) \in [method : MethodIds, args : Seq(Data)]
      <3>1. \A i \in 1..n : taken[i] \in A /\ taken[i] \in S
        BY <1>1, <1>11, <2>1
      <3>2. \A i \in 1..n : ToJava(taken[i].type, taken[i].arg) \in Data
        BY <1>6, <1>8, <3>1, DataOfJava
      <3>3. taken[n].method \in MethodIds
        BY <1>1, <1>6, <3>1
      <3> DEFINE js == [i \in 1..n |-> ToJava(taken[i].type, taken[i].arg)]
      <3>4. js \in [1..n -> Data]
        BY <3>2
      <3>5. Choose(methods, args) = [method |-> taken[n].method, args |-> js]
        BY <1>4, <2>1
      <3> HIDE DEF js
      <3>6. js \in Seq(Data)
        BY <1>1, <3>4, IsSequence
      <3> QED BY <3>3, <3>5, <3>6
    <2>2. Len(taken) < n => Choose(methods, args) = Nil
      BY <1>4
    <2> QED BY <2>1, <2>2, CallsAssumption
  <1>14. ASSUME NEW c \in 1..Len(methods), \A j \in 1..n : Takes(methods, args, c, j)
         PROVE  /\ Choose(methods, args) # Nil
                /\ (\A k \in 1..(c - 1) : \A j \in 1..n : ~Takes(methods, args, k, j)) =>
                     Choose(methods, args) =
                       [method |-> methods[c],
                        args |-> [j \in 1..n |-> ToJava(ParseArgSpec(methods[c].raw.args)[j], args[j])]]
    <2> DEFINE a == off[c - 1]
    <2>1. c - 1 \in 0..Len(methods) /\ c \in 0..Len(methods) /\ Len(methods) \in 0..Len(methods)
          /\ c <= Len(methods)
      BY <1>1
    <2>2. a \in Nat /\ off[c] = a + n /\ a + n <= Len(tries)
      BY <1>3, <2>1
    <2>3. \A k \in 1..n : tries[a + k] \in S /\ tries[a + k] = Try(methods, args, c, k)
      BY <1>3, <1>7, <1>14
    <2> HIDE DEF a
    <2>4. CountsUp(count, a, n)
      <3>1. n \in Nat /\ AllIn(tries, S, a, n)
        BY <1>1, <2>3 DEF AllIn
      <3>2. a \in Nat /\ a + n <= Len(tries) /\ tries \in Seq(A) /\ Counts(tries, S, count)
        BY <1>2, <1>10, <2>2
      <3> QED BY <3>1, <3>2, CountAll
    <2>5. ~(Len(taken) < n)
      <3>1. n \in 0..n /\ a \in 0..Len(tries) /\ a + n \in 0..Len(tries) /\ Len(tries) \in 0..Len(tries)
        BY <1>1, <1>2, <2>2
      <3>2. count[a + n] = count[a] + n /\ count[a + n] <= Len(taken) /\ count[a] \in Nat
        BY <1>12, <2>2, <2>4, <3>1 DEF CountsUp
      <3> QED BY <1>1, <1>11, <3>2
    <2>6. ASSUME \A k \in 1..(c - 1) : \A j \in 1..n : ~Takes(methods, args, k, j)
          PROVE  Choose(methods, args) =
                   [method |-> methods[c],
                    args |-> [j \in 1..n |-> ToJava(ParseArgSpec(methods[c].raw.args)[j], args[j])]]
      <3>1. ASSUME NEW p \in 1..a PROVE tries[p] \notin S
        <4>1. p \in 1..Len(tries)
          BY <1>1, <1>2, <2>2
        <4>2. PICK d \in 1..Len(methods), k \in 1..n : p = off[d - 1] + k
          BY <1>3, <4>1
        <4>3. d - 1 \in 0..Len(methods) /\ off[d - 1] \in Nat
          <5>1. d - 1 \in 0..Len(methods)
            BY <1>1, <4>2
          <5> QED BY <1>3, <5>1
        <4>4. ~(c - 1 <= d - 1)
          <5>1. ASSUME c - 1 <= d - 1 PROVE FALSE
            <6>1. a <= off[d - 1]
              BY <1>3, <2>1, <4>3, <5>1 DEF a
            <6> QED BY <1>1, <2>2, <4>2, <4>3, <6>1
          <5> QED BY <5>1
        <4>5. d \in 1..(c - 1)
          BY <1>1, <4>4
        <4> QED BY <1>7, <2>6, <4>2, <4>5
      <3>2. count[a] = 0
        <4>1. a <= Len(tries)
          BY <1>1, <1>2, <2>2
        <4> QED BY <1>2, <1>10, <2>2, <3>1, <4>1, CountNone
      <3>3. ASSUME NEW k \in 1..n PROVE taken[k] = Try(methods, args, c, k)
        <4>1. count[a + k] = k
          BY <1>1, <2>4, <3>2 DEF CountsUp
        <4>2. a + k \in 1..Len(tries) /\ tries[a + k] \in S
          <5>1. k \in Nat /\ k >= 1 /\ k <= n
            BY <1>1
          <5>2. a + k \in 1..Len(tries)
            BY <1>1, <1>2, <2>2, <5>1
          <5> QED BY <2>3, <5>2
        <4>3. taken[count[a + k]] = tries[a + k]
          BY <1>10, <4>2 DEF Counts, taken
        <4> QED BY <2>3, <4>1, <4>3
      <3>4. /\ taken[n].method = methods[c]
            /\ \A k \in 1..n : /\ taken[k].type = ParseArgSpec(methods[c].raw.args)[k]
                               /\ taken[k].arg = args[k]
        <4>1. \A k \in 1..n : /\ Try(methods, args, c, k).method = methods[c]
                              /\ Try(methods, args, c, k).type = ParseArgSpec(methods[c].raw.args)[k]
                              /\ Try(methods, args, c, k).arg = args[k]
          BY DEF Try
        <4>2. n \in 1..n
          BY <1>1
        <4> QED BY <3>3, <4>1, <4>2
      <3>5. [i \in 1..n |-> ToJava(taken[i].type, taken[i].arg)]
              = [j \in 1..n |-> ToJava(ParseArgSpec(methods[c].raw.args)[j], args[j])]
        BY <3>4
      <3> QED BY <1>4, <2>5, <3>4, <3>5
    <2> QED BY <1>13, <2>5, <2>6
  <1> QED BY <1>13, <1>14 DEF n

LEMMA RawTypes ==
  ASSUME NEW m \in MethodIds
  PROVE  m.raw \in Methods /\ m.raw.args \in Seq(Types) /\ m.class \in Classes
  <1>1. m.raw \in Methods /\ m.class \in Classes
    BY DEF MethodIds
  <1> QED BY <1>1, MethodTypes DEF MethodRecords

LEMMA SameArityTypes ==
  ASSUME NEW methods \in Seq(MethodIds), NEW args \in Seq(LuaValues)
  PROVE  /\ SameArity(methods, args) \in Seq(MethodIds)
         /\ \A i \in 1..Len(methods) : AcceptsAll(methods[i], args) =>
              \E c \in 1..Len(SameArity(methods, args)) : SameArity(methods, args)[c] = methods[i]
  <1> DEFINE S == {m \in Range(methods) : Len(ParseArgSpec(m.raw.args)) = Len(args)}
             tried == Only(methods, S)
  <1>1. SameArity(methods, args) = tried
    BY DEF SameArity
  <1>2. DOMAIN methods = 1..Len(methods)
    BY LenProperties
  <1>3. \A i \in 1..Len(methods) : AcceptsAll(methods[i], args) => methods[i] \in S
    BY <1>2 DEF AcceptsAll, Range
  <1> HIDE DEF S
  <1>4. tried \in Seq(MethodIds \cap S)
    BY OnlyProperties
  <1>5. tried \in Seq(MethodIds)
    BY <1>4, SeqMonotonic
  <1>6. PICK count : Counts(methods, S, count)
    BY OnlyProperties
  <1>7. \A i \in 1..Len(methods) : methods[i] \in S =>
          count[i] \in 1..Len(tried) /\ tried[count[i]] = methods[i]
    BY <1>6 DEF Counts
  <1> QED BY <1>1, <1>3, <1>5, <1>7

LEMMA ChosenTypes ==
  ASSUME NEW methods \in Seq(MethodIds), NEW args \in Seq(LuaValues)
  PROVE  Chosen(methods, args) \in [method : MethodIds, args : Seq(Data)] \cup {Nil}
  <1> DEFINE S == {m \in Range(methods) : m.raw.args = <<>>}
             bare == Only(methods, S)
  <1>1. Chosen(methods, args) =
          IF args # <<>> THEN Choose(SameArity(methods, args), args)
          ELSE IF bare = <<>> THEN Nil ELSE [method |-> Head(bare), args |-> <<>>]
    BY DEF Chosen
  <1>2. args # <<>> => Choose(SameArity(methods, args), args) \in [method : MethodIds, args : Seq(Data)] \cup {Nil}
    BY SameArityTypes, ChooseProperties
  <1>3. bare \in Seq(MethodIds \cap S)
    BY OnlyProperties
  <1> HIDE DEF bare
  <1>4. bare # <<>> => Head(bare) \in MethodIds
    BY <1>3, HeadTailProperties
  <1>5. <<>> \in Seq(Data)
    BY EmptySeq
  <1> QED BY <1>1, <1>2, <1>4, <1>5

\* Nothing is chosen only when no method accepts all the arguments.
LEMMA NothingChosen ==
  ASSUME NEW methods \in Seq(MethodIds), NEW args \in Seq(LuaValues),
         Chosen(methods, args) = Nil,
         NEW i \in 1..Len(methods), AcceptsAll(methods[i], args)
  PROVE  FALSE
  <1> DEFINE S == {m \in Range(methods) : m.raw.args = <<>>}
             bare == Only(methods, S)
  <1>1. Chosen(methods, args) =
          IF args # <<>> THEN Choose(SameArity(methods, args), args)
          ELSE IF bare = <<>> THEN Nil ELSE [method |-> Head(bare), args |-> <<>>]
    BY DEF Chosen
  <1>2. /\ DOMAIN args = 1..Len(args) /\ DOMAIN methods = 1..Len(methods)
        /\ methods[i] \in MethodIds
    BY LenProperties
  <1>3. CASE args # <<>>
    <2>1. PICK c \in 1..Len(SameArity(methods, args)) : SameArity(methods, args)[c] = methods[i]
      BY SameArityTypes
    <2>2. \A j \in 1..Len(args) : Takes(SameArity(methods, args), args, c, j)
      BY <1>2, <2>1 DEF AcceptsAll, Takes
    <2>3. Choose(SameArity(methods, args), args) # Nil
      BY <1>3, <2>2, SameArityTypes, ChooseProperties
    <2> QED BY <1>1, <1>3, <2>3
  <1>4. CASE args = <<>>
    <2>1. Len(ParseArgSpec(methods[i].raw.args)) = 0
      BY <1>4, EmptySeq DEF AcceptsAll
    <2>2. methods[i].raw.args = <<>>
      BY <1>2, <2>1, RawTypes, SpecTypes
    <2>3. methods[i] \in S
      BY <1>2, <2>2 DEF Range
    <2> HIDE DEF S
    <2>4. PICK count : Counts(methods, S, count)
      BY OnlyProperties
    <2>5. count[i] \in 1..Len(bare)
      BY <2>3, <2>4 DEF Counts
    <2>6. bare \in Seq(MethodIds \cap S)
      BY OnlyProperties
    <2> HIDE DEF bare
    <2>7. bare # <<>> /\ Head(bare) \in MethodIds
      <3>1. bare # <<>>
        BY <2>5, EmptySeq
      <3> QED BY <2>6, <3>1, HeadTailProperties
    <2>8. Chosen(methods, args) \in [method : MethodIds, args : Seq(Data)]
      <3>1. Chosen(methods, args) = [method |-> Head(bare), args |-> <<>>]
        BY <1>1, <1>4, <2>7 DEF bare, S
      <3>2. <<>> \in Seq(Data)
        BY EmptySeq
      <3> QED BY <2>7, <3>1, <3>2
    <2> QED BY <2>8, CallsAssumption
  <1> QED BY <1>3, <1>4

\* What a call leaves for its result
CallsInv ==
  outcome.op = "call" =>
    /\ outcome.methods \in Seq(MethodIds)
    /\ outcome.typed \in Seq(LuaValues)
    /\ outcome.chosen = Chosen(outcome.methods, outcome.typed)
    /\ outcome.target \in [kind : {"object", "class"}, class : Classes]

LEMMA CallKeeps ==
  ASSUME NEW r \in Receivers, NEW name \in Names, NEW args \in ArgLists, Call(r, name, args)
  PROVE  CallsInv'
  <1> DEFINE holder == Holder(r, name)
             methods == FindMethods[holder][name]
             chosen == Chosen(methods, args)
             target == IF chosen # Nil /\ chosen.method.raw.static
                       THEN [r EXCEPT !.kind = "class"] ELSE r
  <1>1. outcome' = [op |-> "call", typed |-> args, methods |-> methods, chosen |-> chosen,
                    target |-> target]
    BY DEF Call
  <1>2. r \in [kind : {"object", "class"}, class : Classes] /\ args \in Seq(LuaValues)
    BY CallsAssumption
  <1>3. holder \in Classes
    BY <1>2, TypesAssumption DEF Holder
  <1>4. methods \in Seq(MethodIds)
    BY <1>3, FindMethodsTypes
  <1>5. target \in [kind : {"object", "class"}, class : Classes]
    BY <1>2
  <1> HIDE DEF target, methods
  <1> QED BY <1>1, <1>2, <1>4, <1>5 DEF CallsInv

LEMMA CallsStep ==
  ASSUME BreakpointsInv, CallsInv, [Next]_vars
  PROVE  CallsInv'
  <1>1. ASSUME NEW at \in set, Hit(at) PROVE outcome'.op = "hit"
    BY <1>1 DEF Hit
  <1>2. Return => outcome'.op = "result"
    BY DEF Return
  <1>3. ASSUME NEW r \in Receivers, NEW name \in Names, GetField(r, name)
        PROVE  outcome'.op = "result"
    BY <1>3 DEF GetField
  <1>4. outcome'.op # "call" => CallsInv'
    BY DEF CallsInv
  <1>5. CASE UNCHANGED vars
    BY <1>5 DEF vars, CallsInv
  <1> QED BY <1>1, <1>2, <1>3, <1>4, <1>5, CallKeeps, StepOutcome

LEMMA CallsAlways == Spec => []CallsInv
  <1>1. Init => CallsInv
    <2>1. Init => outcome.op = "none"
      BY DEF Init, AtPrompt
    <2> QED BY <2>1 DEF CallsInv
  <1>2. BreakpointsInv /\ CallsInv /\ [Next]_vars => CallsInv'
    BY CallsStep
  <1> QED BY <1>1, <1>2, BreakpointsAlways, PTL DEF Spec

\* "No matching method" is said only when no method of the name accepts the arguments,
\* whatever candidates before left in jargs.
THEOREM FailsWithoutMatch == Spec => []MatchIsFound
  <1>1. CallsInv => MatchIsFound
    <2>1. SUFFICES ASSUME CallsInv, outcome.op = "call", outcome.chosen = Nil,
                          NEW i \in DOMAIN outcome.methods, AcceptsAll(outcome.methods[i], outcome.typed)
                   PROVE  FALSE
      BY DEF MatchIsFound
    <2>2. /\ outcome.methods \in Seq(MethodIds) /\ outcome.typed \in Seq(LuaValues)
          /\ Chosen(outcome.methods, outcome.typed) = Nil
      BY <2>1 DEF CallsInv
    <2>3. i \in 1..Len(outcome.methods)
      BY <2>2, LenProperties
    <2> QED BY <2>1, <2>2, <2>3, NothingChosen
  <1> QED BY <1>1, CallsAlways, PTL

\* A method that accepts all the arguments, when none before it took one, is called
\* with each in its place and converted for its parameter.
THEOREM CalledWithOwnArguments == Spec => []OwnArguments
  <1>1. CallsInv => OwnArguments
    <2> DEFINE args == outcome.typed
               tried == SameArity(outcome.methods, args)
    <2>1. SUFFICES ASSUME CallsInv, outcome.op = "call", args # <<>>,
                          NEW i \in DOMAIN tried, AcceptsAll(tried[i], args),
                          \A k \in 1..(i - 1) : \A j \in DOMAIN args :
                            ~Accepts(ParseArgSpec(tried[k].raw.args)[j], args[j])
                   PROVE  outcome.chosen =
                            [method |-> tried[i],
                             args |-> [j \in DOMAIN args |->
                                         ToJava(ParseArgSpec(tried[i].raw.args)[j], args[j])]]
      BY DEF OwnArguments
    <2>2. /\ outcome.methods \in Seq(MethodIds) /\ args \in Seq(LuaValues)
          /\ outcome.chosen = Choose(tried, args)
      BY <2>1 DEF CallsInv, Chosen
    <2>3. tried \in Seq(MethodIds)
      BY <2>2, SameArityTypes
    <2>4. DOMAIN args = 1..Len(args)
      BY <2>2, LenProperties
    <2> HIDE DEF tried, args
    <2>5. i \in 1..Len(tried)
      BY <2>3, LenProperties
    <2>6. /\ \A j \in 1..Len(args) : Takes(tried, args, i, j)
          /\ \A k \in 1..(i - 1) : \A j \in 1..Len(args) : ~Takes(tried, args, k, j)
      BY <2>1, <2>4 DEF AcceptsAll, Takes
    <2>7. Choose(tried, args) =
            [method |-> tried[i],
             args |-> [j \in 1..Len(args) |-> ToJava(ParseArgSpec(tried[i].raw.args)[j], args[j])]]
      BY <2>1, <2>2, <2>3, <2>5, <2>6, ChooseProperties
    <2> QED BY <2>2, <2>4, <2>7
  <1> QED BY <1>1, CallsAlways, PTL

---------------------------------------------------------------------------
(* What comes back *)

LEMMA OnePiece ==
  /\ \A t \in Types : t.dims = 0 => ParseArgSpec(<<t>>) = <<t>>
  <1>1. SUFFICES ASSUME NEW t \in Types, t.dims = 0 PROVE ParseArgSpec(<<t>>) = <<t>>
    OBVIOUS
  <1>2. Pieces(t) = <<t>>
    BY <1>1, PiecesTypes
  <1> DEFINE ss == <<<<t>>>>
  <1>3. /\ <<t>> \in Seq(Types) /\ Len(<<t>>) = 1 /\ <<t>>[1] = t
        /\ ss \in Seq(Seq(Types)) /\ Len(ss) = 1 /\ ss[1] = <<t>>
    <2>1. <<t>> \in Seq(Types) /\ Len(<<t>>) = 1 /\ <<t>>[1] = t
      BY Single
    <2> QED BY <2>1, Single
  <1>4. ParseArgSpec(<<t>>) = FlattenSeq(ss)
    <2>1. DOMAIN <<t>> = {1}
      BY <1>3, LenProperties
    <2>2. [i \in DOMAIN <<t>> |-> Pieces(<<t>>[i])] = ss
      BY <1>2, <1>3, <2>1
    <2> QED BY <2>2 DEF ParseArgSpec
  <1> HIDE DEF ss
  <1>5. PICK off :
          /\ Offsets(ss, off)
          /\ Len(FlattenSeq(ss)) = off[Len(ss)]
          /\ \A i \in 1..Len(ss) : \A k \in 1..Len(ss[i]) :
               /\ off[i - 1] + k \in 1..Len(FlattenSeq(ss))
               /\ FlattenSeq(ss)[off[i - 1] + k] = ss[i][k]
          /\ \A p \in 1..Len(FlattenSeq(ss)) :
               \E i \in 1..Len(ss) : \E k \in 1..Len(ss[i]) : p = off[i - 1] + k
    BY <1>3, FlattenProperties
  <1>6. off[0] = 0 /\ off[1] = 1
    <2>1. off[0] = 0 /\ off[1] = off[1 - 1] + Len(ss[1])
      BY <1>3, <1>5 DEF Offsets
    <2> QED BY <1>3, <2>1
  <1>7. Len(FlattenSeq(ss)) = 1 /\ FlattenSeq(ss)[1] = t
    BY <1>3, <1>5, <1>6
  <1>8. FlattenSeq(ss) \in Seq(Types)
    BY <1>3, FlattenProperties
  <1> QED BY <1>3, <1>4, <1>7, <1>8, SeqEqual

\* Whether lua is what the value v of a type comes back as
BackAs(type, lua, v) ==
  IF Large(v) THEN Accepts(type, lua) /\ (Has(type, lua) => ToJava(type, lua) = lua)
  ELSE IF Passable(type) THEN Accepts(type, lua) /\ ToJava(type, lua) = v ELSE lua = v

LEMMA ObjectsComeBack ==
  ASSUME NEW t \in Types, NEW v \in Data, IsReference(t), IsObject(v), Assignable(t, v.object)
  PROVE  BackAs(t, v, v)
  <1>1. ~Large(v)
    BY Kinds DEF Large
  <1>2. ToJava(t, v) = v
    BY DEF ToJava
  <1>3. CASE t.base \in Classes
    BY <1>1, <1>2, <1>3 DEF BackAs, Accepts
  <1>4. CASE t.base \notin Classes
    <2>1. t.dims > 0
      BY <1>4 DEF IsReference
    <2>2. t.base # ObjectClass
      BY <1>4, TypesAssumption
    <2>3. \A c \in Classes : Ancestors[c] \subseteq Classes
      BY DEF Ancestors
    <2>4. t = v.object
      BY <1>4, <2>2, <2>3 DEF Assignable
    <2> QED BY <1>1, <1>2, <2>1, <2>4 DEF BackAs, Accepts
  <1> QED BY <1>3, <1>4

LEMMA PrimitivesComeBack ==
  ASSUME NEW t \in Types, NEW v \in Data, ~IsReference(t), Has(t, v)
  PROVE  BackAs(t, FromJava(v), v) /\ v # JavaNull
  <1>1. v \in LuaValues \cup Data
    OBVIOUS
  <1>2. t # Type(StringClass) /\ t.base \notin Classes /\ t.dims = 0
    <2>1. t.dims = 0 /\ t.base \notin Classes
      BY DEF IsReference, Types
    <2>2. Type(StringClass).base \in Classes
      BY TypesAssumption DEF Type
    <2> QED BY <2>1, <2>2
  <1>3. CASE t.base = "Z"
    <2>1. t = Type("Z")
      BY <1>2, <1>3, KindsOfTypes DEF Type
    <2>2. IsBoolean(v)
      BY <1>3 DEF Has
    <2>3. v # JavaNull /\ ~IsObject(v) /\ ~IsNumber(v)
      BY <1>1, <2>2, Kinds
    <2>4. FromJava(v) = v /\ ~Large(v)
      BY <2>3 DEF FromJava, Large
    <2> QED BY <1>2, <2>1, <2>2, <2>3, <2>4 DEF BackAs, Accepts, ToJava
  <1>4. CASE t.base # "Z"
    <2>1. IsNumber(v) /\ v.number \in Numbers(t.base)
      BY <1>4 DEF Has
    <2>2. v # JavaNull /\ ~IsObject(v) /\ ~IsBoolean(v) /\ v = Number(v.number) /\ v.number \in Int
      BY <1>1, <2>1, Kinds
    <2>3. FromJava(v) = Number(ToDouble(v.number))
      BY <2>1, <2>2 DEF FromJava
    <2>4. CASE Large(v)
      <3> DEFINE lua == FromJava(v)
      <3>1. t.base \in Numeric
        BY <1>2, <1>4, KindsOfTypes DEF IsReference, Type
      <3>2. t = Type("J")
        <4>1. Half[t.base] \in Nat /\ Precision \in Nat
          BY <3>1, TypesAssumption
        <4>2. t.base # "J" => 2 * Half[t.base] <= Precision
          BY <3>1, TypesAssumption
        <4>3. t.base = "J"
          BY <2>1, <2>2, <2>4, <4>1, <4>2 DEF Large, Numbers
        <4> QED BY <1>2, <4>3, KindsOfTypes DEF Type
      <3>3. IsNumber(lua) /\ ~IsObject(lua) /\ ~IsBoolean(lua) /\ lua # JavaNull
        BY <2>3 DEF Number, IsNumber, IsObject, IsBoolean, JavaNull
      <3>4. Accepts(t, lua)
        BY <3>2, <3>3 DEF Accepts
      <3>5. ASSUME Has(t, lua) PROVE ToJava(t, lua) = lua
        <4>1. lua.number \in Numbers("J") /\ lua = Number(lua.number)
          BY <1>2, <1>4, <2>3, <3>2, <3>5 DEF Has, Number, Type
        <4>2. lua.number \in Int
          <5>1. Half["J"] \in Nat
            BY TypesAssumption DEF Numeric
          <5> QED BY <4>1, <5>1 DEF Numbers
        <4>3. Wrap(lua.number, "J") = lua.number
          BY <4>1, <4>2, WrapProperties DEF Numeric
        <4>4. t.base = "J" /\ t # Type(StringClass)
          BY <1>2, <3>2 DEF Type
        <4> QED BY <3>3, <4>1, <4>3, <4>4 DEF ToJava
      <3> QED BY <2>2, <2>4, <3>4, <3>5 DEF BackAs
    <2>5. CASE ~Large(v)
      <3>1. FromJava(v) = v
        BY <2>1, <2>2, <2>3, <2>5, SmallIsExact DEF Large
      <3>2. CASE t.base \in {"I", "J"}
        <4>1. t \in {Type("I"), Type("J")}
          BY <1>2, <3>2, KindsOfTypes DEF Type
        <4>2. Wrap(v.number, t.base) = v.number
          BY <2>1, <2>2, <3>2, WrapProperties DEF Numeric
        <4>3. ToJava(t, v) = v
          BY <1>2, <2>2, <4>2 DEF ToJava
        <4> QED BY <2>1, <2>2, <2>5, <3>1, <4>1, <4>3 DEF BackAs, Accepts
      <3>3. CASE t.base \notin {"I", "J"}
        <4>1. ~Passable(t)
          BY <1>2, <1>4, <3>3 DEF Passable, IsReference
        <4> QED BY <2>2, <2>5, <3>1, <4>1 DEF BackAs
      <3> QED BY <3>2, <3>3
    <2> QED BY <2>4, <2>5
  <1> QED BY <1>3, <1>4

\* What a variable of a type holds comes back as ComesBackAsItWas says, null as nil.
LEMMA ValuesComeBack ==
  ASSUME NEW t \in Types, NEW v \in JavaValues(t)
  PROVE  IF v = JavaNull THEN FromJava(v) = nil ELSE BackAs(t, FromJava(v), v)
  <1>1. v \in Data /\ Has(t, v)
    BY ResultsAssumption DEF JavaValues
  <1>2. CASE v = JavaNull
    BY <1>2 DEF FromJava
  <1>3. CASE v # JavaNull /\ IsReference(t)
    <2>1. IsObject(v) /\ Assignable(t, v.object)
      BY <1>1, <1>3 DEF Has
    <2>2. FromJava(v) = v
      BY <1>1, <1>3, <2>1, Kinds DEF FromJava
    <2> QED BY <1>1, <1>3, <2>1, <2>2, ObjectsComeBack
  <1>4. CASE v # JavaNull /\ ~IsReference(t)
    BY <1>1, <1>4, PrimitivesComeBack
  <1> QED BY <1>2, <1>3, <1>4

\* The property of one result
Back(name, type, v, lua) ==
  IF lua = Undefined THEN name = "toString" /\ v # Object(Type(StringClass))
  ELSE IF v \in {Nothing, JavaNull} THEN lua = nil
  ELSE IF name = "toString" /\ type # Type(StringClass) /\ lua = String
  THEN v = Object(Type(StringClass))
  ELSE BackAs(type, lua, v)

LEMMA Unlike ==
  /\ \A v \in LuaValues \cup Data : v \notin {Thrown, Nothing, Undefined}
  /\ Thrown # Nothing /\ Thrown # Undefined /\ Nothing # Undefined
  /\ \A v \in Data : v # String
  /\ nil \in LuaValues /\ String \in LuaValues /\ JavaNull \in LuaValues
  <1>1. /\ Thrown # Nothing /\ Thrown # Undefined /\ Nothing # Undefined
        /\ nil \in LuaValues /\ String \in LuaValues /\ JavaNull \in LuaValues
    BY DEF Thrown, Nothing, Undefined, LuaValues, Data
  <1>2. \A v : DOMAIN v \in {{"number"}, {"boolean"}, {"object"}, {"null"}, {"string"}, {"none"}}
                 => v \notin {Thrown, Nothing, Undefined}
    BY DEF Thrown, Nothing, Undefined
  <1>3. \A v \in Data : DOMAIN v \in {{"number"}, {"boolean"}, {"object"}, {"null"}}
    BY DEF Data, JavaNull
  <1>4. DOMAIN String = {"string"} /\ DOMAIN nil = {"none"}
    BY DEF String, nil
  <1>5. \A v \in LuaValues \cup Data :
          DOMAIN v \in {{"number"}, {"boolean"}, {"object"}, {"null"}, {"string"}, {"none"}}
    <2>1. \A v \in [number : {n \in Int : ToDouble(n) = n}] : DOMAIN v = {"number"}
      OBVIOUS
    <2>2. \A v \in [boolean : BOOLEAN] : DOMAIN v = {"boolean"}
      OBVIOUS
    <2>3. \A v \in [object : Types] : DOMAIN v = {"object"}
      OBVIOUS
    <2> QED BY <1>3, <1>4, <2>1, <2>2, <2>3 DEF LuaValues, JavaNull
  <1>6. \A v \in Data : v # String
    BY <1>3, <1>4
  <1> QED BY <1>1, <1>2, <1>5, <1>6

\* No value of Java is a string of Lua, or one JNI leaves undefined.
LEMMA WhatIsShown ==
  ASSUME NEW v \in Data
  PROVE  FromJava(v) \notin {Undefined, String}
  <1>1. CASE v = JavaNull
    BY <1>1, Unlike DEF FromJava, nil, String
  <1>2. CASE v # JavaNull /\ IsNumber(v)
    BY <1>2 DEF FromJava, Number, Undefined, String
  <1>3. CASE v # JavaNull /\ ~IsNumber(v)
    BY <1>3, Unlike DEF FromJava
  <1> QED BY <1>1, <1>2, <1>3

LEMMA ReturnsComeBack ==
  ASSUME NEW m \in Methods, NEW target \in [kind : {"object", "class"}, class : Classes],
         NEW v \in Ends(m, target), v \notin {Thrown, Undefined},
         NEW type, type = IF m.name = "<init>" THEN Type(target.class) ELSE m.ret
  PROVE  Back(m.name, type, v, ReturnValue(m, v))
  <1>1. /\ m.ret \in Types \cup {Void}
        /\ m.name = "<init>" => m.ret = Void
    BY MethodTypes DEF MethodRecords
  <1>2. Fits(m, target) /\ v \in IF m.name = "<init>" THEN {Object(Type(target.class))}
                                 ELSE IF m.ret = Void THEN {Nothing} ELSE JavaValues(m.ret)
    BY DEF Ends
  <1>3. target.class \in Classes
    OBVIOUS
  <1>4. ReturnValue(m, v) =
          IF PreferredRet(m) = "V" THEN nil
          ELSE IF PreferredRet(m) = "STR" THEN IF v = Object(Type(StringClass)) THEN String ELSE Undefined
          ELSE FromJava(v)
    BY DEF ReturnValue
  <1>5. Void.dims = 0 /\ Void.base = "V" /\ "V" \notin Classes /\ Void \notin Types
    BY TypesAssumption DEF Void, Type, Types, Primitives, Numeric
  <1>6. \A c \in Classes : c \notin Primitives \cup {"V"}
    BY TypesAssumption
  <1>7. CASE m.name = "<init>"
    <2>1. PreferredRet(m) = "L"
      BY <1>1, <1>5, <1>7 DEF PreferredRet
    <2>2. v = Object(Type(target.class)) /\ Type(target.class) \in Types
      BY <1>2, <1>3, <1>7 DEF Type, Types
    <2>3. v \in Data /\ IsObject(v) /\ v.object = type /\ type \in Types /\ v # JavaNull
      BY <1>7, <2>2, Made, NotKinds
    <2>4. ReturnValue(m, v) = v
      BY <1>4, <2>1, <2>3, Kinds DEF FromJava
    <2>5. IsReference(type) /\ Assignable(type, v.object)
      BY <1>3, <1>7, <2>3 DEF IsReference, Type, Assignable
    <2>6. BackAs(type, v, v)
      BY <2>3, <2>5, ObjectsComeBack
    <2> QED BY <1>7, <2>3, <2>4, <2>6, Unlike DEF Back
  <1>8. CASE m.name # "<init>" /\ m.ret = Void
    <2>1. v = Nothing /\ type = Void
      BY <1>2, <1>8
    <2>2. CASE m.name = "toString"
      <3>1. Object(Type(StringClass)) \in LuaValues \cup Data
        BY KindsOfTypes, TypesAssumption, Made, Unlike DEF Type, Types
      <3>2. ReturnValue(m, v) = Undefined /\ v # Object(Type(StringClass))
        BY <1>4, <2>1, <2>2, <3>1, Unlike DEF PreferredRet
      <3> QED BY <2>2, <3>2 DEF Back
    <2>3. CASE m.name # "toString"
      <3>1. PreferredRet(m) = "V"
        BY <1>5, <1>8, <2>3 DEF PreferredRet
      <3>2. ReturnValue(m, v) = nil
        BY <1>4, <3>1
      <3> QED BY <2>1, <3>2, Unlike DEF Back
    <2> QED BY <2>2, <2>3
  <1>9. CASE m.name # "<init>" /\ m.ret # Void
    <2>1. v \in JavaValues(m.ret) /\ m.ret \in Types /\ type = m.ret
      BY <1>1, <1>2, <1>9
    <2>2. v \in Data
      BY <2>1, ResultsAssumption DEF JavaValues
    <2>3. CASE m.name = "toString" /\ v = Object(Type(StringClass))
      <3> DEFINE S == Type(StringClass)
      <3>1. S \in Types /\ S.base \in Classes /\ S.dims = 0
        BY TypesAssumption DEF Type, Types
      <3>2. ReturnValue(m, v) = String
        BY <1>4, <2>3 DEF PreferredRet
      <3>3. Passable(S)
        BY <3>1, OnePiece DEF Passable, IsReference
      <3>4. Accepts(S, String) /\ ToJava(S, String) = Object(S)
        BY Unlike DEF Accepts, ToJava, IsString, IsObject, String, JavaNull
      <3>5. BackAs(S, String, v)
        BY <2>3, <3>3, <3>4 DEF BackAs, Large, Object, IsNumber
      <3>6. v \notin {Nothing, JavaNull}
        BY <2>2, <2>3, <3>1, Made, NotKinds, Unlike
      <3> QED BY <2>3, <3>2, <3>5, <3>6, Unlike DEF Back
    <2>4. CASE m.name = "toString" /\ v # Object(Type(StringClass))
      <3>1. ReturnValue(m, v) = Undefined
        BY <1>4, <2>4 DEF PreferredRet
      <3> QED BY <2>4, <3>1 DEF Back
    <2>5. CASE m.name # "toString"
      <3>1. PreferredRet(m) \in {"[", "L"} \cup Primitives
        BY <1>9, <2>1, <2>5 DEF PreferredRet, Types
      <3>2. PreferredRet(m) \notin {"V", "STR"}
        BY <3>1 DEF Primitives, Numeric
      <3>3. ReturnValue(m, v) = FromJava(v)
        BY <1>4, <3>2
      <3> QED BY <2>1, <2>2, <2>5, <3>3, ValuesComeBack, WhatIsShown, Unlike DEF Back
    <2> QED BY <2>3, <2>4, <2>5
  <1> QED BY <1>7, <1>8, <1>9

LEMMA FieldTypes ==
  ASSUME NEW c \in Classes, NEW name, FindField(c, name) # Nil
  PROVE  FindField(c, name).type \in Types
  <1> DEFINE F == [class : Classes, name : STRING, type : Types, static : BOOLEAN]
             ss == [i \in DOMAIN SuperChain[c] |-> Fields[SuperChain[c][i]]]
             all == FlattenSeq(ss)
             S == {f \in Range(all) : f.name = name}
             hits == Only(all, S)
  <1>1. FindField(c, name) = IF hits = <<>> THEN Nil ELSE Head(hits)
    BY DEF FindField
  <1>2. \A d \in Classes : Fields[d] \in Seq(F)
    <2>1. SUFFICES ASSUME NEW d \in Classes PROVE Fields[d] \in Seq(F)
      OBVIOUS
    <2> DEFINE R == [class : {d}, name : STRING, type : Types, static : BOOLEAN]
    <2>2. Fields[d] \in Seq(R)
      BY FieldsAssumption
    <2>3. R \subseteq F
      OBVIOUS
    <2> HIDE DEF R, F
    <2> QED BY <2>2, <2>3, SeqMonotonic
  <1>3. \A f \in F : f.type \in Types
    OBVIOUS
  <1>4. /\ Len(SuperChain[c]) \in Nat /\ DOMAIN SuperChain[c] = 1..Len(SuperChain[c])
        /\ \A i \in 1..Len(SuperChain[c]) : SuperChain[c][i] \in Classes
    BY ChainOfClass, LenProperties DEF IsChain
  <1>5. ss \in [1..Len(SuperChain[c]) -> Seq(F)]
    BY <1>2, <1>4
  <1> HIDE DEF F, ss
  <1>6. ss \in Seq(Seq(F))
    BY <1>4, <1>5, IsSequence
  <1>7. all \in Seq(F)
    BY <1>6, FlattenProperties
  <1> HIDE DEF all, S
  <1>8. hits \in Seq(F \cap S)
    BY <1>7, OnlyProperties
  <1> HIDE DEF hits
  <1>9. hits # <<>> /\ FindField(c, name) = Head(hits)
    BY <1>1
  <1>10. Head(hits) \in F
    BY <1>8, <1>9, HeadTailProperties
  <1> QED BY <1>3, <1>9, <1>10

LEMMA FieldsComeBack ==
  ASSUME NEW r \in Receivers, NEW name \in Names, GetField(r, name)
  PROVE  ComesBackAsItWas'
  <1> SUFFICES ASSUME ~ComesBackAsItWas' PROVE FALSE
    OBVIOUS
  <1> DEFINE f == FindField(Holder(r, name), name)
  <1>1. PICK v \in FieldValues(f, r) :
          outcome' = [op |-> "result", name |-> name, value |-> v, lua |-> FromJava(v), type |-> f.type]
    BY DEF GetField
  <1>2. f # Nil
    BY DEF GetField
  <1>3. Holder(r, name) \in Classes
    BY CallsAssumption, TypesAssumption DEF Holder
  <1>4. f.type \in Types
    BY <1>2, <1>3, FieldTypes
  <1> HIDE DEF f
  <1>5. /\ outcome'.name = name /\ outcome'.value = v /\ outcome'.lua = FromJava(v)
        /\ outcome'.type = f.type /\ outcome'.op = "result"
    BY <1>1
  <1>6. v \notin {Thrown, Undefined}
    BY <1>5 DEF ComesBackAsItWas
  <1>7. v \in JavaValues(f.type)
    BY <1>6 DEF FieldValues
  <1>8. v \in Data
    BY <1>7, ResultsAssumption DEF JavaValues
  <1>9. Back(name, f.type, v, FromJava(v))
    BY <1>4, <1>7, <1>8, ValuesComeBack, WhatIsShown, Unlike DEF Back
  <1> QED BY <1>5, <1>9 DEF ComesBackAsItWas, Back, BackAs

LEMMA ResultsComeBack ==
  ASSUME CallsInv, Return
  PROVE  ComesBackAsItWas'
  <1> SUFFICES ASSUME ~ComesBackAsItWas' PROVE FALSE
    OBVIOUS
  <1> DEFINE m == outcome.chosen.method.raw
             target == outcome.target
             type == IF m.name = "<init>" THEN Type(target.class) ELSE m.ret
  <1>1. outcome.op = "call" /\ outcome.chosen # Nil
    BY DEF Return, Pending
  <1>2. /\ outcome.chosen \in [method : MethodIds, args : Seq(Data)]
        /\ target \in [kind : {"object", "class"}, class : Classes]
    <2>1. outcome.methods \in Seq(MethodIds) /\ outcome.typed \in Seq(LuaValues)
          /\ outcome.chosen = Chosen(outcome.methods, outcome.typed)
      BY <1>1 DEF CallsInv
    <2>2. outcome.chosen \in [method : MethodIds, args : Seq(Data)] \cup {Nil}
      BY <2>1, ChosenTypes
    <2> QED BY <1>1, <2>2 DEF CallsInv
  <1>3. m \in Methods
    <2>1. outcome.chosen.method \in MethodIds
      BY <1>2
    <2> QED BY <2>1, RawTypes
  <1>4. PICK v \in Ends(m, target) :
          outcome' = [op |-> "result", name |-> m.name, value |-> v, lua |-> ReturnValue(m, v),
                      type |-> type]
    BY DEF Return
  <1> HIDE DEF m, target, type
  <1>5. /\ outcome'.name = m.name /\ outcome'.value = v /\ outcome'.lua = ReturnValue(m, v)
        /\ outcome'.type = type /\ outcome'.op = "result"
    BY <1>4
  <1>6. v \notin {Thrown, Undefined}
    BY <1>5 DEF ComesBackAsItWas
  <1>7. Back(m.name, type, v, ReturnValue(m, v))
    BY <1>2, <1>3, <1>6, ReturnsComeBack DEF type
  <1> QED BY <1>5, <1>7 DEF ComesBackAsItWas, Back, BackAs

\* What a method returned or a field held comes back to Java as it was, wherever a
\* parameter takes it; a number beyond Lua's precision as the one Lua shows.
THEOREM ValuesReturn == Spec => []ComesBackAsItWas
  <1>1. Init => ComesBackAsItWas
    <2>1. Init => outcome.op = "none"
      BY DEF Init, AtPrompt
    <2> QED BY <2>1 DEF ComesBackAsItWas
  <1>2. BreakpointsInv /\ CallsInv /\ ComesBackAsItWas /\ [Next]_vars => ComesBackAsItWas'
    <2> SUFFICES ASSUME BreakpointsInv, CallsInv, ComesBackAsItWas, [Next]_vars
                 PROVE  ComesBackAsItWas'
      OBVIOUS
    <2>1. Return => ComesBackAsItWas'
      BY ResultsComeBack
    <2>2. ASSUME NEW r \in Receivers, NEW name \in Names, GetField(r, name)
          PROVE  ComesBackAsItWas'
      BY <2>2, FieldsComeBack
    <2>3. ASSUME NEW at \in set, Hit(at) PROVE outcome'.op = "hit"
      BY <2>3 DEF Hit
    <2>4. ASSUME NEW r \in Receivers, NEW name \in Names, NEW args \in ArgLists, Call(r, name, args)
          PROVE  outcome'.op = "call"
      BY <2>4 DEF Call
    <2>5. CASE UNCHANGED vars
      BY <2>5 DEF vars, ComesBackAsItWas
    <2>6. outcome'.op # "result" => ComesBackAsItWas'
      BY DEF ComesBackAsItWas
    <2> QED BY <2>1, <2>2, <2>3, <2>4, <2>5, <2>6, StepOutcome
  <1> QED BY <1>1, <1>2, BreakpointsAlways, CallsAlways, PTL DEF Spec
===========================================================================
