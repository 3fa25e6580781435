-------------------------- MODULE EventNamesProofs --------------------------
(***************************************************************************)
(* Theorems about the names of event types, for any alphabet and names of  *)
(* any length: SplitPascal cuts a name as a reader of Pascal case would,   *)
(* and loses no character.                                                 *)
(*                                                                         *)
(* The loop of SplitPascal is a recursive function, as are the folds of    *)
(* sequences.  What such a function computes is proved by an induction     *)
(* over a set of numbers, from the least one outside it: Recursion gives   *)
(* the function its values, Induction says what they are.                  *)
(***************************************************************************)
EXTENDS EventNames, FiniteSetTheorems, SequenceTheorems, WellFoundedInduction, TLAPS

-----------------------------------------------------------------------------
(* Lists and loops *)

\* A set of numbers that is not empty has a least one.
LEMMA LeastNatural ==
    ASSUME NEW T \in SUBSET Nat, T # {}
    PROVE  \E m \in T : \A k \in T : m <= k
<1> DEFINE R == OpToRel(<, Nat)
<1>1. IsWellFoundedOn(R, Nat)
  BY NatLessThanWellFounded
<1>2. \A i, j \in Nat : i < j => <<i, j>> \in R
  BY DEF OpToRel
<1> HIDE DEF R
<1>3. PICK m \in T : \A k \in T : ~ (<<k, m>> \in R)
  BY <1>1, WFMin
<1>4. ASSUME NEW k \in T
      PROVE  m <= k
  <2>1. k \in Nat /\ m \in Nat
    OBVIOUS
  <2>2. ~ (k < m)
    BY <1>2, <1>3, <2>1, Zenon
  <2> QED  BY <2>1, <2>2
<1> QED  BY <1>4

\* Induction up to n, for a set instead of a predicate.
LEMMA Induction ==
    ASSUME NEW n \in Nat, NEW P, 0 \in P,
           \A i \in 0..(n - 1) : i \in P => i + 1 \in P
    PROVE  \A i \in 0..n : i \in P
<1> DEFINE T == {i \in 0..n : i \notin P}
<1> SUFFICES ASSUME T # {} PROVE FALSE
  OBVIOUS
<1>1. T \in SUBSET Nat
  OBVIOUS
<1>2. PICK m \in T : \A k \in T : m <= k
  <2> HIDE DEF T
  <2> QED  BY <1>1, LeastNatural
<1>3. m \in 0..n /\ m \notin P /\ m # 0
  OBVIOUS
<1>4. m - 1 \in 0..(n - 1) /\ m - 1 \notin T
  BY <1>2, <1>3
<1>5. m - 1 \in P
  BY <1>4
<1>6. (m - 1) + 1 \in P
  BY <1>4, <1>5
<1> QED  BY <1>3, <1>6

\* The values of a loop of n rounds, step by step; it has them if each step has one.
HasLoop(n, S, base, step) ==
    \E f \in [0..n -> S] : f[0] = base /\ \A i \in 1..n : f[i] = step[i][f[i - 1]]

LEMMA Recursion ==
    ASSUME NEW n \in Nat, NEW S, NEW base \in S, NEW step,
           \A i \in 1..n, v \in S : step[i][v] \in S
    PROVE  HasLoop(n, S, base, step)
<1> DEFINE Is(f, k) == f[0] = base /\ \A i \in 1..k : f[i] = step[i][f[i - 1]]
           P == {k \in 0..n : \E f \in [0..k -> S] : Is(f, k)}
<1>1. 0 \in P
  <2>1. [i \in 0..0 |-> base] \in [0..0 -> S] /\ Is([i \in 0..0 |-> base], 0)
    OBVIOUS
  <2>2. \E f \in [0..0 -> S] : Is(f, 0)
    <3> HIDE DEF Is
    <3> QED  BY <2>1
  <2> QED  BY <2>2
<1>2. ASSUME NEW k \in 0..(n - 1), k \in P
      PROVE  k + 1 \in P
  <2>1. PICK f \in [0..k -> S] : Is(f, k)
    BY <1>2
  <2> DEFINE g == [i \in 0..(k + 1) |-> IF i = k + 1 THEN step[k + 1][f[k]] ELSE f[i]]
  <2>2. k + 1 \in 1..n /\ k \in 0..k /\ f[k] \in S
    OBVIOUS
  <2>3. step[k + 1][f[k]] \in S
    BY <2>2
  <2>4. g \in [0..(k + 1) -> S]
    BY <2>3
  <2>5. /\ g[k + 1] = step[k + 1][f[k]]
        /\ \A i \in 0..k : g[i] = f[i]
    OBVIOUS
  <2> HIDE DEF g
  <2>6. ASSUME NEW i \in 1..(k + 1)
        PROVE  g[i] = step[i][g[i - 1]]
    <3>1. CASE i = k + 1
      <4>1. g[k] = f[k] /\ i - 1 = k
        BY <2>5, <3>1
      <4> QED  BY <2>5, <3>1, <4>1
    <3>2. CASE i # k + 1
      <4>1. i \in 1..k /\ i \in 0..k /\ i - 1 \in 0..k
        BY <3>2
      <4> QED  BY <2>1, <2>5, <4>1
    <3> QED  BY <3>1, <3>2
  <2>7. g[0] = base
    BY <2>1, <2>5
  <2>8. Is(g, k + 1)
    BY <2>6, <2>7
  <2> HIDE DEF Is
  <2>9. k + 1 \in 0..n
    OBVIOUS
  <2> QED  BY <2>4, <2>8, <2>9
<1> HIDE DEF P
<1>3. \A k \in 0..n : k \in P
  BY <1>1, <1>2, Induction
<1>4. n \in P
  BY <1>3
<1> QED  BY <1>4 DEF P, HasLoop

\* The loop of FlattenSeq.
LEMMA FlattenSeqLoop ==
    ASSUME NEW S, NEW n \in Nat \ {0}, NEW seqs \in [1..n -> Seq(S)]
    PROVE  \E list : /\ FlattenSeq(seqs) = list[n]
                     /\ list[1] = seqs[1]
                     /\ \A i \in 2..n : list[i] = list[i - 1] \o seqs[i]
<1> DEFINE step == [i \in 1..n |-> [l \in Seq(S) |-> IF i = 1 THEN seqs[1] ELSE l \o seqs[i]]]
           Loop(list) == list = [i \in 1..Len(seqs) |->
                                    IF i = 1 THEN seqs[i] ELSE list[i - 1] \o seqs[i]]
<1>0. Len(seqs) = n /\ 1 \in 1..n /\ seqs[1] \in Seq(S)
  OBVIOUS
<1>1. \A i \in 1..n, l \in Seq(S) : /\ step[i][l] = IF i = 1 THEN seqs[1] ELSE l \o seqs[i]
                                    /\ step[i][l] \in Seq(S)
  <2>1. ASSUME NEW i \in 1..n, NEW l \in Seq(S)
        PROVE  (IF i = 1 THEN seqs[1] ELSE l \o seqs[i]) \in Seq(S)
    <3>1. seqs[i] \in Seq(S)
      OBVIOUS
    <3>2. l \o seqs[i] \in Seq(S)
      BY <3>1
    <3> QED  BY <1>0, <3>2
  <2> QED  BY <2>1
<1>2. \E f \in [0..n -> Seq(S)] : f[0] = seqs[1] /\ \A i \in 1..n : f[i] = step[i][f[i - 1]]
  <2> HIDE DEF step
  <2>1. \A i \in 1..n, v \in Seq(S) : step[i][v] \in Seq(S)
    BY <1>1
  <2>2. HasLoop(n, Seq(S), seqs[1], step)
    BY <1>0, <2>1, Recursion
  <2> QED  BY <2>2 DEF HasLoop
<1>3. PICK f \in [0..n -> Seq(S)] : f[0] = seqs[1] /\ \A i \in 1..n : f[i] = step[i][f[i - 1]]
  BY <1>2
<1>4. ASSUME NEW i \in 1..n
      PROVE  f[i] = IF i = 1 THEN seqs[i] ELSE f[i - 1] \o seqs[i]
  <2>1. f[i - 1] \in Seq(S)
    OBVIOUS
  <2>2. step[i][f[i - 1]] = IF i = 1 THEN seqs[1] ELSE f[i - 1] \o seqs[i]
    BY <1>1, <2>1
  <2> HIDE DEF step
  <2> QED  BY <1>3, <2>2
<1> HIDE DEF step
<1>5. Loop([i \in 1..n |-> f[i]])
  <2> DEFINE g == [i \in 1..n |-> f[i]]
  <2>1. \A i \in 1..n : g[i] = IF i = 1 THEN seqs[i] ELSE g[i - 1] \o seqs[i]
    <3>1. ASSUME NEW i \in 1..n, i # 1
          PROVE  g[i] = g[i - 1] \o seqs[i]
      <4>1. i - 1 \in 1..n
        BY <3>1
      <4> QED  BY <1>4, <3>1, <4>1
    <3> QED  BY <1>4, <3>1
  <2>2. g = [i \in 1..n |-> g[i]]
    OBVIOUS
  <2> HIDE DEF g
  <2>3. Loop(g)
    BY <1>0, <2>1, <2>2
  <2> QED  BY <2>3 DEF g
<1>6. PICK list : list = CHOOSE l : Loop(l)
  OBVIOUS
<1>7. Loop(list)
  <2>1. \E l : Loop(l)
    BY <1>5
  <2> HIDE DEF Loop
  <2> QED  BY <1>6, <2>1
<1>8. FlattenSeq(seqs) = list[n]
  BY <1>0, <1>6 DEF FlattenSeq
<1>9. \A i \in 1..n : list[i] = IF i = 1 THEN seqs[i] ELSE list[i - 1] \o seqs[i]
  BY <1>0, <1>7
<1>10. /\ list[1] = seqs[1]
       /\ \A i \in 2..n : list[i] = list[i - 1] \o seqs[i]
  <2>1. ASSUME NEW i \in 2..n
        PROVE  list[i] = list[i - 1] \o seqs[i]
    <3>1. i \in 1..n /\ i # 1
      OBVIOUS
    <3> QED  BY <1>9, <3>1
  <2> QED  BY <1>0, <1>9, <2>1
<1> QED  BY <1>8, <1>10

LEMMA ConcatRange ==
    ASSUME NEW S, NEW a \in Seq(S), NEW b \in Seq(S)
    PROVE  ToSet(a \o b) = ToSet(a) \cup ToSet(b)
<1>1. /\ Len(a) \in Nat /\ Len(b) \in Nat
      /\ DOMAIN a = 1..Len(a) /\ DOMAIN b = 1..Len(b)
      /\ DOMAIN (a \o b) = 1..(Len(a) + Len(b))
      /\ \A i \in 1..Len(a) : (a \o b)[i] = a[i]
      /\ \A i \in 1..Len(b) : (a \o b)[Len(a) + i] = b[i]
  OBVIOUS
<1>2. ASSUME NEW e \in ToSet(a \o b)
      PROVE  e \in ToSet(a) \cup ToSet(b)
  <2>1. PICK i \in 1..(Len(a) + Len(b)) : e = (a \o b)[i]
    BY <1>1 DEF ToSet
  <2>2. CASE i <= Len(a)
    BY <1>1, <2>1, <2>2 DEF ToSet
  <2>3. CASE ~(i <= Len(a))
    <3>1. i - Len(a) \in 1..Len(b) /\ Len(a) + (i - Len(a)) = i
      BY <1>1, <2>3
    <3>2. e = b[i - Len(a)]
      BY <1>1, <2>1, <3>1
    <3> QED  BY <1>1, <3>1, <3>2 DEF ToSet
  <2> QED  BY <2>2, <2>3
<1>3. ASSUME NEW e \in ToSet(a) \cup ToSet(b)
      PROVE  e \in ToSet(a \o b)
  <2>1. CASE e \in ToSet(a)
    <3>1. PICK i \in 1..Len(a) : e = a[i]
      BY <1>1, <2>1 DEF ToSet
    <3>2. i \in 1..(Len(a) + Len(b)) /\ (a \o b)[i] = e
      BY <1>1, <3>1
    <3> QED  BY <1>1, <3>2 DEF ToSet
  <2>2. CASE e \in ToSet(b)
    <3>1. PICK i \in 1..Len(b) : e = b[i]
      BY <1>1, <2>2 DEF ToSet
    <3>2. Len(a) + i \in 1..(Len(a) + Len(b)) /\ (a \o b)[Len(a) + i] = e
      BY <1>1, <3>1
    <3> QED  BY <1>1, <3>2 DEF ToSet
  <2> QED  BY <2>1, <2>2
<1> QED  BY <1>2, <1>3

\* FlattenSeq has the elements of all its parts, and no part is longer than it.
LEMMA FlattenSeqFacts ==
    ASSUME NEW S, NEW n \in Nat, NEW seqs \in [1..n -> Seq(S)]
    PROVE  /\ FlattenSeq(seqs) \in Seq(S)
           /\ ToSet(FlattenSeq(seqs)) = UNION {ToSet(seqs[i]) : i \in 1..n}
           /\ \A i \in 1..n : Len(seqs[i]) <= Len(FlattenSeq(seqs))
<1>1. CASE n = 0
  <2>1. seqs = <<>> /\ Len(seqs) = 0 /\ 1..n = {}
    BY <1>1
  <2>2. FlattenSeq(seqs) = <<>>
    BY <2>1 DEF FlattenSeq
  <2>3. ToSet(FlattenSeq(seqs)) = {}
    BY <2>2 DEF ToSet
  <2>4. UNION {ToSet(seqs[i]) : i \in 1..n} = {}
    BY <2>1
  <2>5. FlattenSeq(seqs) \in Seq(S)
    BY <2>2
  <2> QED  BY <2>1, <2>3, <2>4, <2>5
<1>2. CASE n # 0
  <2>1. PICK list : /\ FlattenSeq(seqs) = list[n]
                    /\ list[1] = seqs[1]
                    /\ \A i \in 2..n : list[i] = list[i - 1] \o seqs[i]
    <3>1. n \in Nat \ {0}
      BY <1>2
    <3> QED  BY <3>1, FlattenSeqLoop
  <2> DEFINE Parts(i) == UNION {ToSet(seqs[j]) : j \in 1..i}
             P == {i \in 0..n : i # 0 => /\ list[i] \in Seq(S)
                                         /\ ToSet(list[i]) = Parts(i)
                                         /\ \A j \in 1..i : Len(seqs[j]) <= Len(list[i])}
  <2>2. 0 \in P
    OBVIOUS
  <2>3. ASSUME NEW i \in 0..(n - 1), i \in P
        PROVE  i + 1 \in P
    <3>0. i + 1 \in 1..n /\ i + 1 \in 0..n /\ (i + 1) - 1 = i /\ seqs[i + 1] \in Seq(S)
      OBVIOUS
    <3>1. CASE i = 0
      <4>1. 1..(i + 1) = {1} /\ i + 1 = 1
        BY <3>1
      <4>2. Parts(1) = ToSet(seqs[1])
        BY <3>1, <4>1
      <4> HIDE DEF Parts
      <4>3. list[1] = seqs[1] /\ seqs[1] \in Seq(S) /\ Len(seqs[1]) \in Nat
        BY <2>1, <3>0, <4>1
      <4> QED  BY <3>0, <4>1, <4>2, <4>3
    <3>2. CASE i # 0
      <4>1. /\ list[i] \in Seq(S)
            /\ ToSet(list[i]) = Parts(i)
            /\ \A j \in 1..i : Len(seqs[j]) <= Len(list[i])
        BY <2>3, <3>2
      <4>2. list[i + 1] = list[i] \o seqs[i + 1]
        <5>1. i + 1 \in 2..n
          BY <3>0, <3>2
        <5> QED  BY <2>1, <3>0, <5>1
      <4>3. Parts(i + 1) = Parts(i) \cup ToSet(seqs[i + 1])
        <5>1. 1..(i + 1) = (1..i) \cup {i + 1}
          BY <3>0
        <5> QED  BY <5>1
      <4> HIDE DEF Parts
      <4>4. /\ list[i] \o seqs[i + 1] \in Seq(S)
            /\ Len(list[i] \o seqs[i + 1]) = Len(list[i]) + Len(seqs[i + 1])
            /\ Len(list[i]) \in Nat /\ Len(seqs[i + 1]) \in Nat
        BY <3>0, <4>1
      <4>5. ToSet(list[i] \o seqs[i + 1]) = ToSet(list[i]) \cup ToSet(seqs[i + 1])
        <5>1. PICK a, b : a = list[i] /\ b = seqs[i + 1] /\ a \in Seq(S) /\ b \in Seq(S)
          BY <3>0, <4>1
        <5>2. ToSet(a \o b) = ToSet(a) \cup ToSet(b)
          BY <5>1, ConcatRange
        <5> QED  BY <5>1, <5>2
      <4>6. \A j \in 1..(i + 1) : Len(seqs[j]) <= Len(list[i + 1])
        <5>1. ASSUME NEW j \in 1..(i + 1)
              PROVE  Len(seqs[j]) <= Len(list[i + 1])
          <6>1. j \in 1..i \/ j = i + 1
            BY <3>0
          <6>2. j \in 1..n /\ seqs[j] \in Seq(S)
            BY <3>0
          <6>3. Len(seqs[j]) \in Nat
            BY <6>2
          <6>4. Len(list[i + 1]) = Len(list[i]) + Len(seqs[i + 1])
            BY <4>2, <4>4
          <6>5. CASE j \in 1..i
            <7>1. Len(seqs[j]) <= Len(list[i])
              BY <4>1, <6>5
            <7>2. PICK x, y, z \in Nat : x = Len(seqs[j]) /\ y = Len(list[i]) /\ z = Len(seqs[i + 1])
              BY <4>4, <6>3
            <7>3. x <= y
              BY <7>1, <7>2, Zenon
            <7>4. x <= y + z
              BY <7>3
            <7> QED  BY <6>4, <7>2, <7>4
          <6>6. CASE j = i + 1
            <7>1. PICK y, z \in Nat : y = Len(list[i]) /\ z = Len(seqs[i + 1])
              BY <4>4
            <7>2. z <= y + z
              OBVIOUS
            <7> QED  BY <6>4, <6>6, <7>1, <7>2
          <6> QED  BY <6>1, <6>5, <6>6
        <5> QED  BY <5>1
      <4> QED  BY <3>0, <4>1, <4>2, <4>3, <4>4, <4>5, <4>6
    <3> QED  BY <3>1, <3>2
  <2>4. n \in P
    <3>1. \A i \in 0..n : i \in P
      <4> HIDE DEF P
      <4> QED  BY <2>2, <2>3, Induction
    <3> HIDE DEF P
    <3> QED  BY <3>1
  <2> HIDE DEF Parts
  <2>5. Parts(n) = UNION {ToSet(seqs[i]) : i \in 1..n}
    BY DEF Parts
  <2> QED  BY <1>2, <2>1, <2>4, <2>5
<1> QED  BY <1>1, <1>2

-----------------------------------------------------------------------------
(* Positions of a name *)

\* The ranks of the numbers up to n in a set of them.
LEMMA RankFacts ==
    ASSUME NEW n \in Nat, NEW S \in SUBSET (1..n)
    PROVE  /\ IsFiniteSet(S) /\ Cardinality(S) \in Nat
           /\ \A i \in 0..n : Rank(S, i) \in 0..Cardinality(S)
           /\ Rank(S, 0) = 0
           /\ Rank(S, n) = Cardinality(S)
           /\ \A i \in 0..(n - 1) : Rank(S, i + 1) = IF i + 1 \in S THEN Rank(S, i) + 1 ELSE Rank(S, i)
           /\ \A i, j \in 0..n : i <= j => Rank(S, i) <= Rank(S, j)
           /\ \A i, j \in 0..n : i < j /\ j \in S => Rank(S, i) < Rank(S, j)
<1> DEFINE UpTo(i) == {j \in S : j <= i}
<1>0. \A j \in S : j \in Int /\ 1 <= j /\ j <= n
  OBVIOUS
<1>1. IsFiniteSet(S) /\ Cardinality(S) \in Nat
  <2>1. IsFiniteSet(1..n)
    BY FS_Interval
  <2>2. IsFiniteSet(S)
    BY <2>1, FS_Subset
  <2> QED  BY <2>2, FS_CardinalityType
<1>2. \A i \in 0..n : IsFiniteSet(UpTo(i)) /\ Cardinality(UpTo(i)) \in Nat
                        /\ Cardinality(UpTo(i)) <= Cardinality(S)
  <2>1. \A i \in 0..n : UpTo(i) \in SUBSET S
    OBVIOUS
  <2> HIDE DEF UpTo
  <2> QED  BY <1>1, <2>1, FS_Subset, FS_CardinalityType
<1>3. \A i : Rank(S, i) = Cardinality(UpTo(i))
  BY DEF Rank
<1>4. UpTo(0) = {} /\ UpTo(n) = S
  <2>1. ASSUME NEW j \in UpTo(0)
        PROVE  FALSE
    <3>1. j \in S /\ j <= 0
      OBVIOUS
    <3>2. j \in Int /\ 1 <= j
      BY <1>0, <3>1
    <3> QED  BY <3>1, <3>2
  <2>2. ASSUME NEW j \in S
        PROVE  j \in UpTo(n)
    <3>1. j <= n
      BY <1>0
    <3> QED  BY <3>1
  <2>3. UpTo(n) \subseteq S
    OBVIOUS
  <2> HIDE DEF UpTo
  <2> QED  BY <2>1, <2>2, <2>3
<1>5. ASSUME NEW i \in 0..(n - 1)
      PROVE  Rank(S, i + 1) = IF i + 1 \in S THEN Rank(S, i) + 1 ELSE Rank(S, i)
  <2>1. UpTo(i) \subseteq UpTo(i + 1)
    <3>1. ASSUME NEW j \in UpTo(i)
          PROVE  j \in UpTo(i + 1)
      <4>1. j \in S /\ j <= i
        OBVIOUS
      <4>2. j <= i + 1
        BY <1>0, <4>1
      <4> QED  BY <4>1, <4>2
    <3> HIDE DEF UpTo
    <3> QED  BY <3>1
  <2>2. ASSUME NEW j \in UpTo(i + 1), j # i + 1
        PROVE  j \in UpTo(i)
    <3>1. j \in S /\ j <= i + 1
      OBVIOUS
    <3>2. j <= i
      BY <1>0, <2>2, <3>1
    <3> QED  BY <3>1, <3>2
  <2>3. /\ i + 1 \in UpTo(i + 1) <=> i + 1 \in S
        /\ i + 1 \notin UpTo(i)
    OBVIOUS
  <2> HIDE DEF UpTo
  <2>4. CASE i + 1 \in S
    <3>1. UpTo(i + 1) = UpTo(i) \cup {i + 1}
      BY <2>1, <2>2, <2>3, <2>4
    <3>2. Cardinality(UpTo(i) \cup {i + 1}) = Cardinality(UpTo(i)) + 1
      <4>1. IsFiniteSet(UpTo(i))
        BY <1>2
      <4> QED  BY <2>3, <4>1, FS_AddElement
    <3> QED  BY <1>3, <2>4, <3>1, <3>2
  <2>5. CASE i + 1 \notin S
    <3>1. UpTo(i + 1) = UpTo(i)
      BY <2>1, <2>2, <2>3, <2>5
    <3> QED  BY <1>3, <2>5, <3>1
  <2> QED  BY <2>4, <2>5
<1>6. ASSUME NEW i \in 0..n, NEW j \in 0..n, i <= j
      PROVE  /\ Rank(S, i) <= Rank(S, j)
             /\ i < j /\ j \in S => Rank(S, i) < Rank(S, j)
  <2>1. ASSUME NEW l \in UpTo(i)
        PROVE  l \in UpTo(j)
    <3>1. l \in S /\ l <= i
      OBVIOUS
    <3>2. l <= j
      BY <1>0, <1>6, <3>1
    <3> QED  BY <3>1, <3>2
  <2>2. i < j /\ j \in S => j \in UpTo(j) /\ j \notin UpTo(i)
    OBVIOUS
  <2> HIDE DEF UpTo
  <2>3. UpTo(i) \in SUBSET UpTo(j)
    BY <2>1
  <2>4. /\ Cardinality(UpTo(i)) <= Cardinality(UpTo(j))
        /\ Cardinality(UpTo(j)) = Cardinality(UpTo(i)) => UpTo(j) = UpTo(i)
    BY <1>2, <2>3, FS_Subset
  <2> QED  BY <1>2, <1>3, <2>2, <2>4
<1> HIDE DEF UpTo
<1>7. Rank(S, 0) = 0 /\ Rank(S, n) = Cardinality(S)
  BY <1>3, <1>4, FS_EmptySet
<1>8. \A i \in 0..n : Rank(S, i) \in 0..Cardinality(S)
  BY <1>1, <1>2, <1>3
<1> QED  BY <1>1, <1>5, <1>6, <1>7, <1>8

\* Each rank up to the last is that of one member.
LEMMA StartOfFacts ==
    ASSUME NEW n \in Nat, NEW S \in SUBSET (1..n)
    PROVE  /\ \A i \in S : StartOf(S, Rank(S, i)) = i
           /\ \A k \in 1..Cardinality(S) : StartOf(S, k) \in S /\ Rank(S, StartOf(S, k)) = k
<1>1. ASSUME NEW i \in S, NEW j \in S, Rank(S, i) = Rank(S, j)
      PROVE  i = j
  <2>1. i \in 0..n /\ j \in 0..n
    OBVIOUS
  <2>2. /\ \A k, l \in 0..n : k < l /\ l \in S => Rank(S, k) < Rank(S, l)
        /\ \A k \in 0..n : Rank(S, k) \in 0..Cardinality(S)
        /\ Cardinality(S) \in Nat
    BY RankFacts
  <2>3. ~(i < j) /\ ~(j < i)
    BY <1>1, <2>1, <2>2
  <2> QED  BY <2>1, <2>3
<1>2. ASSUME NEW k \in 1..Cardinality(S)
      PROVE  \E i \in S : Rank(S, i) = k
  <2> DEFINE T == {i \in 0..n : k <= Rank(S, i)}
  <2>0. /\ Cardinality(S) \in Nat
        /\ \A i \in 0..n : Rank(S, i) \in 0..Cardinality(S)
        /\ Rank(S, 0) = 0 /\ Rank(S, n) = Cardinality(S)
        /\ \A i \in 0..(n - 1) : Rank(S, i + 1) = IF i + 1 \in S THEN Rank(S, i) + 1 ELSE Rank(S, i)
    BY RankFacts
  <2>1. T \in SUBSET Nat /\ n \in T
    BY <2>0
  <2>2. PICK m \in T : \A i \in T : m <= i
    <3> HIDE DEF T
    <3> QED  BY <2>1, LeastNatural
  <2>3. m \in 0..n /\ k <= Rank(S, m) /\ m # 0
    BY <2>0
  <2>4. m - 1 \in 0..(n - 1) /\ m - 1 \in 0..n /\ (m - 1) + 1 = m
    BY <2>3
  <2>5. m - 1 \notin T
    BY <2>2, <2>4
  <2>6. ~(k <= Rank(S, m - 1))
    BY <2>4, <2>5
  <2>7. m \in S /\ Rank(S, m) = Rank(S, m - 1) + 1
    BY <2>0, <2>3, <2>4, <2>6
  <2>8. Rank(S, m) = k
    BY <2>0, <2>3, <2>4, <2>6, <2>7
  <2> QED  BY <2>7, <2>8
<1>3. ASSUME NEW i \in S
      PROVE  StartOf(S, Rank(S, i)) = i
  <2>1. PICK j : j = CHOOSE x \in S : Rank(S, x) = Rank(S, i)
    OBVIOUS
  <2>2. j \in S /\ Rank(S, j) = Rank(S, i)
    BY <2>1
  <2> QED  BY <1>1, <2>1, <2>2 DEF StartOf
<1>4. ASSUME NEW k \in 1..Cardinality(S)
      PROVE  StartOf(S, k) \in S /\ Rank(S, StartOf(S, k)) = k
  BY <1>2 DEF StartOf
<1> QED  BY <1>3, <1>4

\* The set of starts that cuts make.
Starts(cuts) == {1} \cup cuts

LEMMA StartsFacts ==
    ASSUME NEW n \in Nat \ {0}, NEW cuts \in SUBSET (2..n)
    PROVE  /\ Starts(cuts) \in SUBSET (1..n) /\ 1 \in Starts(cuts)
           /\ Rank(Starts(cuts), 1) = 1
           /\ Cardinality(Starts(cuts)) \in Nat \ {0}
<1>1. PICK S : S = Starts(cuts)
  OBVIOUS
<1>2. S \in SUBSET (1..n) /\ 1 \in S /\ n \in Nat /\ 1 \in 0..n
  BY <1>1 DEF Starts
<1>3. Rank(S, 0) = 0 /\ Rank(S, 0 + 1) = Rank(S, 0) + 1
  <2>1. 0 \in 0..(n - 1) /\ 0 + 1 \in S
    BY <1>2
  <2> QED  BY <1>2, <2>1, RankFacts
<1>4. /\ Cardinality(S) \in Nat
      /\ Rank(S, 1) \in 0..Cardinality(S)
  BY <1>2, RankFacts
<1> QED  BY <1>1, <1>2, <1>3, <1>4

\* No cut between the two positions.
Uncut(from, to, cuts) ==
    /\ from <= to
    /\ \A i \in (from + 1)..to : i \notin cuts

\* A piece reaches from one start to the next, and no cut is inside it.
LEMMA PieceFacts ==
    ASSUME NEW n \in Nat \ {0}, NEW cuts \in SUBSET (2..n), NEW name, Len(name) = n,
           NEW w \in ToSet(Pieces(name, cuts))
    PROVE  \E from, to \in 1..n : w = SubSeq(name, from, to) /\ Uncut(from, to, cuts)
<1>1. PICK S : S = Starts(cuts)
  OBVIOUS
<1>2. /\ S \in SUBSET (1..n) /\ 1 \in S
      /\ Cardinality(S) \in Nat \ {0}
  BY <1>1, StartsFacts
<1>3. /\ \A i \in 0..n : Rank(S, i) \in 0..Cardinality(S)
      /\ Rank(S, n) = Cardinality(S)
      /\ \A i, j \in 0..n : i <= j => Rank(S, i) <= Rank(S, j)
      /\ \A i, j \in 0..n : i < j /\ j \in S => Rank(S, i) < Rank(S, j)
  BY <1>2, RankFacts
<1>4. \A k \in 1..Cardinality(S) : StartOf(S, k) \in S /\ Rank(S, StartOf(S, k)) = k
  BY <1>2, StartOfFacts
<1>5. PICK k \in 1..Cardinality(S) :
         w = SubSeq(name, StartOf(S, k), IF k = Cardinality(S) THEN n ELSE StartOf(S, k + 1) - 1)
  BY <1>1, <1>2 DEF Pieces, ToSet, Starts
<1>6. PICK from \in S : from = StartOf(S, k) /\ Rank(S, from) = k
  BY <1>4
<1>7. from \in 1..n /\ from \in 0..n
  BY <1>2
<1>8. CASE k = Cardinality(S)
  <2>1. w = SubSeq(name, from, n) /\ n \in 1..n /\ from <= n
    BY <1>5, <1>6, <1>7, <1>8
  <2>2. ASSUME NEW i \in (from + 1)..n
        PROVE  i \notin cuts
    <3>1. i \in 0..n /\ from < i /\ i <= n /\ n \in 0..n
      BY <1>7
    <3>2. Rank(S, i) <= k
      BY <1>3, <1>8, <3>1
    <3>3. i \notin S
      BY <1>2, <1>3, <1>6, <1>7, <3>1, <3>2
    <3> QED  BY <1>1, <3>3 DEF Starts
  <2>3. Uncut(from, n, cuts)
    BY <2>1, <2>2 DEF Uncut
  <2> QED  BY <1>7, <2>1, <2>3
<1>9. CASE k # Cardinality(S)
  <2>1. k + 1 \in 1..Cardinality(S)
    BY <1>2, <1>9
  <2>2. PICK next \in S : next = StartOf(S, k + 1) /\ Rank(S, next) = k + 1
    BY <1>4, <2>1
  <2>3. next \in 1..n /\ next \in 0..n
    BY <1>2
  <2>4. from < next
    <3>1. ~(next <= from)
      BY <1>3, <1>6, <1>7, <2>2, <2>3
    <3> QED  BY <1>7, <2>3, <3>1
  <2>5. w = SubSeq(name, from, next - 1) /\ next - 1 \in 1..n /\ from <= next - 1
    <3>1. w = SubSeq(name, StartOf(S, k), StartOf(S, k + 1) - 1)
      BY <1>5, <1>9
    <3>2. next - 1 \in 1..n /\ from <= next - 1
      BY <1>7, <2>3, <2>4
    <3> QED  BY <1>6, <2>2, <3>1, <3>2
  <2>6. ASSUME NEW i \in (from + 1)..(next - 1)
        PROVE  i \notin cuts
    <3>1. i \in 0..n /\ from < i /\ i < next
      BY <1>7, <2>3
    <3>2. Rank(S, i) < k + 1
      BY <1>3, <2>2, <2>3, <3>1
    <3>3. Rank(S, i) \in Int /\ k \in Int
      BY <1>3, <3>1
    <3>4. i \notin S
      BY <1>3, <1>6, <1>7, <3>1, <3>2, <3>3
    <3> QED  BY <1>1, <3>4 DEF Starts
  <2>7. Uncut(from, next - 1, cuts)
    BY <2>5, <2>6 DEF Uncut
  <2> QED  BY <1>7, <2>5, <2>7
<1> QED  BY <1>8, <1>9

\* Two positions without a cut between them are in one piece.
LEMMA PieceOf ==
    ASSUME NEW n \in Nat \ {0}, NEW cuts \in SUBSET (2..n), NEW name, Len(name) = n,
           NEW i \in 1..n, NEW j \in i..n, \A l \in (i + 1)..j : l \notin cuts
    PROVE  \E from, to \in 1..n :
              /\ from <= i /\ j <= to
              /\ SubSeq(name, from, to) \in ToSet(Pieces(name, cuts))
<1>1. PICK S : S = Starts(cuts)
  OBVIOUS
<1>2. /\ S \in SUBSET (1..n) /\ 1 \in S
      /\ Cardinality(S) \in Nat \ {0}
      /\ Rank(S, 1) = 1
  BY <1>1, StartsFacts
<1>3. /\ \A l \in 0..n : Rank(S, l) \in 0..Cardinality(S)
      /\ \A l, m \in 0..n : l <= m => Rank(S, l) <= Rank(S, m)
      /\ \A l, m \in 0..n : l < m /\ m \in S => Rank(S, l) < Rank(S, m)
  BY <1>2, RankFacts
<1>4. \A k \in 1..Cardinality(S) : StartOf(S, k) \in S /\ Rank(S, StartOf(S, k)) = k
  BY <1>2, StartOfFacts
<1>5. PICK k : k = Rank(S, i)
  OBVIOUS
<1>6. k \in 1..Cardinality(S)
  <2>1. Rank(S, 1) <= Rank(S, i) /\ Rank(S, i) \in 0..Cardinality(S)
    BY <1>3
  <2> QED  BY <1>2, <1>5, <2>1
<1>7. PICK from \in S : from = StartOf(S, k) /\ Rank(S, from) = k
  BY <1>4, <1>6
<1>8. from \in 1..n /\ from \in 0..n /\ from <= i
  <2>1. from \in 1..n /\ from \in 0..n /\ i \in 0..n
    BY <1>2
  <2>2. ~(i < from)
    BY <1>3, <1>5, <1>6, <1>7, <2>1
  <2> QED  BY <2>1, <2>2
<1>9. \A to : (to = IF k = Cardinality(S) THEN n ELSE StartOf(S, k + 1) - 1)
                 => SubSeq(name, from, to) \in ToSet(Pieces(name, cuts))
  BY <1>1, <1>2, <1>6, <1>7 DEF Pieces, ToSet, Starts
<1>10. CASE k = Cardinality(S)
  <2>1. SubSeq(name, from, n) \in ToSet(Pieces(name, cuts))
    BY <1>9, <1>10
  <2> QED  BY <1>8, <2>1
<1>11. CASE k # Cardinality(S)
  <2>1. k + 1 \in 1..Cardinality(S)
    BY <1>2, <1>6, <1>11
  <2>2. PICK next \in S : next = StartOf(S, k + 1) /\ Rank(S, next) = k + 1
    BY <1>4, <2>1
  <2>3. next \in 1..n /\ next \in 0..n /\ i \in 0..n
    BY <1>2
  <2>4. i < next
    <3>1. ~(next <= i)
      BY <1>3, <1>5, <1>6, <2>2, <2>3
    <3> QED  BY <2>3, <3>1
  <2>5. next \in cuts
    BY <1>1, <2>3, <2>4 DEF Starts
  <2>6. ~(next <= j)
    BY <2>3, <2>4, <2>5
  <2>7. next - 1 \in 1..n /\ j <= next - 1
    BY <2>3, <2>6
  <2>8. SubSeq(name, from, next - 1) \in ToSet(Pieces(name, cuts))
    BY <1>9, <1>11, <2>2
  <2> QED  BY <1>8, <2>7, <2>8
<1> QED  BY <1>10, <1>11

-----------------------------------------------------------------------------
(* The loop of SplitPascal *)

AfterCharacter(name, i, before) ==
    IF StartsWord(name, i)
    THEN [result |-> Append(before.result, SubSeq(name, before.start, i - 1)), start |-> i]
    ELSE before

\* What SplitPascal computes, character by character.
LEMMA SplitPascalLoop ==
    ASSUME NEW n \in Nat \ {0}, NEW name \in [1..n -> Chars]
    PROVE  \E loop : /\ SplitPascal(name) = Append(loop[n].result, SubSeq(name, loop[n].start, n))
                     /\ loop[1] = [result |-> <<>>, start |-> 1]
                     /\ \A i \in 2..n : loop[i] = AfterCharacter(name, i, loop[i - 1])
<1> DEFINE S == [result : Seq(Seq(Chars)), start : 1..n]
           first == [result |-> <<>>, start |-> 1]
           step == [i \in 1..n |-> [v \in S |-> IF i = 1 THEN first ELSE AfterCharacter(name, i, v)]]
           Loop(loop) == loop = [i \in 1..Len(name) |->
                IF i = 1 THEN [result |-> <<>>, start |-> 1]
                ELSE IF StartsWord(name, i)
                     THEN [result |-> Append(loop[i - 1].result,
                                             SubSeq(name, loop[i - 1].start, i - 1)),
                           start |-> i]
                     ELSE loop[i - 1]]
<1>0. Len(name) = n /\ 1 \in 1..n /\ first \in S /\ first = [result |-> <<>>, start |-> 1]
  OBVIOUS
<1>1. ASSUME NEW i \in 1..n, NEW v \in S
      PROVE  /\ step[i][v] = IF i = 1 THEN first ELSE AfterCharacter(name, i, v)
             /\ step[i][v] \in S
  <2>1. step[i][v] = IF i = 1 THEN first ELSE AfterCharacter(name, i, v)
    OBVIOUS
  <2>2. ASSUME i # 1
        PROVE  AfterCharacter(name, i, v) \in S
    <3>1. v.result \in Seq(Seq(Chars)) /\ v.start \in 1..n /\ i - 1 \in 1..n
      BY <2>2
    <3>2. SubSeq(name, v.start, i - 1) \in Seq(Chars)
      <4>1. PICK from \in 1..n : from = v.start
        BY <3>1
      <4>2. name \in Seq(Chars)
        OBVIOUS
      <4>3. \A j \in from..(i - 1) : name[j] \in Chars
        BY <3>1
      <4>4. SubSeq(name, from, i - 1) \in Seq(Chars)
        BY <3>1, <4>2, <4>3
      <4> QED  BY <4>1, <4>4
    <3>3. PICK word \in Seq(Chars) : word = SubSeq(name, v.start, i - 1)
      BY <3>2
    <3>4. Append(v.result, word) \in Seq(Seq(Chars))
      BY <3>1
    <3>5. [result |-> Append(v.result, word), start |-> i] \in S
      BY <3>4
    <3> HIDE DEF S
    <3> QED  BY <3>3, <3>5 DEF AfterCharacter
  <2> HIDE DEF step, S
  <2> QED  BY <1>0, <2>1, <2>2
<1>2. PICK f \in [0..n -> S] : f[0] = first /\ \A i \in 1..n : f[i] = step[i][f[i - 1]]
  <2> HIDE DEF step, S
  <2>1. \A i \in 1..n, v \in S : step[i][v] \in S
    BY <1>1
  <2>2. HasLoop(n, S, first, step)
    BY <1>0, <2>1, Recursion
  <2> QED  BY <2>2 DEF HasLoop
<1> HIDE DEF step, S
<1>3. ASSUME NEW i \in 1..n
      PROVE  f[i] = IF i = 1 THEN first ELSE AfterCharacter(name, i, f[i - 1])
  <2>1. f[i - 1] \in S
    OBVIOUS
  <2> QED  BY <1>1, <1>2, <2>1
<1> HIDE DEF first
<1>4. Loop([i \in 1..n |-> f[i]])
  <2> DEFINE g == [i \in 1..n |-> f[i]]
  <2>1. \A i \in 1..n : g[i] = IF i = 1 THEN first ELSE AfterCharacter(name, i, g[i - 1])
    <3>1. ASSUME NEW i \in 1..n, i # 1
          PROVE  g[i] = AfterCharacter(name, i, g[i - 1])
      <4>1. i - 1 \in 1..n
        BY <3>1
      <4> QED  BY <1>3, <3>1, <4>1
    <3> QED  BY <1>3, <3>1
  <2>2. g = [i \in 1..n |-> g[i]]
    OBVIOUS
  <2> HIDE DEF g
  <2>3. Loop(g)
    BY <1>0, <2>1, <2>2 DEF AfterCharacter
  <2> QED  BY <2>3 DEF g
<1>5. PICK loop : loop = CHOOSE l : Loop(l)
  OBVIOUS
<1>6. Loop(loop)
  <2>1. \E l : Loop(l)
    BY <1>4
  <2> HIDE DEF Loop
  <2> QED  BY <1>5, <2>1
<1>7. SplitPascal(name) = Append(loop[n].result, SubSeq(name, loop[n].start, n))
  BY <1>0, <1>5 DEF SplitPascal
<1>8. \A i \in 1..n : loop[i] = IF i = 1 THEN first ELSE AfterCharacter(name, i, loop[i - 1])
  BY <1>0, <1>6 DEF AfterCharacter
<1>9. \A i \in 2..n : loop[i] = AfterCharacter(name, i, loop[i - 1])
  <2>1. ASSUME NEW i \in 2..n
        PROVE  loop[i] = AfterCharacter(name, i, loop[i - 1])
    <3>1. i \in 1..n /\ i # 1
      OBVIOUS
    <3> QED  BY <1>8, <3>1
  <2> QED  BY <2>1
<1> QED  BY <1>0, <1>7, <1>8, <1>9

LEMMA AppendTo ==
    ASSUME NEW m \in Nat, NEW f, NEW x
    PROVE  Append([k \in 1..m |-> f[k]], x) = [k \in 1..(m + 1) |-> IF k = m + 1 THEN x ELSE f[k]]
<1> DEFINE s == [k \in 1..m |-> f[k]]
           T == {f[k] : k \in 1..m} \cup {x}
<1>1. s \in Seq(T) /\ x \in T /\ Len(s) = m /\ \A k \in 1..m : s[k] = f[k]
  OBVIOUS
<1> HIDE DEF s, T
<1>2. /\ Append(s, x) \in Seq(T)
      /\ Len(Append(s, x)) = m + 1
      /\ \A i \in 1..m : Append(s, x)[i] = s[i]
      /\ Append(s, x)[m + 1] = x
  BY <1>1, AppendProperties
<1>3. PICK t \in Seq(T) : t = Append(s, x)
  BY <1>2
<1>4. t = [k \in 1..(m + 1) |-> t[k]]
  <2>1. Len(t) = m + 1
    BY <1>2, <1>3
  <2>2. t = [k \in 1..Len(t) |-> t[k]]
    OBVIOUS
  <2> QED  BY <2>1, <2>2
<1>5. \A k \in 1..(m + 1) : t[k] = IF k = m + 1 THEN x ELSE f[k]
  BY <1>1, <1>2, <1>3
<1> QED  BY <1>3, <1>4, <1>5 DEF s

\* SplitPascal cuts the name where StartsWord says.
WordStarts(name) == {i \in 2..Len(name) : StartsWord(name, i)}

LEMMA SplitPascalPieces ==
    ASSUME NEW n \in Nat \ {0}, NEW name \in [1..n -> Chars]
    PROVE  SplitPascal(name) = Pieces(name, WordStarts(name))
<1>1. PICK loop : /\ SplitPascal(name) = Append(loop[n].result, SubSeq(name, loop[n].start, n))
                  /\ loop[1] = [result |-> <<>>, start |-> 1]
                  /\ \A i \in 2..n : loop[i] = AfterCharacter(name, i, loop[i - 1])
  BY SplitPascalLoop
<1>2. WordStarts(name) \in SUBSET (2..n) /\ Len(name) = n
  BY DEF WordStarts
<1>3. PICK S : S = Starts(WordStarts(name))
  OBVIOUS
<1>4. /\ S \in SUBSET (1..n) /\ 1 \in S
      /\ Cardinality(S) \in Nat \ {0}
      /\ Rank(S, 1) = 1
  BY <1>2, <1>3, StartsFacts
<1>5. /\ \A l \in 0..n : Rank(S, l) \in 0..Cardinality(S)
      /\ Rank(S, n) = Cardinality(S)
      /\ \A i \in 0..(n - 1) : Rank(S, i + 1) = IF i + 1 \in S THEN Rank(S, i) + 1 ELSE Rank(S, i)
      /\ \A l, m \in 0..n : l <= m => Rank(S, l) <= Rank(S, m)
  BY <1>4, RankFacts
<1>6. \A i \in S : StartOf(S, Rank(S, i)) = i
  BY <1>4, StartOfFacts
<1> DEFINE piece == [k \in Nat |-> SubSeq(name, StartOf(S, k), StartOf(S, k + 1) - 1)]
           Done(i) == /\ loop[i].start = StartOf(S, Rank(S, i))
                      /\ loop[i].result = [k \in 1..(Rank(S, i) - 1) |-> piece[k]]
           P == {i \in 0..n : i # 0 => Done(i)}
<1>7. 0 \in P
  OBVIOUS
<1>8. Done(1)
  <2>1. StartOf(S, Rank(S, 1)) = 1 /\ Rank(S, 1) - 1 = 0
    BY <1>4, <1>6
  <2>2. [k \in 1..0 |-> piece[k]] = <<>>
    OBVIOUS
  <2> HIDE DEF piece
  <2> QED  BY <1>1, <2>1, <2>2
<1>9. ASSUME NEW i \in 0..(n - 1), i \in P
      PROVE  i + 1 \in P
  <2>1. i + 1 \in 1..n /\ i + 1 \in 0..n /\ i \in 0..n /\ (i + 1) - 1 = i
    OBVIOUS
  <2>2. CASE i = 0
    <3>1. Done(i + 1)
      <4> HIDE DEF Done
      <4>1. i + 1 = 1
        BY <2>2
      <4> QED  BY <1>8, <4>1
    <3> HIDE DEF Done
    <3> QED  BY <2>1, <3>1
  <2>3. CASE i # 0
    <3>1. loop[i + 1] = AfterCharacter(name, i + 1, loop[i])
      <4>1. i + 1 \in 2..n
        BY <2>3
      <4> QED  BY <1>1, <2>1, <4>1
    <3>2. Done(i)
      BY <1>9, <2>3
    <3>3. PICK r \in Nat \ {0} : r = Rank(S, i)
      <4>1. Rank(S, 1) <= Rank(S, i) /\ Rank(S, i) \in Int
        BY <1>4, <1>5, <2>1, <2>3
      <4> QED  BY <1>4, <4>1
    <3>4. i + 1 \in S <=> StartsWord(name, i + 1)
      <4>1. i + 1 \in 2..n
        BY <2>3
      <4> QED  BY <1>2, <1>3, <2>3, <4>1 DEF Starts, WordStarts
    <3>5. CASE StartsWord(name, i + 1)
      <4>1. Rank(S, i + 1) = r + 1 /\ StartOf(S, r + 1) = i + 1
        BY <1>5, <1>6, <3>3, <3>4, <3>5
      <4>2. loop[i + 1] = [result |-> Append(loop[i].result, SubSeq(name, loop[i].start, i)), start |-> i + 1]
        BY <2>1, <3>1, <3>5 DEF AfterCharacter
      <4>3. piece[r] = SubSeq(name, StartOf(S, r), i)
        <5>1. piece[r] = SubSeq(name, StartOf(S, r), StartOf(S, r + 1) - 1)
          BY <3>3
        <5> HIDE DEF piece
        <5> QED  BY <2>1, <4>1, <5>1
      <4> HIDE DEF piece
      <4>4. loop[i].start = StartOf(S, r) /\ loop[i].result = [k \in 1..(r - 1) |-> piece[k]]
        BY <3>2, <3>3
      <4>5. Append([k \in 1..(r - 1) |-> piece[k]], piece[r]) = [k \in 1..r |-> piece[k]]
        <5>1. r - 1 \in Nat /\ (r - 1) + 1 = r
          BY <3>3
        <5>2. Append([k \in 1..(r - 1) |-> piece[k]], piece[r])
                = [k \in 1..r |-> IF k = r THEN piece[r] ELSE piece[k]]
          BY <5>1, AppendTo
        <5> QED  BY <5>2
      <4>6. loop[i + 1].result = [k \in 1..r |-> piece[k]] /\ loop[i + 1].start = i + 1
        BY <4>2, <4>3, <4>4, <4>5
      <4>7. Rank(S, i + 1) - 1 = r
        BY <3>3, <4>1
      <4>8. Done(i + 1)
        BY <4>1, <4>6, <4>7
      <4> HIDE DEF Done
      <4> QED  BY <2>1, <4>8
    <3>6. CASE ~StartsWord(name, i + 1)
      <4>1. Rank(S, i + 1) = Rank(S, i)
        BY <1>5, <3>4, <3>6
      <4>2. loop[i + 1] = loop[i]
        BY <3>1, <3>6 DEF AfterCharacter
      <4> HIDE DEF piece
      <4>3. Done(i + 1)
        BY <3>2, <4>1, <4>2
      <4> HIDE DEF Done
      <4> QED  BY <2>1, <4>3
    <3> QED  BY <3>5, <3>6
  <2> QED  BY <2>2, <2>3
<1>10. Done(n)
  <2>1. \A i \in 0..n : i \in P
    <3> HIDE DEF P
    <3> QED  BY <1>7, <1>9, Induction
  <2> HIDE DEF Done
  <2> QED  BY <2>1
<1>11. PICK c \in Nat \ {0} : c = Cardinality(S)
  BY <1>4
<1>12. /\ loop[n].start = StartOf(S, c)
       /\ loop[n].result = [k \in 1..(c - 1) |-> piece[k]]
  <2> HIDE DEF piece
  <2> QED  BY <1>5, <1>10, <1>11
<1>13. PICK last : last = SubSeq(name, StartOf(S, c), n)
  OBVIOUS
<1>14. SplitPascal(name) = [k \in 1..c |-> IF k = c THEN last ELSE piece[k]]
  <2> HIDE DEF piece
  <2>1. c - 1 \in Nat /\ (c - 1) + 1 = c
    BY <1>11
  <2>2. Append([k \in 1..(c - 1) |-> piece[k]], last) = [k \in 1..c |-> IF k = c THEN last ELSE piece[k]]
    BY <2>1, AppendTo
  <2> QED  BY <1>1, <1>12, <1>13, <2>2
<1>15. \A k \in 1..c : (IF k = c THEN last ELSE piece[k])
                         = SubSeq(name, StartOf(S, k), IF k = c THEN n ELSE StartOf(S, k + 1) - 1)
  <2>1. \A k \in Nat : piece[k] = SubSeq(name, StartOf(S, k), StartOf(S, k + 1) - 1)
    OBVIOUS
  <2> HIDE DEF piece
  <2>2. \A k \in 1..c : k \in Nat
    OBVIOUS
  <2> QED  BY <1>13, <2>1, <2>2
<1>16. Pieces(name, WordStarts(name))
          = [k \in 1..c |-> SubSeq(name, StartOf(S, k), IF k = c THEN n ELSE StartOf(S, k + 1) - 1)]
  BY <1>2, <1>3, <1>11 DEF Pieces, Starts
<1> HIDE DEF piece
<1> QED  BY <1>14, <1>15, <1>16

-----------------------------------------------------------------------------
(* Words and readings *)

\* A part of a name, by the positions of the name.
LEMMA PartOf ==
    ASSUME NEW n \in Nat \ {0}, NEW name \in [1..n -> Chars], NEW from \in 1..n, NEW to \in from..n
    PROVE  /\ Len(SubSeq(name, from, to)) = to - from + 1
           /\ DOMAIN SubSeq(name, from, to) = 1..(to - from + 1)
           /\ \A i \in 1..(to - from + 1) : SubSeq(name, from, to)[i] = name[from + i - 1]
           /\ \A j \in from..to : SubSeq(name, from, to)[j - from + 1] = name[j]
<1>1. \A i \in from..to : name[i] \in Chars
  OBVIOUS
<1>2. from \in Int /\ to \in Int /\ from <= to
  OBVIOUS
<1>3. PICK w : w = SubSeq(name, from, to)
  OBVIOUS
<1>4. /\ w \in Seq(Chars)
      /\ Len(w) = to - from + 1
      /\ \A i \in 1..(to - from + 1) : w[i] = name[from + i - 1]
  BY <1>1, <1>2, <1>3, SubSeqProperties
<1>5. ASSUME NEW j \in from..to
      PROVE  w[j - from + 1] = name[j]
  <2>1. PICK i : i = j - from + 1
    OBVIOUS
  <2>2. i \in 1..(to - from + 1) /\ from + i - 1 = j
    BY <1>2, <2>1
  <2>3. w[i] = name[from + i - 1]
    BY <1>4, <2>2
  <2> QED  BY <2>1, <2>2, <2>3
<1>6. DOMAIN w = 1..(to - from + 1)
  BY <1>4
<1> QED  BY <1>3, <1>4, <1>5, <1>6

\* IsWord of a part of a name, said of the name.
ReadsAsWord(name, from, to) ==
    /\ \A j \in from..to : (name[j] \in Digits) = (name[from] \in Digits)
    /\ \A j \in from..(to - 1) : ~(name[j] \in Smalls /\ name[j + 1] \in Capitals)
    /\ \A j \in from..(to - 2) :
          ~(name[j] \in Capitals /\ name[j + 1] \in Capitals /\ name[j + 2] \in Smalls)

LEMMA IsWordFrom ==
    ASSUME NEW n \in Nat \ {0}, NEW name \in [1..n -> Chars], NEW from \in 1..n, NEW to \in from..n,
           ReadsAsWord(name, from, to)
    PROVE  IsWord(SubSeq(name, from, to))
<1>1. PICK w, m : w = SubSeq(name, from, to) /\ m = to - from + 1
  OBVIOUS
<1>2. /\ Len(w) = m /\ DOMAIN w = 1..m
      /\ \A i \in 1..m : w[i] = name[from + i - 1]
  BY <1>1, PartOf
<1>3. m \in Nat /\ from \in Nat /\ to = from + m - 1 /\ 1 \in 1..m /\ from \in from..to
  BY <1>1
<1>4. w[1] = name[from]
  BY <1>2, <1>3
<1>5. ASSUME NEW i \in 1..m
      PROVE  (w[i] \in Digits) = (w[1] \in Digits)
  <2>1. from + i - 1 \in from..to
    BY <1>3
  <2> QED  BY <1>2, <1>4, <2>1 DEF ReadsAsWord
<1>6. ASSUME NEW i \in 1..(m - 1)
      PROVE  ~(w[i] \in Smalls /\ w[i + 1] \in Capitals)
  <2>1. PICK j : j = from + i - 1
    OBVIOUS
  <2>2. j \in from..(to - 1) /\ i \in 1..m /\ i + 1 \in 1..m /\ from + (i + 1) - 1 = j + 1
    BY <1>3, <2>1
  <2>3. w[i] = name[j] /\ w[i + 1] = name[j + 1]
    BY <1>2, <2>1, <2>2
  <2> QED  BY <2>2, <2>3 DEF ReadsAsWord
<1>7. ASSUME NEW i \in 1..(m - 2)
      PROVE  ~(w[i] \in Capitals /\ w[i + 1] \in Capitals /\ w[i + 2] \in Smalls)
  <2>1. PICK j : j = from + i - 1
    OBVIOUS
  <2>2. /\ j \in from..(to - 2) /\ i \in 1..m /\ i + 1 \in 1..m /\ i + 2 \in 1..m
        /\ from + (i + 1) - 1 = j + 1 /\ from + (i + 2) - 1 = j + 2
    BY <1>3, <2>1
  <2>3. w[i] = name[j] /\ w[i + 1] = name[j + 1] /\ w[i + 2] = name[j + 2]
    BY <1>2, <2>1, <2>2
  <2> QED  BY <2>2, <2>3 DEF ReadsAsWord
<1>8. IsWord(w)
  BY <1>2, <1>5, <1>6, <1>7 DEF IsWord
<1> QED  BY <1>1, <1>8

LEMMA IsWordOf ==
    ASSUME NEW n \in Nat \ {0}, NEW name \in [1..n -> Chars], NEW from \in 1..n, NEW to \in from..n,
           IsWord(SubSeq(name, from, to))
    PROVE  ReadsAsWord(name, from, to)
<1>1. PICK w, m : w = SubSeq(name, from, to) /\ m = to - from + 1
  OBVIOUS
<1>2. /\ Len(w) = m /\ DOMAIN w = 1..m
      /\ \A i \in 1..m : w[i] = name[from + i - 1]
  BY <1>1, PartOf
<1>3. m \in Nat /\ from \in Nat /\ to \in Nat /\ m = to - from + 1 /\ from <= to
  BY <1>1
<1>4. w[1] = name[from]
  BY <1>2, <1>3
<1>5. /\ \A i \in 1..m : (w[i] \in Digits) = (w[1] \in Digits)
      /\ \A i \in 1..(m - 1) : ~(w[i] \in Smalls /\ w[i + 1] \in Capitals)
      /\ \A i \in 1..(m - 2) :
            ~(w[i] \in Capitals /\ w[i + 1] \in Capitals /\ w[i + 2] \in Smalls)
  BY <1>1, <1>2 DEF IsWord
<1>6. ASSUME NEW j \in from..to
      PROVE  (name[j] \in Digits) = (name[from] \in Digits)
  <2>1. PICK i : i = j - from + 1
    OBVIOUS
  <2>2. i \in 1..m /\ from + i - 1 = j
    BY <1>3, <2>1
  <2> QED  BY <1>2, <1>4, <1>5, <2>2
<1>7. ASSUME NEW j \in from..(to - 1)
      PROVE  ~(name[j] \in Smalls /\ name[j + 1] \in Capitals)
  <2>1. PICK i : i = j - from + 1
    OBVIOUS
  <2>2. i \in 1..(m - 1) /\ i \in 1..m /\ i + 1 \in 1..m /\ from + i - 1 = j /\ from + (i + 1) - 1 = j + 1
    BY <1>3, <2>1
  <2>3. w[i] = name[j] /\ w[i + 1] = name[j + 1]
    BY <1>2, <2>2
  <2> QED  BY <1>5, <2>2, <2>3
<1>8. ASSUME NEW j \in from..(to - 2)
      PROVE  ~(name[j] \in Capitals /\ name[j + 1] \in Capitals /\ name[j + 2] \in Smalls)
  <2>1. PICK i : i = j - from + 1
    OBVIOUS
  <2>2. /\ i \in 1..(m - 2) /\ i \in 1..m /\ i + 1 \in 1..m /\ i + 2 \in 1..m
        /\ from + i - 1 = j /\ from + (i + 1) - 1 = j + 1 /\ from + (i + 2) - 1 = j + 2
    BY <1>3, <2>1
  <2>3. w[i] = name[j] /\ w[i + 1] = name[j + 1] /\ w[i + 2] = name[j + 2]
    BY <1>2, <2>2
  <2> QED  BY <1>5, <2>2, <2>3
<1> QED  BY <1>6, <1>7, <1>8 DEF ReadsAsWord

\* The pieces of SplitPascal are words, and it cuts no capital from its small letter.
LEMMA WordStartsRead ==
    ASSUME NEW n \in Nat \ {0}, NEW name \in [1..n -> Chars]
    PROVE  WordStarts(name) \in Readings(name)
<1>1. Len(name) = n
  OBVIOUS
<1>2. WordStarts(name) \in SUBSET (2..n)
  BY <1>1 DEF WordStarts
<1>3. ASSUME NEW w \in ToSet(Pieces(name, WordStarts(name)))
      PROVE  IsWord(w)
  <2>1. PICK from, to \in 1..n :
           /\ from <= to
           /\ w = SubSeq(name, from, to)
           /\ \A i \in (from + 1)..to : i \notin WordStarts(name)
    <3>1. \E from, to \in 1..n : w = SubSeq(name, from, to) /\ Uncut(from, to, WordStarts(name))
      BY <1>1, <1>2, PieceFacts
    <3> QED  BY <3>1 DEF Uncut
  <2>2. ASSUME NEW i \in (from + 1)..to
        PROVE  ~StartsWord(name, i)
    <3>1. i \in 2..n
      OBVIOUS
    <3> QED  BY <1>1, <2>1, <3>1 DEF WordStarts
  <2>3. ASSUME NEW j \in from..to
        PROVE  (name[j] \in Digits) = (name[from] \in Digits)
    <3> DEFINE Same(k) == (name[from + k] \in Digits) = (name[from] \in Digits)
               P == {k \in 0..(to - from) : Same(k)}
    <3>1. 0 \in P
      <4>1. from + 0 = from /\ 0 \in 0..(to - from)
        BY <2>1
      <4> QED  BY <4>1
    <3>2. ASSUME NEW k \in 0..((to - from) - 1), k \in P
          PROVE  k + 1 \in P
      <4>1. PICK i : i = from + (k + 1)
        OBVIOUS
      <4>2. i \in (from + 1)..to /\ i - 1 = from + k /\ k + 1 \in 0..(to - from)
        BY <2>1, <4>1
      <4>3. (name[i - 1] \in Digits) = (name[i] \in Digits)
        BY <2>2, <4>2 DEF StartsWord
      <4>4. Same(k)
        BY <3>2
      <4>5. Same(k + 1)
        BY <4>1, <4>2, <4>3, <4>4
      <4> QED  BY <4>2, <4>5
    <3>3. \A k \in 0..(to - from) : k \in P
      <4>1. to - from \in Nat
        BY <2>1
      <4> HIDE DEF P
      <4> QED  BY <3>1, <3>2, <4>1, Induction
    <3>4. j - from \in 0..(to - from) /\ from + (j - from) = j
      OBVIOUS
    <3>5. Same(j - from)
      BY <3>3, <3>4
    <3> QED  BY <3>4, <3>5
  <2>4. ASSUME NEW j \in from..(to - 1)
        PROVE  ~(name[j] \in Smalls /\ name[j + 1] \in Capitals)
    <3>1. j + 1 \in (from + 1)..to /\ (j + 1) - 1 = j
      OBVIOUS
    <3> QED  BY <2>2, <3>1 DEF StartsWord
  <2>5. ASSUME NEW j \in from..(to - 2)
        PROVE  ~(name[j] \in Capitals /\ name[j + 1] \in Capitals /\ name[j + 2] \in Smalls)
    <3>1. PICK i : i = j + 1
      OBVIOUS
    <3>2. i \in (from + 1)..to /\ i - 1 = j /\ i + 1 = j + 2 /\ i < n
      BY <3>1
    <3> QED  BY <1>1, <2>2, <3>1, <3>2 DEF StartsWord
  <2>6. ReadsAsWord(name, from, to)
    BY <2>3, <2>4, <2>5 DEF ReadsAsWord
  <2>7. to \in from..n
    BY <2>1
  <2> QED  BY <2>1, <2>6, <2>7, IsWordFrom
<1>4. ASSUME NEW i \in WordStarts(name)
      PROVE  ~(name[i - 1] \in Capitals /\ name[i] \in Smalls)
  <2>1. StartsWord(name, i)
    BY DEF WordStarts
  <2> QED  BY <2>1, NamesAssumption DEF StartsWord
<1> QED  BY <1>1, <1>2, <1>3, <1>4 DEF Readings

\* Whoever reads a name cuts wherever StartsWord says.
LEMMA WordStartsNeeded ==
    ASSUME NEW n \in Nat \ {0}, NEW name \in [1..n -> Chars], NEW cuts \in Readings(name)
    PROVE  cuts \in SUBSET (2..n) /\ WordStarts(name) \subseteq cuts
<1>1. Len(name) = n
  OBVIOUS
<1>2. /\ cuts \in SUBSET (2..n)
      /\ \A w \in ToSet(Pieces(name, cuts)) : IsWord(w)
      /\ \A i \in cuts : ~(name[i - 1] \in Capitals /\ name[i] \in Smalls)
  BY <1>1 DEF Readings
<1>3. ASSUME NEW i \in 1..n, NEW j \in i..n, \A l \in (i + 1)..j : l \notin cuts
      PROVE  \E from, to \in 1..n : from <= i /\ j <= to /\ ReadsAsWord(name, from, to)
  <2>1. PICK from, to \in 1..n : /\ from <= i /\ j <= to
                                 /\ SubSeq(name, from, to) \in ToSet(Pieces(name, cuts))
    BY <1>1, <1>2, <1>3, PieceOf
  <2>2. IsWord(SubSeq(name, from, to))
    BY <1>2, <2>1
  <2>3. to \in from..n
    BY <2>1
  <2> QED  BY <2>1, <2>2, <2>3, IsWordOf
<1>4. ASSUME NEW i \in WordStarts(name), i \notin cuts
      PROVE  FALSE
  <2>1. i \in 2..n /\ StartsWord(name, i)
    BY <1>1 DEF WordStarts
  <2>2. i - 1 \in 1..n /\ i \in (i - 1)..n /\ (i - 1) + 1 = i
    BY <2>1
  <2>3. \A l \in ((i - 1) + 1)..i : l \notin cuts
    BY <1>4, <2>1, <2>2
  <2>4. PICK from, to \in 1..n : from <= i - 1 /\ i <= to /\ ReadsAsWord(name, from, to)
    BY <1>3, <2>2, <2>3
  <2>5. i - 1 \in from..to /\ i \in from..to /\ i - 1 \in from..(to - 1)
    BY <2>1, <2>4
  <2>6. ((name[i - 1] \in Digits) = (name[i] \in Digits)) /\ ~(name[i - 1] \in Smalls /\ name[i] \in Capitals)
    BY <2>2, <2>4, <2>5 DEF ReadsAsWord
  <2>7. name[i] \in Capitals /\ name[i - 1] \in Capitals /\ i < n /\ name[i + 1] \in Smalls
    BY <1>1, <2>1, <2>6 DEF StartsWord
  <2>8. i + 1 \notin cuts
    <3>1. (i + 1) - 1 = i
      BY <2>1
    <3> QED  BY <1>2, <2>7, <3>1
  <2>9. i + 1 \in (i - 1)..n /\ \A l \in ((i - 1) + 1)..(i + 1) : l \notin cuts
    <3>1. i + 1 \in (i - 1)..n
      BY <2>1, <2>7
    <3>2. ASSUME NEW l \in ((i - 1) + 1)..(i + 1)
          PROVE  l \notin cuts
      <4>1. l = i \/ l = i + 1
        BY <2>1
      <4> QED  BY <1>4, <2>8, <4>1
    <3> QED  BY <3>1, <3>2
  <2>10. PICK a, b \in 1..n : a <= i - 1 /\ i + 1 <= b /\ ReadsAsWord(name, a, b)
    BY <1>3, <2>2, <2>9
  <2>11. i - 1 \in a..(b - 2) /\ (i - 1) + 2 = i + 1
    BY <2>1, <2>10
  <2> QED  BY <2>2, <2>7, <2>10, <2>11 DEF ReadsAsWord
<1> QED  BY <1>2, <1>4

\* SplitPascal reads every name, however long, and over any characters, in the
\* fewest words it can be read in, and it can be read in so few in no other way.
THEOREM EveryNameSplitsAsRead ==
    ASSUME NEW name \in Seq(Chars), name # <<>>
    PROVE  SplitsAsRead(name)
<1>1. PICK n \in Nat \ {0} : n = Len(name) /\ name \in [1..n -> Chars]
  OBVIOUS
<1>2. PICK W : W = WordStarts(name)
  OBVIOUS
<1>3. W \in Readings(name)
  BY <1>1, <1>2, WordStartsRead
<1>4. ASSUME NEW cuts \in Readings(name)
      PROVE  /\ Cardinality(cuts) \in Nat
             /\ Cardinality(W) \in Nat
             /\ Cardinality(W) <= Cardinality(cuts)
             /\ Cardinality(W) = Cardinality(cuts) => W = cuts
  <2>1. cuts \in SUBSET (2..n) /\ W \subseteq cuts
    BY <1>1, <1>2, WordStartsNeeded
  <2>2. IsFiniteSet(cuts)
    <3>1. IsFiniteSet(2..n)
      BY FS_Interval
    <3> QED  BY <2>1, <3>1, FS_Subset
  <2>3. /\ IsFiniteSet(W)
        /\ Cardinality(W) <= Cardinality(cuts)
        /\ Cardinality(W) = Cardinality(cuts) => W = cuts
    BY <2>1, <2>2, FS_Subset
  <2> QED  BY <2>2, <2>3, FS_CardinalityType
<1> DEFINE counts == {Cardinality(cuts) : cuts \in Readings(name)}
<1>5. PICK fewest : fewest = Min(counts)
  OBVIOUS
<1>6. fewest \in counts /\ \A c \in counts : fewest <= c
  <2>1. Cardinality(W) \in counts /\ \A c \in counts : Cardinality(W) <= c
    BY <1>3, <1>4
  <2> HIDE DEF counts
  <2> QED  BY <1>5, <2>1 DEF Min
<1>7. fewest = Cardinality(W)
  <2>1. PICK cuts \in Readings(name) : fewest = Cardinality(cuts)
    BY <1>6
  <2>2. fewest <= Cardinality(W)
    BY <1>3, <1>6
  <2> QED  BY <1>4, <2>1, <2>2
<1>8. {c \in Readings(name) : Cardinality(c) = fewest} = {W}
  BY <1>3, <1>4, <1>7
<1>9. SplitPascal(name) = Pieces(name, W)
  BY <1>1, <1>2, SplitPascalPieces
<1> HIDE DEF counts
<1>10. {Pieces(name, cuts) : cuts \in {c \in Readings(name) : Cardinality(c) = fewest}} = {SplitPascal(name)}
  BY <1>8, <1>9
<1> QED  BY <1>5, <1>10 DEF SplitsAsRead, counts

\* The words of a name, put together, are the name: SplitPascal loses no character
\* and repeats none.
THEOREM SplitPascalKeepsName ==
    ASSUME NEW name \in Seq(Chars), name # <<>>
    PROVE  FlattenSeq(SplitPascal(name)) = name
<1>1. PICK n \in Nat \ {0} : n = Len(name) /\ name \in [1..n -> Chars]
  OBVIOUS
<1>2. PICK cuts \in SUBSET (2..n) : cuts = WordStarts(name)
  BY <1>1 DEF WordStarts
<1>3. SplitPascal(name) = Pieces(name, cuts)
  BY <1>1, <1>2, SplitPascalPieces
<1>4. PICK S : S = Starts(cuts)
  OBVIOUS
<1>5. /\ S \in SUBSET (1..n) /\ 1 \in S
      /\ Cardinality(S) \in Nat \ {0}
      /\ Rank(S, 1) = 1
  BY <1>2, <1>4, StartsFacts
<1>6. PICK c \in Nat \ {0} : c = Cardinality(S)
  BY <1>5
<1>7. \A l, m \in 0..n : l <= m => Rank(S, l) <= Rank(S, m)
  BY <1>5, RankFacts
<1>8. /\ \A i \in S : StartOf(S, Rank(S, i)) = i
      /\ \A k \in 1..c : StartOf(S, k) \in S /\ Rank(S, StartOf(S, k)) = k
  BY <1>5, <1>6, StartOfFacts
<1> DEFINE end == [k \in 1..c |-> IF k = c THEN n ELSE StartOf(S, k + 1) - 1]
           piece == [k \in 1..c |-> SubSeq(name, StartOf(S, k), end[k])]
<1>9. Pieces(name, cuts) = piece
  <2>1. \A k \in 1..c : end[k] = IF k = c THEN n ELSE StartOf(S, k + 1) - 1
    OBVIOUS
  <2>2. Pieces(name, cuts) = [k \in 1..c |-> SubSeq(name, StartOf(S, k), IF k = c THEN n ELSE StartOf(S, k + 1) - 1)]
    BY <1>1, <1>4, <1>6 DEF Pieces, Starts
  <2> HIDE DEF end
  <2> QED  BY <2>1, <2>2
<1>10. ASSUME NEW k \in 1..c
       PROVE  /\ StartOf(S, k) \in 1..n
              /\ end[k] \in 1..n
              /\ StartOf(S, k) <= end[k]
              /\ k # c => k + 1 \in 1..c /\ end[k] = StartOf(S, k + 1) - 1
  <2>1. StartOf(S, k) \in S /\ Rank(S, StartOf(S, k)) = k
    BY <1>8
  <2>2. CASE k = c
    <3>1. end[k] = n
      BY <2>2
    <3>2. PICK from \in 1..n : from = StartOf(S, k)
      BY <1>5, <2>1
    <3> HIDE DEF end
    <3> QED  BY <2>2, <3>1, <3>2
  <2>3. CASE k # c
    <3>1. k + 1 \in 1..c
      BY <2>3
    <3>2. PICK next \in S : next = StartOf(S, k + 1) /\ Rank(S, next) = k + 1
      BY <1>8, <3>1
    <3>3. PICK this \in S : this = StartOf(S, k) /\ Rank(S, this) = k
      BY <2>1
    <3>4. ~(next <= this)
      <4>1. this \in 0..n /\ next \in 0..n
        BY <1>5
      <4>2. next <= this => k + 1 <= k
        BY <1>7, <3>2, <3>3, <4>1
      <4> QED  BY <4>2
    <3>5. this \in 1..n /\ next - 1 \in 1..n /\ this <= next - 1
      <4>1. this \in 1..n /\ next \in 1..n
        BY <1>5
      <4> QED  BY <3>4, <4>1
    <3>6. end[k] = next - 1
      BY <2>3, <3>2
    <3> HIDE DEF end
    <3> QED  BY <2>3, <3>1, <3>2, <3>3, <3>5, <3>6
  <2> QED  BY <2>2, <2>3
<1>11. \A k \in 1..c : piece[k] = SubSeq(name, StartOf(S, k), end[k])
  OBVIOUS
<1>12. piece \in [1..c -> Seq(Chars)]
  <2>1. ASSUME NEW k \in 1..c
        PROVE  SubSeq(name, StartOf(S, k), end[k]) \in Seq(Chars)
    <3>1. PICK from, to \in 1..n : from = StartOf(S, k) /\ to = end[k]
      <4> HIDE DEF end
      <4> QED  BY <1>10
    <3>2. \A i \in from..to : name[i] \in Chars
      BY <1>1
    <3>3. SubSeq(name, from, to) \in Seq(Chars)
      BY <3>2, SubSeqProperties
    <3> QED  BY <3>1, <3>3
  <2> HIDE DEF end
  <2> QED  BY <2>1
<1>13. end[c] = n /\ StartOf(S, 1) = 1 /\ 1 \in 1..c
  <2>1. StartOf(S, 1) = 1
    BY <1>5, <1>8
  <2> QED  BY <2>1
<1> HIDE DEF end, piece
<1>14. PICK list : /\ FlattenSeq(piece) = list[c]
                   /\ list[1] = piece[1]
                   /\ \A i \in 2..c : list[i] = list[i - 1] \o piece[i]
  BY <1>12, FlattenSeqLoop
<1> DEFINE P == {k \in 0..c : k # 0 => list[k] = SubSeq(name, 1, end[k])}
<1>15. 0 \in P
  OBVIOUS
<1>16. ASSUME NEW k \in 0..(c - 1), k \in P
       PROVE  k + 1 \in P
  <2>1. k + 1 \in 1..c /\ k + 1 \in 0..c /\ (k + 1) - 1 = k
    OBVIOUS
  <2>2. CASE k = 0
    BY <1>11, <1>13, <1>14, <2>1, <2>2
  <2>3. CASE k # 0
    <3>1. k \in 1..c /\ k # c /\ k + 1 \in 2..c
      BY <2>3
    <3>2. PICK m \in 1..n : m = end[k] /\ StartOf(S, k + 1) - 1 = m
      BY <1>10, <3>1
    <3>3. PICK to \in 1..n : to = end[k + 1] /\ StartOf(S, k + 1) <= to /\ StartOf(S, k + 1) \in 1..n
      BY <1>10, <2>1
    <3>4. StartOf(S, k + 1) = m + 1 /\ m <= to
      BY <3>2, <3>3
    <3>5. list[k] = SubSeq(name, 1, m)
      BY <1>16, <2>3, <3>2
    <3>6. list[k + 1] = list[k] \o piece[k + 1]
      BY <1>14, <2>1, <3>1
    <3>7. piece[k + 1] = SubSeq(name, m + 1, to)
      BY <1>11, <2>1, <3>3, <3>4
    <3>8. SubSeq(name, 1, m) \o SubSeq(name, m + 1, to) = SubSeq(name, 1, to)
      <4>1. 1 \in 1..(Len(name) + 1) /\ m \in (1 - 1)..Len(name) /\ to \in m..Len(name)
        BY <1>1, <3>4
      <4> QED  BY <4>1, ConcatAdjacentSubSeq
    <3>9. list[k + 1] = SubSeq(name, 1, end[k + 1])
      BY <3>3, <3>5, <3>6, <3>7, <3>8
    <3> QED  BY <2>1, <3>9
  <2> QED  BY <2>2, <2>3
<1>17. list[c] = SubSeq(name, 1, n)
  <2>1. \A k \in 0..c : k \in P
    <3> HIDE DEF P
    <3> QED  BY <1>15, <1>16, Induction
  <2> QED  BY <1>13, <2>1
<1>18. SubSeq(name, 1, n) = name
  BY <1>1, SubSeqFull
<1> QED  BY <1>3, <1>9, <1>14, <1>17, <1>18

\* Each piece that SplitPascal cuts off is a word, and none is empty.
THEOREM SplitPascalWords ==
    ASSUME NEW name \in Seq(Chars), name # <<>>
    PROVE  /\ SplitPascal(name) # <<>>
           /\ \A w \in ToSet(SplitPascal(name)) : w # <<>> /\ IsWord(w)
<1>1. PICK n \in Nat \ {0} : n = Len(name) /\ name \in [1..n -> Chars]
  OBVIOUS
<1>2. PICK cuts \in SUBSET (2..n) : cuts = WordStarts(name)
  BY <1>1 DEF WordStarts
<1>3. SplitPascal(name) = Pieces(name, cuts)
  BY <1>1, <1>2, SplitPascalPieces
<1>4. ASSUME NEW w \in ToSet(SplitPascal(name))
      PROVE  w # <<>> /\ IsWord(w)
  <2>1. IsWord(w)
    BY <1>1, <1>2, <1>3, WordStartsRead DEF Readings
  <2>2. \E from, to \in 1..n : w = SubSeq(name, from, to) /\ Uncut(from, to, WordStarts(name))
    BY <1>1, <1>2, <1>3, PieceFacts
  <2>3. PICK from \in 1..n, to \in 1..n : w = SubSeq(name, from, to) /\ from <= to
    BY <2>2 DEF Uncut
  <2>4. Len(w) = to - from + 1
    <3>1. to \in from..n
      BY <2>3
    <3> QED  BY <1>1, <2>3, <3>1, PartOf
  <2>5. Len(w) # 0
    BY <2>3, <2>4
  <2> QED  BY <2>1, <2>5
<1>5. SplitPascal(name) # <<>>
  <2>1. Cardinality(Starts(cuts)) \in Nat \ {0}
    BY <1>2, StartsFacts
  <2>2. PICK c \in Nat \ {0} : c = Cardinality(Starts(cuts))
    BY <2>1
  <2>3. DOMAIN Pieces(name, cuts) = 1..c
    BY <2>2 DEF Pieces, Starts
  <2>4. 1 \in DOMAIN Pieces(name, cuts)
    BY <2>3
  <2> QED  BY <1>3, <2>4
<1> QED  BY <1>4, <1>5

\* A conventional name has its three parts, domain, entity and action, or more: the
\* branch of BuildConventionalName for a type without words is never taken.
THEOREM ConventionalNameHasAction ==
    ASSUME NEW t \in Types, TypeName[t] \in Seq(Chars)
    PROVE  /\ SplitPascal(TypeName[t]) # <<>>
           /\ Len(ConventionalName(t)) >= 3
<1>1. PICK n \in Nat \ {0}, name \in Seq(Chars) :
         name = TypeName[t] /\ n = Len(name) /\ name \in [1..n -> Chars]
  <2>1. PICK name \in Seq(Chars) : name = TypeName[t] /\ name # <<>>
    BY NamesAssumption
  <2>2. Len(name) \in Nat \ {0} /\ name \in [1..Len(name) -> Chars]
    BY <2>1
  <2> QED  BY <2>1, <2>2
<1>2. PICK cuts \in SUBSET (2..n) : cuts = WordStarts(name)
  BY <1>1 DEF WordStarts
<1>3. PICK c \in Nat \ {0} : c = Cardinality(Starts(cuts))
  BY <1>2, StartsFacts
<1>4. PICK words : words = SplitPascal(name)
  OBVIOUS
<1>5. DOMAIN words = 1..c
  <2>1. words = Pieces(name, cuts)
    BY <1>1, <1>2, <1>4, SplitPascalPieces
  <2> QED  BY <1>3, <2>1 DEF Pieces, Starts
<1>6. PICK tokens, domain :
         /\ tokens = [k \in 1..c |-> ToLower(words[k])]
         /\ domain = IF Namespace[t] = <<>> THEN App ELSE ToLower(Namespace[t])
  OBVIOUS
<1>7. ConventionalName(t) = <<domain>> \o (IF Len(tokens) = 1 THEN Append(tokens, Event) ELSE tokens)
  BY <1>1, <1>4, <1>5, <1>6 DEF ConventionalName
<1>8. PICK T : tokens \in Seq(T) /\ Event \in T /\ domain \in T
  <2> DEFINE T == {tokens[k] : k \in 1..c} \cup {Event, domain}
  <2>1. tokens \in Seq(T) /\ Event \in T /\ domain \in T
    BY <1>6
  <2> HIDE DEF T
  <2> QED  BY <2>1
<1>9. Len(tokens) = c
  BY <1>6
<1>10. PICK rest \in Seq(T) : /\ rest = IF Len(tokens) = 1 THEN Append(tokens, Event) ELSE tokens
                              /\ Len(rest) >= 2
  <2>1. Append(tokens, Event) \in Seq(T) /\ Len(Append(tokens, Event)) = c + 1
    BY <1>8, <1>9
  <2>2. CASE c = 1
    <3>1. PICK longer : longer = Append(tokens, Event)
      OBVIOUS
    <3>2. longer \in Seq(T) /\ Len(longer) = c + 1
      BY <2>1, <3>1
    <3>3. Len(longer) >= 2
      BY <2>2, <3>2
    <3> QED  BY <1>9, <2>2, <3>1, <3>2, <3>3
  <2>3. CASE c # 1
    <3>1. tokens \in Seq(T) /\ Len(tokens) >= 2 /\ Len(tokens) # 1
      BY <1>8, <1>9, <2>3
    <3> QED  BY <3>1
  <2> QED  BY <2>2, <2>3
<1>11. Len(<<domain>> \o rest) = 1 + Len(rest)
  BY <1>8
<1>12. Len(ConventionalName(t)) >= 3
  BY <1>7, <1>10, <1>11
<1>13. words # <<>>
  <2>1. 1 \in DOMAIN words
    BY <1>5
  <2> QED  BY <2>1
<1> QED  BY <1>1, <1>4, <1>12, <1>13
=============================================================================
