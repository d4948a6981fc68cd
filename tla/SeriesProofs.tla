---------------------------- MODULE SeriesProofs ----------------------------
(***************************************************************************)
(* What the proofs about the screens and the backtests share: induction    *)
(* over the natural numbers, the elements of a finite set in order, and    *)
(* what the helpers and indicators of Series compute for every history,    *)
(* above all what they keep when candles are added to it.                  *)
(***************************************************************************)
EXTENDS Series, FiniteSetTheorems, SequenceTheorems, WellFoundedInduction, TLAPS

-----------------------------------------------------------------------------
(* Induction over the natural numbers, from the well-foundedness of the    *)
(* strict subset ordering of a finite set, and what it gives for sequences *)
(* defined by recursion.                                                   *)

\* A set of natural numbers has a least element.
LEMMA LeastNat ==
    ASSUME NEW S \in SUBSET Nat, S # {}
    PROVE  \E n \in S : \A m \in S : n <= m
<1>1. PICK top \in S : TRUE
  OBVIOUS
<1> DEFINE T == {0 .. n : n \in S \cap 0 .. top}
           All == 0 .. top
<1>2. T \subseteq FiniteSubsetsOf(All) /\ T # {}
  <2>1. IsFiniteSet(All)
    BY <1>1, FS_Interval
  <2>2. T \subseteq SUBSET All /\ T # {}
    BY <1>1
  <2> QED
    BY <2>1, <2>2, FS_FiniteSubsetsOfFinite
<1>3. PICK x \in T : \A y \in T : ~ (<<y, x>> \in StrictSubsetOrdering(All))
  <2> HIDE DEF T, All
  <2> QED
    BY <1>2, FS_StrictSubsetOrderingWellFounded, WFMin
<1>4. PICK n \in S \cap 0 .. top : x = 0 .. n
  OBVIOUS
<1>5. ASSUME NEW m \in S, m < n
      PROVE  FALSE
  <2>1. m \in 0 .. top /\ 0 .. m \in T
    BY <1>4, <1>5
  <2>2. 0 .. m \subseteq 0 .. n /\ 0 .. m # 0 .. n /\ 0 .. n \subseteq All
    BY <1>4, <1>5
  <2>3. <<0 .. m, x>> \in StrictSubsetOrdering(All)
    BY <1>4, <2>2 DEF StrictSubsetOrdering
  <2> QED
    BY <1>3, <2>1, <2>3
<1> QED
  BY <1>4, <1>5

\* The induction principle for a set of natural numbers.
LEMMA Induction ==
    ASSUME NEW S, 0 \in S, \A n \in Nat : n \in S => n + 1 \in S
    PROVE  Nat \subseteq S
<1> SUFFICES ASSUME Nat \ S # {}
             PROVE  FALSE
  OBVIOUS
<1>1. PICK n \in Nat \ S : \A m \in Nat \ S : n <= m
  BY LeastNat
<1>2. n # 0 /\ n - 1 \in Nat
  BY <1>1
<1>3. n - 1 \in S
  BY <1>1, <1>2
<1> QED
  BY <1>1, <1>2, <1>3

\* The same for an interval.
LEMMA Upward ==
    ASSUME NEW lo \in Int, NEW hi \in Int, NEW S, lo \in S,
           \A i \in lo + 1 .. hi : i - 1 \in S => i \in S
    PROVE  lo .. hi \subseteq S
<1> DEFINE T == {n \in Nat : lo + n <= hi => lo + n \in S}
<1>1. 0 \in T
  OBVIOUS
<1>2. ASSUME NEW n \in Nat, n \in T
      PROVE  n + 1 \in T
  <2>1. SUFFICES ASSUME lo + (n + 1) <= hi
                 PROVE  lo + (n + 1) \in S
    OBVIOUS
  <2>2. lo + n \in S
    BY <1>2, <2>1
  <2>3. lo + (n + 1) \in lo + 1 .. hi /\ (lo + (n + 1)) - 1 = lo + n
    BY <2>1
  <2> QED
    BY <2>2, <2>3
<1>3. Nat \subseteq T
  <2> HIDE DEF T
  <2> QED
    BY <1>1, <1>2, Induction
<1>4. ASSUME NEW i \in lo .. hi
      PROVE  i \in S
  <2>1. i - lo \in T
    BY <1>3
  <2>2. lo + (i - lo) = i
    OBVIOUS
  <2> QED
    BY <2>1, <2>2
<1> QED
  BY <1>4

\* f is computed over lo .. hi from its first value, each further value from
\* the one before it.
StepsOn(D, lo, hi) == [D \X (lo .. hi) -> D]
IsRun(f, lo, hi, D, base, step) ==
    /\ f \in [lo .. hi -> D]
    /\ lo <= hi => f[lo] = base
    /\ \A i \in lo + 1 .. hi : f[i] = step[<<f[i - 1], i>>]

\* Such a function exists.
LEMMA Recursion ==
    ASSUME NEW lo \in Int, NEW hi \in Int, NEW D, NEW base, base \in D,
           NEW step, step \in StepsOn(D, lo, hi)
    PROVE  \E f : IsRun(f, lo, hi, D, base, step)
<1> SUFFICES \E f \in [lo .. hi -> D] :
                 /\ lo <= hi => f[lo] = base
                 /\ \A i \in lo + 1 .. hi : f[i] = step[<<f[i - 1], i>>]
  BY DEF IsRun
<1> USE DEF StepsOn
<1> DEFINE Runs(n, f) == /\ f \in [lo .. n -> D] /\ f[lo] = base
                         /\ \A i \in lo + 1 .. n : f[i] = step[<<f[i - 1], i>>]
           S == {n \in lo .. hi : \E f : Runs(n, f)}
<1>1. CASE hi < lo
  <2> DEFINE f == [i \in lo .. hi |-> base]
  <2>1. f \in [lo .. hi -> D] /\ ~(lo <= hi) /\ lo + 1 .. hi = {}
    BY <1>1
  <2> HIDE DEF f
  <2> QED
    BY <2>1
<1>2. CASE lo <= hi
  <2>1. lo \in S
    <3>1. Runs(lo, [i \in lo .. lo |-> base])
      OBVIOUS
    <3> QED
      BY <1>2, <3>1
  <2>2. ASSUME NEW n \in lo + 1 .. hi, n - 1 \in S
        PROVE  n \in S
    <3>1. PICK f : Runs(n - 1, f)
      BY <2>2
    <3> DEFINE g == [i \in lo .. n |-> IF i = n THEN step[<<f[n - 1], n>>] ELSE f[i]]
    <3>2. f[n - 1] \in D
      BY <3>1
    <3>3. g \in [lo .. n -> D] /\ g[lo] = base
      BY <3>1, <3>2
    <3>4. ASSUME NEW i \in lo + 1 .. n
          PROVE  g[i] = step[<<g[i - 1], i>>]
      <4>1. g[i - 1] = f[i - 1]
        OBVIOUS
      <4>2. CASE i = n
        <5>1. g[i] = step[<<f[n - 1], n>>]
          BY <4>2
        <5> QED
          BY <4>1, <4>2, <5>1
      <4>3. CASE i # n
        <5>1. i \in lo + 1 .. n - 1
          BY <4>3
        <5>2. g[i] = f[i]
          BY <4>3
        <5> QED
          BY <3>1, <4>1, <5>1, <5>2
      <4> QED
        BY <4>2, <4>3
    <3>5. Runs(n, g)
      <4> HIDE DEF g
      <4> QED
        BY <3>3, <3>4
    <3>6. n \in lo .. hi
      OBVIOUS
    <3> HIDE DEF g, Runs
    <3> QED
      BY <3>5, <3>6
  <2>3. hi \in S
    <3> HIDE DEF S
    <3> QED
      BY <1>2, <2>1, <2>2, Upward
  <2> QED
    BY <2>3, <1>2
<1> QED
  BY <1>1, <1>2

-----------------------------------------------------------------------------
(* Finite sets of numbers: their extremes and their elements in order.     *)

\* The minimum of a nonempty set of numbers belongs to it and is below the
\* others.
LEMMA MinIs ==
    ASSUME NEW S \in SUBSET Nat, S # {}
    PROVE  Min(S) \in S /\ \A x \in S : Min(S) <= x
BY LeastNat DEF Min

\* A finite nonempty set of numbers has a greatest element.
LEMMA FiniteMax ==
    ASSUME NEW S \in SUBSET Nat, IsFiniteSet(S), S # {}
    PROVE  \E m \in S : \A x \in S : x <= m
<1> DEFINE Has(T) == \E m \in T : \A x \in T : x <= m
           Good == {n \in Nat : \A T \in SUBSET Nat :
                       IsFiniteSet(T) /\ Cardinality(T) = n /\ T # {} => Has(T)}
<1>1. 0 \in Good
  BY FS_EmptySet
<1>2. ASSUME NEW n \in Nat, n \in Good
      PROVE  n + 1 \in Good
  <2> SUFFICES ASSUME NEW T \in SUBSET Nat, IsFiniteSet(T), Cardinality(T) = n + 1, T # {}
               PROVE  Has(T)
    OBVIOUS
  <2>1. PICK t \in T : TRUE
    OBVIOUS
  <2>2. IsFiniteSet(T \ {t}) /\ Cardinality(T \ {t}) = n
    <3>1. IsFiniteSet(T \ {t}) /\ Cardinality(T \ {t}) = Cardinality(T) - 1
      BY <2>1, FS_RemoveElement, Zenon
    <3> QED
      BY <3>1
  <2>3. CASE T \ {t} = {}
    BY <2>1, <2>3
  <2>4. CASE T \ {t} # {}
    <3>1. Has(T \ {t})
      BY <1>2, <2>2, <2>4
    <3>2. PICK m \in T \ {t} : \A x \in T \ {t} : x <= m
      BY <3>1
    <3>3. CASE t <= m
      BY <3>2, <3>3
    <3>4. CASE ~(t <= m)
      <4>1. \A x \in T : x <= t
        BY <3>2, <3>4
      <4> QED
        BY <2>1, <4>1
    <3> QED
      BY <3>3, <3>4
  <2> QED
    BY <2>3, <2>4
<1>3. Nat \subseteq Good
  <2> HIDE DEF Good
  <2> QED
    BY <1>1, <1>2, Induction
<1>4. Cardinality(S) \in Good
  BY <1>3, FS_CardinalityType
<1> QED
  BY <1>4

\* The maximum of a finite nonempty set belongs to it and is above the others.
LEMMA MaxIs ==
    ASSUME NEW S \in SUBSET Nat, IsFiniteSet(S), S # {}
    PROVE  Max(S) \in S /\ \A x \in S : x <= Max(S)
<1>1. \E m \in S : \A x \in S : m >= x
  BY FiniteMax
<1>2. Max(S) \in S /\ \A x \in S : Max(S) >= x
  BY <1>1 DEF Max
<1> QED
  BY <1>2

\* The elements up to x.
Below(S, x) == {y \in S : y <= x}

\* The count of the elements up to x tells the elements of a set apart.
LEMMA BelowGrows ==
    ASSUME NEW S \in SUBSET Nat, IsFiniteSet(S), NEW x \in S, NEW z \in S, x < z
    PROVE  Cardinality(Below(S, x)) < Cardinality(Below(S, z))
<1>1. IsFiniteSet(Below(S, x)) /\ IsFiniteSet(Below(S, z))
  BY FS_Subset DEF Below
<1>2. Below(S, x) \in SUBSET Below(S, z) /\ z \in Below(S, z) /\ z \notin Below(S, x)
  <2>1. x \in Nat /\ z \in Nat /\ \A y \in S : y \in Nat
    OBVIOUS
  <2>2. \A y \in S : y <= x => y <= z
    BY <2>1
  <2>3. z <= z /\ ~(z <= x)
    BY <2>1
  <2> QED
    BY <2>2, <2>3 DEF Below
<1>3. Cardinality(Below(S, x)) <= Cardinality(Below(S, z)) /\ Cardinality(Below(S, x)) # Cardinality(Below(S, z))
  BY <1>1, <1>2, FS_Subset
<1> QED
  BY <1>1, <1>3, FS_CardinalityType

\* Every count up to the size of the set is the count up to some element.
LEMMA NthExists ==
    ASSUME NEW S \in SUBSET Nat, IsFiniteSet(S), NEW k \in 1 .. Cardinality(S)
    PROVE  \E x \in S : Cardinality(Below(S, x)) = k
<1> DEFINE Good == {n \in Nat : \A T \in SUBSET Nat : IsFiniteSet(T) /\ Cardinality(T) = n =>
                       \A j \in 1 .. n : \E x \in T : Cardinality(Below(T, x)) = j}
<1>1. 0 \in Good
  OBVIOUS
<1>2. ASSUME NEW n \in Nat, n \in Good
      PROVE  n + 1 \in Good
  <2> SUFFICES ASSUME NEW T \in SUBSET Nat, IsFiniteSet(T), Cardinality(T) = n + 1, NEW j \in 1 .. n + 1
               PROVE  \E x \in T : Cardinality(Below(T, x)) = j
    OBVIOUS
  <2>1. T # {}
    BY FS_EmptySet
  <2>2. PICK m \in T : \A x \in T : x <= m
    BY <2>1, FiniteMax
  <2> DEFINE R == T \ {m}
  <2>3. IsFiniteSet(R) /\ Cardinality(R) = n
    <3>1. IsFiniteSet(R) /\ Cardinality(R) = Cardinality(T) - 1
      BY <2>2, FS_RemoveElement, Zenon
    <3> QED
      BY <3>1
  <2>4. CASE j = n + 1
    <3>1. Below(T, m) = T
      BY <2>2 DEF Below
    <3> QED
      BY <2>4, <3>1
  <2>5. CASE j # n + 1
    <3>1. PICK x \in R : Cardinality(Below(R, x)) = j
      BY <1>2, <2>3, <2>5
    <3>2. Below(T, x) = Below(R, x)
      BY <2>2 DEF Below
    <3> QED
      BY <3>1, <3>2
  <2> QED
    BY <2>4, <2>5
<1>3. Nat \subseteq Good
  <2> HIDE DEF Good
  <2> QED
    BY <1>1, <1>2, Induction
<1>4. Cardinality(S) \in Good
  BY <1>3, FS_CardinalityType
<1> QED
  BY <1>4

\* Nth numbers the elements of a finite set from 1 to its size.
LEMMA NthIs ==
    ASSUME NEW S \in SUBSET Nat, IsFiniteSet(S)
    PROVE  /\ \A k \in 1 .. Cardinality(S) : Nth(S, k) \in S /\ Cardinality(Below(S, Nth(S, k))) = k
           /\ \A x \in S : /\ Cardinality(Below(S, x)) \in 1 .. Cardinality(S)
                           /\ Nth(S, Cardinality(Below(S, x))) = x
<1>1. ASSUME NEW k \in 1 .. Cardinality(S)
      PROVE  Nth(S, k) \in S /\ Cardinality(Below(S, Nth(S, k))) = k
  BY NthExists DEF Nth, Below
<1>2. ASSUME NEW x \in S
      PROVE  Cardinality(Below(S, x)) \in 1 .. Cardinality(S)
  <2>1. Below(S, x) \in SUBSET S /\ x \in Below(S, x)
    BY DEF Below
  <2>2. IsFiniteSet(Below(S, x)) /\ Cardinality(Below(S, x)) <= Cardinality(S)
    BY <2>1, FS_Subset
  <2>3. Cardinality(Below(S, x)) # 0
    BY <2>1, <2>2, FS_EmptySet
  <2> QED
    BY <2>2, <2>3, FS_CardinalityType
<1>3. ASSUME NEW x \in S
      PROVE  Nth(S, Cardinality(Below(S, x))) = x
  <2> DEFINE z == Nth(S, Cardinality(Below(S, x)))
  <2>1. z \in S /\ Cardinality(Below(S, z)) = Cardinality(Below(S, x))
    BY <1>1, <1>2
  <2>2. ~(x < z) /\ ~(z < x)
    <3> HIDE DEF z
    <3>1. Cardinality(Below(S, x)) \in Nat /\ Cardinality(Below(S, z)) \in Nat
      BY <1>2, <2>1
    <3> QED
      BY <2>1, <3>1, BelowGrows
  <2> HIDE DEF z
  <2>3. z = x
    BY <2>1, <2>2
  <2> QED
    BY <2>3 DEF z
<1> QED
  BY <1>1, <1>2, <1>3

\* Nth counts upwards.
LEMMA NthOrder ==
    ASSUME NEW S \in SUBSET Nat, IsFiniteSet(S), NEW j \in 1 .. Cardinality(S), NEW k \in 1 .. Cardinality(S), j < k
    PROVE  Nth(S, j) < Nth(S, k)
<1> DEFINE x == Nth(S, j)
           z == Nth(S, k)
<1>1. /\ x \in S /\ Cardinality(Below(S, x)) = j
      /\ z \in S /\ Cardinality(Below(S, z)) = k
  BY NthIs
<1> HIDE DEF x, z
<1>2. z < x => Cardinality(Below(S, z)) < Cardinality(Below(S, x))
  BY <1>1, BelowGrows
<1>3. z # x /\ x \in Nat /\ z \in Nat
  BY <1>1
<1>4. x < z
  BY <1>1, <1>2, <1>3
<1> QED
  BY <1>4 DEF x, z

\* The first elements of a set are those of any part that lies below the rest.
LEMMA NthOfPart ==
    ASSUME NEW T \in SUBSET Nat, IsFiniteSet(T), NEW S \in SUBSET T,
           \A x \in S, y \in T \ S : x < y
    PROVE  /\ IsFiniteSet(S) /\ Cardinality(S) <= Cardinality(T)
           /\ \A k \in 1 .. Cardinality(S) : Nth(T, k) = Nth(S, k)
<1>1. IsFiniteSet(S) /\ Cardinality(S) <= Cardinality(T)
  BY FS_Subset
<1>2. ASSUME NEW k \in 1 .. Cardinality(S)
      PROVE  Nth(T, k) = Nth(S, k)
  <2> DEFINE x == Nth(S, k)
  <2>1. x \in S /\ Cardinality(Below(S, x)) = k
    BY <1>1, NthIs
  <2> HIDE DEF x
  <2>2. Below(T, x) = Below(S, x)
    <3>1. x \in Nat /\ \A y \in T : y \in Nat
      BY <2>1
    <3>2. \A y \in T : y <= x => y \in S
      BY <2>1, <3>1
    <3> QED
      BY <3>2 DEF Below
  <2>3. Nth(T, Cardinality(Below(T, x))) = x
    BY <2>1, NthIs
  <2> QED
    BY <2>1, <2>2, <2>3 DEF x
<1> QED
  BY <1>1, <1>2

-----------------------------------------------------------------------------
(* The helpers of Series.                                                  *)

\* Tuple(f, n) is the function f itself, as a sequence.
LEMMA TupleIs ==
    ASSUME NEW n \in Nat, NEW f, DOMAIN f = 1 .. n, f = [i \in 1 .. n |-> f[i]]
    PROVE  /\ Tuple(f, n) = f
           /\ Len(f) = n
           /\ \A D : (\A i \in 1 .. n : f[i] \in D) => f \in Seq(D)
<1>1. ASSUME NEW D, \A i \in 1 .. n : f[i] \in D
      PROVE  f \in Seq(D) /\ Len(f) = n /\ Tuple(f, n) = f
  <2>1. f \in [1 .. n -> D]
    BY <1>1
  <2>2. f \in Seq(D) /\ Len(f) = n
    BY <2>1
  <2> QED
    BY <2>2, SubSeqFull DEF Tuple
<1>2. f \in Seq({f[i] : i \in 1 .. n}) /\ Len(f) = n /\ Tuple(f, n) = f
  BY <1>1
<1> QED
  BY <1>1, <1>2

\* The first n elements of a sequence.
LEMMA UptoIs ==
    ASSUME NEW S, NEW s \in Seq(S), NEW n \in 0 .. Len(s)
    PROVE  /\ Upto(s, n) \in Seq(S) /\ Len(Upto(s, n)) = n
           /\ \A i \in 1 .. n : Upto(s, n)[i] = s[i]
<1>1. \A i \in 1 .. n : s[i] \in S
  OBVIOUS
<1> QED
  BY <1>1, SubSeqProperties DEF Upto

\* Sequences with the same elements are equal.
LEMMA SameSequence ==
    ASSUME NEW D, NEW s \in Seq(D), NEW t \in Seq(D), Len(s) = Len(t), \A i \in 1 .. Len(s) : s[i] = t[i]
    PROVE  s = t
OBVIOUS

\* Sequences of numbers with the same elements are equal.
LEMMA SameNumbers ==
    ASSUME NEW s \in Seq(Nat), NEW t \in Seq(Nat), Len(s) = Len(t), \A i \in 1 .. Len(s) : s[i] = t[i]
    PROVE  s = t
<1>1. ASSUME NEW D, D = Nat
      PROVE  s = t
  BY <1>1, SameSequence
<1> QED
  BY <1>1

\* A product of numbers is a number: the one nonlinear fact the proofs need.
LEMMA Product ==
    ASSUME NEW a \in Nat, NEW b \in Nat
    PROVE  a * b \in Nat
OBVIOUS

\* RunningTotals starts at 0 and adds one element after the other.
LEMMA RunningTotalsIs ==
    ASSUME NEW x \in Seq(Int)
    PROVE  /\ RunningTotals(x) \in [0 .. Len(x) -> Int]
           /\ RunningTotals(x)[0] = 0
           /\ \A i \in 1 .. Len(x) : RunningTotals(x)[i] = RunningTotals(x)[i - 1] + x[i]
<1> DEFINE n == Len(x)
           Body(f) == [i \in 0 .. n |-> IF i = 0 THEN 0 ELSE f[i - 1] + x[i]]
           step == [q \in Int \X (0 .. n) |-> IF q[2] = 0 THEN 0 ELSE q[1] + x[q[2]]]
           sum == RunningTotals(x)
<1>0. n \in Nat
  OBVIOUS
<1>1. \E f : f = Body(f)
  <2>1. step \in [Int \X (0 .. n) -> Int]
    OBVIOUS
  <2>2. PICK f : IsRun(f, 0, n, Int, 0, step)
    <3>1. step \in StepsOn(Int, 0, n) /\ 0 \in Int /\ n \in Int
      BY <1>0, <2>1 DEF StepsOn
    <3> HIDE DEF n, step
    <3> QED
      BY <3>1, Recursion
  <2>3. ASSUME NEW i \in 0 .. n
        PROVE  f[i] = Body(f)[i]
    <3>1. CASE i = 0
      BY <1>0, <2>2, <3>1 DEF IsRun
    <3>2. CASE i # 0
      <4>1. i \in 0 + 1 .. n /\ f[i - 1] \in Int
        BY <1>0, <3>2, <2>2 DEF IsRun
      <4> QED
        BY <1>0, <2>2, <4>1, <3>2 DEF IsRun
    <3> QED
      BY <3>1, <3>2
  <2>4. f = Body(f)
    BY <1>0, <2>2, <2>3 DEF IsRun
  <2> QED
    BY <2>4
<1>2. sum = Body(sum)
  <2>1. sum = CHOOSE f : f = Body(f)
    BY DEF RunningTotals
  <2> HIDE DEF Body, sum
  <2> QED
    BY <1>1, <2>1
<1>3. /\ DOMAIN sum = 0 .. n
      /\ sum[0] = 0
      /\ \A i \in 1 .. n : sum[i] = sum[i - 1] + x[i]
  <2> HIDE DEF sum
  <2> QED
    BY <1>2, <1>0
<1>4. \A i \in 0 .. n : sum[i] \in Int
  <2> DEFINE S == {i \in 0 .. n : sum[i] \in Int}
  <2>1. 0 \in S
    BY <1>0, <1>3
  <2>2. \A i \in 0 + 1 .. n : i - 1 \in S => i \in S
    <3> HIDE DEF sum
    <3> QED
      BY <1>3
  <2>3. 0 .. n \subseteq S
    <3> HIDE DEF S, n
    <3> QED
      BY <1>0, <2>1, <2>2, Upward
  <2> QED
    BY <2>3
<1>5. sum = [i \in 0 .. n |-> sum[i]]
  BY <1>2
<1> HIDE DEF sum
<1> QED
  BY <1>3, <1>4, <1>5 DEF sum

\* The label of a day is the end of its period, less than a period ahead.
LEMMA LabelIs ==
    ASSUME NEW a \in Nat, NEW d \in Nat \ {0}
    PROVE  /\ Label(a, d) \in Nat /\ a <= Label(a, d) /\ Label(a, d) < a + d
           /\ Label(a, d) = ((a + d - 1) \div d) * d
           /\ (a + d - 1) \div d \in Nat
BY DEF Label

\* Later days have later labels.
LEMMA LabelGrows ==
    ASSUME NEW d \in Nat \ {0}, NEW a \in Nat, NEW b \in Nat, a <= b
    PROVE  Label(a, d) <= Label(b, d)
BY DEF Label

\* Between two days in one period there is no end of a period.
LEMMA NoEndBetween ==
    ASSUME NEW d \in Nat \ {0}, NEW a \in Nat, NEW b \in Nat, NEW c \in Nat,
           a < Label(c, d), Label(c, d) <= b
    PROVE  a \div d # b \div d
<1> DEFINE q == (c + d - 1) \div d
<1>1. q \in Nat /\ Label(c, d) = q * d
  BY LabelIs
<1> HIDE DEF q
<1>2. a < q * d /\ q * d <= b
  BY <1>1
<1>3. a \div d < q
  BY <1>1, <1>2
<1>4. q <= b \div d
  BY <1>1, <1>2
<1>5. a \div d \in Nat /\ b \div d \in Nat
  OBVIOUS
<1> QED
  BY <1>1, <1>3, <1>4, <1>5

\* The last day of a period is in it; the next is in the next one.
LEMMA LabelOfEnd ==
    ASSUME NEW d \in Nat \ {0}, NEW a \in Nat, NEW b \in Nat, a <= b, b <= Label(a, d)
    PROVE  Label(b, d) = Label(a, d)
<1> DEFINE q == (a + d - 1) \div d
           p == (b + d - 1) \div d
<1>1. q \in Nat /\ Label(a, d) = q * d /\ p \in Nat /\ Label(b, d) = p * d
  BY LabelIs
<1>2. p * d < b + d /\ b <= p * d /\ q * d < a + d
  BY LabelIs, <1>1
<1> HIDE DEF q, p
<1>3. q <= p /\ p * d < q * d + d
  BY LabelGrows, <1>1, <1>2
<1>4. p < q + 1
  BY <1>1, <1>3
<1>5. p = q
  BY <1>1, <1>3, <1>4
<1> QED
  BY <1>1, <1>5

\* A set of places of a sequence is a finite set of numbers.
LEMMA Places ==
    ASSUME NEW n \in Nat, NEW S \in SUBSET (1 .. n)
    PROVE  IsFiniteSet(S) /\ S \in SUBSET Nat
<1>1. IsFiniteSet(1 .. n)
  BY FS_Interval
<1>2. S \in SUBSET Nat
  OBVIOUS
<1> QED
  BY <1>1, <1>2, FS_Subset

\* The extremes of some candles of a history.
LEMMA HighestIs ==
    ASSUME NEW s \in Seq(CandleSet), NEW S \in SUBSET (1 .. Len(s)), S # {}
    PROVE  /\ \A i \in S : s[i].h <= HighestOf(s, S)
           /\ \E i \in S : s[i].h = HighestOf(s, S)
<1> DEFINE f == [i \in S |-> s[i].h]
           T == {s[i].h : i \in S}
<1>1. f \in Surjection(S, T)
  BY DEF Surjection
<1>2. IsFiniteSet(S)
  BY Places, Len(s) \in Nat
<1>3. IsFiniteSet(T)
  <2> HIDE DEF f, T
  <2> QED
    BY <1>1, <1>2, FS_Surjection
<1>4. T \in SUBSET Nat /\ T # {}
  <2>1. \A i \in S : s[i] \in CandleSet
    OBVIOUS
  <2>2. \A i \in S : s[i].h \in Nat /\ s[i].l \in Nat
    BY <2>1 DEF CandleSet, Price
  <2> QED
    BY <2>2
<1>5. Max(T) \in T /\ \A x \in T : x <= Max(T)
  <2> HIDE DEF T
  <2> QED
    BY <1>3, <1>4, MaxIs
<1> QED
  BY <1>5 DEF HighestOf

\* LowestOf is the lowest low at the given places.
LEMMA LowestIs ==
    ASSUME NEW s \in Seq(CandleSet), NEW S \in SUBSET (1 .. Len(s)), S # {}
    PROVE  /\ \A i \in S : LowestOf(s, S) <= s[i].l
           /\ \E i \in S : s[i].l = LowestOf(s, S)
<1> DEFINE T == {s[i].l : i \in S}
<1>4. T \in SUBSET Nat /\ T # {}
  <2>1. \A i \in S : s[i] \in CandleSet
    OBVIOUS
  <2>2. \A i \in S : s[i].h \in Nat /\ s[i].l \in Nat
    BY <2>1 DEF CandleSet, Price
  <2> QED
    BY <2>2
<1>5. Min(T) \in T /\ \A x \in T : Min(T) <= x
  <2> HIDE DEF T
  <2> QED
    BY <1>4, MinIs
<1> QED
  BY <1>5 DEF LowestOf

\* The days of a history increase, up to LastDay.
LEMMA HistoryIs ==
    ASSUME NEW s, IsHistory(s)
    PROVE  /\ s \in Seq(CandleSet) /\ Len(s) \in Nat
           /\ \A i \in 1 .. Len(s) : s[i] \in CandleSet /\ s[i].day \in Nat \ {0} /\ s[i].day <= LastDay(s)
           /\ \A i, j \in 1 .. Len(s) : i < j => s[i].day < s[j].day
           /\ LastDay(s) \in Nat
<1>1. s \in Seq(CandleSet) /\ Len(s) \in Nat
  BY DEF IsHistory
<1>2. \A i \in 1 .. Len(s) : s[i] \in CandleSet /\ s[i].day \in Nat
  BY <1>1 DEF CandleSet
<1>3. ASSUME NEW i \in 1 .. Len(s)
      PROVE  \A j \in i .. Len(s) : i < j => s[i].day < s[j].day
  <2> DEFINE S == {j \in i .. Len(s) : i < j => s[i].day < s[j].day}
  <2>1. i \in S
    BY <1>1
  <2>2. ASSUME NEW j \in i + 1 .. Len(s), j - 1 \in S
        PROVE  j \in S
    <3>1. j \in 1 .. Len(s) /\ j # 1
      BY <1>1
    <3>4. s[j].day > s[j - 1].day
      BY <3>1 DEF IsHistory
    <3>2. j - 1 = i \/ s[i].day < s[j - 1].day
      BY <2>2
    <3>3. s[i].day \in Nat /\ s[j].day \in Nat /\ s[j - 1].day \in Nat
      BY <1>2, <1>1
    <3> QED
      BY <3>1, <3>2, <3>3, <3>4
  <2>3. i .. Len(s) \subseteq S
    <3>1. i \in Int /\ Len(s) \in Int
      BY <1>1
    <3> HIDE DEF S
    <3> QED
      BY <2>1, <2>2, <3>1, Upward
  <2> QED
    BY <2>3
<1>4. \A i, j \in 1 .. Len(s) : i < j => s[i].day < s[j].day
  BY <1>1, <1>3
<1>5. LastDay(s) \in Nat /\ \A i \in 1 .. Len(s) : s[i].day <= LastDay(s)
  <2>1. CASE s = << >>
    BY <2>1 DEF LastDay
  <2>2. CASE s # << >>
    <3>1. Len(s) \in 1 .. Len(s) /\ LastDay(s) = s[Len(s)].day
      BY <1>1, <2>2 DEF LastDay
    <3>2. ASSUME NEW i \in 1 .. Len(s)
          PROVE  s[i].day <= s[Len(s)].day
      <4>1. i = Len(s) \/ i < Len(s)
        BY <1>1
      <4>2. s[i].day \in Nat /\ s[Len(s)].day \in Nat
        BY <1>2, <3>1
      <4> QED
        BY <1>4, <3>1, <4>1, <4>2
    <3> QED
      BY <1>2, <3>1, <3>2
  <2> QED
    BY <2>1, <2>2
<1>6. \A i \in 1 .. Len(s) : s[i].day # 0
  <2> SUFFICES ASSUME NEW i \in 1 .. Len(s)
               PROVE  s[i].day # 0
    OBVIOUS
  <2>1. 1 \in 1 .. Len(s) /\ s[1].day > 0
    BY <1>1 DEF IsHistory
  <2>2. i = 1 \/ s[1].day < s[i].day
    BY <1>1, <1>4, <2>1
  <2> QED
    BY <1>2, <2>1, <2>2
<1> QED
  BY <1>1, <1>2, <1>4, <1>5, <1>6

\* The candles of one period, the candle they make, and the periods that have ended.
InPeriod(s, d, x) == {i \in 1 .. Len(s) : Label(s[i].day, d) = x}
PeriodBar(s, d, x) ==
    Candle(x, s[Min(InPeriod(s, d, x))].o, HighestOf(s, InPeriod(s, d, x)),
           LowestOf(s, InPeriod(s, d, x)), s[Max(InPeriod(s, d, x))].c)
AllEnds(s, d) == {Label(s[i].day, d) : i \in 1 .. Len(s)}
Ends(s, d) == {x \in AllEnds(s, d) : x <= LastDay(s)}

\* The ends of the periods of a history form finite sets of numbers.
LEMMA EndsAre ==
    ASSUME NEW s, IsHistory(s), NEW d \in Nat \ {0}
    PROVE  /\ AllEnds(s, d) \in SUBSET Nat /\ IsFiniteSet(AllEnds(s, d))
           /\ Ends(s, d) \in SUBSET AllEnds(s, d) /\ IsFiniteSet(Ends(s, d))
<1> DEFINE f == [i \in 1 .. Len(s) |-> Label(s[i].day, d)]
<1>1. AllEnds(s, d) \in SUBSET Nat
  BY HistoryIs, LabelIs DEF AllEnds
<1>2. f \in Surjection(1 .. Len(s), AllEnds(s, d))
  BY DEF Surjection, AllEnds
<1>3. IsFiniteSet(AllEnds(s, d))
  <2>1. IsFiniteSet(1 .. Len(s))
    <3>1. Len(s) \in Nat
      BY HistoryIs
    <3> QED
      BY <3>1, Places
  <2> HIDE DEF f
  <2> QED
    BY <1>2, <2>1, FS_Surjection
<1>4. Ends(s, d) \in SUBSET AllEnds(s, d)
  BY DEF Ends
<1> QED
  BY <1>1, <1>3, <1>4, FS_Subset

\* The candle of a period is a candle, dated at the end of the period.
LEMMA PeriodBarIs ==
    ASSUME NEW s, IsHistory(s), NEW d \in Nat \ {0}, NEW x \in AllEnds(s, d)
    PROVE  PeriodBar(s, d, x) \in CandleSet /\ PeriodBar(s, d, x).day = x
<1> DEFINE S == InPeriod(s, d, x)
           b == PeriodBar(s, d, x)
<1>1. S \in SUBSET (1 .. Len(s)) /\ S # {} /\ s \in Seq(CandleSet) /\ Len(s) \in Nat
  BY HistoryIs DEF InPeriod, AllEnds
<1>2. IsFiniteSet(S) /\ S \in SUBSET Nat
  <2> HIDE DEF S
  <2> QED
    BY <1>1, Places
<1>3. Min(S) \in S /\ Max(S) \in S
  <2> HIDE DEF S
  <2> QED
    BY <1>1, <1>2, MinIs, MaxIs
<1>4. PICK hi \in S : s[hi].h = HighestOf(s, S)
  <2> HIDE DEF S
  <2> QED
    BY <1>1, HighestIs
<1>5. PICK lo \in S : s[lo].l = LowestOf(s, S)
  <2> HIDE DEF S
  <2> QED
    BY <1>1, LowestIs
<1>6. \A i \in S : LowestOf(s, S) <= s[i].l /\ s[i].h <= HighestOf(s, S)
  <2> HIDE DEF S
  <2> QED
    BY <1>1, HighestIs, LowestIs
<1>7. x \in Nat
  BY EndsAre
<1>8. \A i \in S : s[i] \in CandleSet
  BY <1>1
<1>9. b = [day |-> x, o |-> s[Min(S)].o, h |-> s[hi].h, l |-> s[lo].l, c |-> s[Max(S)].c]
  BY <1>4, <1>5 DEF PeriodBar, Candle
<1>10. /\ s[lo].l <= s[Min(S)].l /\ s[lo].l <= s[Max(S)].l
       /\ s[Min(S)].h <= s[hi].h /\ s[Max(S)].h <= s[hi].h
  BY <1>3, <1>4, <1>5, <1>6
<1> HIDE DEF S
<1>11. b.day \in Nat /\ b.o \in Price /\ b.h \in Price /\ b.l \in Price /\ b.c \in Price
  BY <1>3, <1>4, <1>5, <1>7, <1>8, <1>9 DEF CandleSet
<1>12. /\ s[lo].l <= s[Min(S)].o /\ s[Min(S)].o <= s[hi].h
       /\ s[lo].l <= s[Max(S)].c /\ s[Max(S)].c <= s[hi].h
  <2>1. \A i \in S : /\ s[i].l \in Nat /\ s[i].h \in Nat /\ s[i].o \in Nat /\ s[i].c \in Nat
                     /\ s[i].l <= s[i].o /\ s[i].o <= s[i].h /\ s[i].l <= s[i].c /\ s[i].c <= s[i].h
    BY <1>8 DEF CandleSet, Price
  <2> QED
    BY <1>3, <1>4, <1>5, <1>10, <2>1
<1> HIDE DEF b
<1>13. b \in CandleSet /\ b.day = x
  BY <1>9, <1>11, <1>12 DEF CandleSet
<1> QED
  BY <1>13 DEF b

\* The candles of the periods form a history, the k-th that of the k-th end.
LEMMA PeriodBarsAre ==
    ASSUME NEW s, IsHistory(s), NEW d \in Nat \ {0}, NEW ends \in SUBSET AllEnds(s, d)
    PROVE  /\ IsHistory(PeriodBars(s, d, ends))
           /\ Len(PeriodBars(s, d, ends)) = Cardinality(ends)
           /\ \A k \in 1 .. Cardinality(ends) :
                  /\ Nth(ends, k) \in ends
                  /\ PeriodBars(s, d, ends)[k] = PeriodBar(s, d, Nth(ends, k))
<1> DEFINE n == Cardinality(ends)
           f == [k \in 1 .. n |-> PeriodBar(s, d, Nth(ends, k))]
<1>1. IsFiniteSet(ends) /\ ends \in SUBSET Nat
  BY EndsAre, FS_Subset
<1>2. n \in Nat
  BY <1>1, FS_CardinalityType
<1>3. \A k \in 1 .. n : Nth(ends, k) \in ends
  BY <1>1, NthIs
<1>4. PeriodBars(s, d, ends) = Tuple(f, n)
  BY DEF PeriodBars, PeriodBar, InPeriod
<1>5. \A k \in 1 .. n : f[k] \in CandleSet /\ f[k].day = Nth(ends, k)
  BY <1>3, PeriodBarIs
<1>6. Tuple(f, n) = f /\ Len(f) = n /\ f \in Seq(CandleSet)
  <2>1. DOMAIN f = 1 .. n /\ f = [k \in 1 .. n |-> f[k]]
    OBVIOUS
  <2> HIDE DEF f, n
  <2> QED
    BY <1>2, <1>5, <2>1, TupleIs
<1>7. \A k \in 1 .. n : f[k].day > IF k = 1 THEN 0 ELSE f[k - 1].day
  <2> SUFFICES ASSUME NEW k \in 1 .. n
               PROVE  f[k].day > IF k = 1 THEN 0 ELSE f[k - 1].day
    OBVIOUS
  <2> HIDE DEF f
  <2>1. CASE k = 1
    <3>1. Nth(ends, 1) \in AllEnds(s, d)
      BY <1>3, <2>1
    <3>2. Nth(ends, 1) > 0
      <4>1. PICK i \in 1 .. Len(s) : Nth(ends, 1) = Label(s[i].day, d)
        BY <3>1 DEF AllEnds
      <4>2. s[i].day \in Nat \ {0}
        BY HistoryIs
      <4>3. s[i].day <= Label(s[i].day, d) /\ Label(s[i].day, d) \in Nat
        BY <4>2, LabelIs
      <4> QED
        BY <4>1, <4>2, <4>3
    <3> QED
      BY <1>5, <2>1, <3>2
  <2>2. CASE k # 1
    <3>1. k - 1 \in 1 .. n /\ k \in 1 .. n /\ k - 1 < k
      BY <1>2, <2>2
    <3>2. Nth(ends, k - 1) < Nth(ends, k)
      BY <1>1, <3>1, NthOrder
    <3>3. f[k].day > f[k - 1].day
      BY <1>1, <1>3, <1>5, <3>1, <3>2
    <3> QED
      BY <2>2, <3>3
  <2> QED
    BY <2>1, <2>2
<1>8. \A k \in 1 .. n : f[k] = PeriodBar(s, d, Nth(ends, k))
  OBVIOUS
<1> HIDE DEF f, n
<1> QED
  BY <1>3, <1>4, <1>6, <1>7, <1>8 DEF IsHistory, n

\* Resample keeps the periods that have ended, ResampleLive all of them.
LEMMA ResampleIs ==
    ASSUME NEW s, IsHistory(s), NEW d \in Nat \ {0}
    PROVE  /\ Resample(s, d) = PeriodBars(s, d, Ends(s, d))
           /\ ResampleLive(s, d) = PeriodBars(s, d, AllEnds(s, d))
           /\ IsHistory(Resample(s, d)) /\ IsHistory(ResampleLive(s, d))
<1>1. /\ Resample(s, d) = PeriodBars(s, d, Ends(s, d))
      /\ ResampleLive(s, d) = PeriodBars(s, d, AllEnds(s, d))
  BY DEF Resample, ResampleLive, Ends, AllEnds
<1>2. Ends(s, d) \in SUBSET AllEnds(s, d) /\ AllEnds(s, d) \in SUBSET AllEnds(s, d)
  BY EndsAre
<1> QED
  BY <1>1, <1>2, PeriodBarsAre

\* One candle for every period that has ended.
LEMMA ResampleLength ==
    ASSUME NEW s, IsHistory(s), NEW d \in Nat \ {0}
    PROVE  Len(Resample(s, d)) = Cardinality(Ends(s, d))
<1>1. Resample(s, d) = PeriodBars(s, d, Ends(s, d))
  BY ResampleIs
<1>2. Ends(s, d) \in SUBSET AllEnds(s, d)
  BY EndsAre
<1> QED BY <1>1, <1>2, PeriodBarsAre

-----------------------------------------------------------------------------
(* What a longer history changes.                                          *)

\* t goes on where s ends.
Continues(t, s) == Len(s) <= Len(t) /\ \A i \in 1 .. Len(s) : t[i] = s[i]

\* A later candle makes a history that continues the old one.
LEMMA NextCandleContinues ==
    ASSUME NEW s, IsHistory(s), NEW b \in CandleSet, LastDay(s) < b.day
    PROVE  /\ IsHistory(Append(s, b)) /\ Continues(Append(s, b), s)
           /\ Len(Append(s, b)) = Len(s) + 1 /\ Append(s, b)[Len(s) + 1] = b
           /\ LastDay(Append(s, b)) = b.day
<1> DEFINE t == Append(s, b)
<1>1. s \in Seq(CandleSet) /\ Len(s) \in Nat
  BY HistoryIs
<1>2. /\ t \in Seq(CandleSet) /\ Len(t) = Len(s) + 1 /\ t[Len(s) + 1] = b
      /\ \A i \in 1 .. Len(s) : t[i] = s[i]
  BY <1>1
<1> HIDE DEF t
<1>3. LastDay(t) = b.day
  BY <1>1, <1>2 DEF LastDay
<1>4. ASSUME NEW i \in 1 .. Len(t)
      PROVE  t[i].day > IF i = 1 THEN 0 ELSE t[i - 1].day
  <2>1. CASE i <= Len(s)
    <3>1. i \in 1 .. Len(s) /\ (i # 1 => i - 1 \in 1 .. Len(s))
      BY <1>1, <2>1
    <3>2. s[i].day > IF i = 1 THEN 0 ELSE s[i - 1].day
      BY <3>1 DEF IsHistory
    <3> QED
      BY <1>2, <3>1, <3>2
  <2>2. CASE ~(i <= Len(s))
    <3>1. i = Len(s) + 1 /\ t[i].day > LastDay(s) /\ LastDay(s) \in Nat
      BY <1>1, <1>2, <2>2, HistoryIs DEF CandleSet
    <3>2. CASE i = 1
      <4>1. LastDay(s) = 0
        BY <1>1, <3>1, <3>2 DEF LastDay
      <4> QED
        BY <3>1, <3>2, <4>1
    <3>3. CASE i # 1
      <4>1. i - 1 = Len(s) /\ Len(s) \in 1 .. Len(s) /\ s # << >>
        BY <1>1, <3>1, <3>3
      <4>2. t[i - 1].day = LastDay(s)
        BY <1>1, <1>2, <4>1 DEF LastDay
      <4> QED
        BY <3>1, <3>3, <4>2
    <3> QED
      BY <3>2, <3>3
  <2> QED
    BY <2>1, <2>2
<1>5. IsHistory(t) /\ Continues(t, s)
  <2>1. IsHistory(t)
    BY <1>2, <1>4 DEF IsHistory
  <2> QED
    BY <1>1, <1>2, <2>1 DEF Continues
<1> QED
  BY <1>2, <1>3, <1>5 DEF t

\* The candles of a longer history.
LEMMA LaterCandles ==
    ASSUME NEW s, IsHistory(s), NEW t, IsHistory(t), Continues(t, s)
    PROVE  /\ LastDay(s) <= LastDay(t)
           /\ \A i \in 1 .. Len(t) : i \notin 1 .. Len(s) => LastDay(s) < t[i].day
<1>1. /\ Len(s) \in Nat /\ Len(t) \in Nat /\ Len(s) <= Len(t)
      /\ LastDay(s) \in Nat /\ LastDay(t) \in Nat
  BY HistoryIs DEF Continues
<1>2. CASE s = << >>
  <2>1. LastDay(s) = 0 /\ \A i \in 1 .. Len(t) : t[i].day > 0
    BY <1>2, HistoryIs DEF LastDay
  <2> QED
    BY <1>1, <2>1
<1>3. CASE s # << >>
  <2>1. s \in Seq(CandleSet)
    BY HistoryIs
  <2>2. Len(s) \in 1 .. Len(s) /\ Len(s) \in 1 .. Len(t) /\ LastDay(s) = s[Len(s)].day /\ t[Len(s)] = s[Len(s)]
    BY <1>1, <1>3, <2>1 DEF LastDay, Continues
  <2>3. LastDay(s) <= LastDay(t)
    BY <2>2, HistoryIs
  <2>4. ASSUME NEW i \in 1 .. Len(t), i \notin 1 .. Len(s)
        PROVE  LastDay(s) < t[i].day
    <3>1. Len(s) < i
      BY <1>1, <2>4
    <3>2. t[Len(s)].day < t[i].day
      BY <2>2, <3>1, HistoryIs
    <3> QED
      BY <2>2, <3>2
  <2> QED
    BY <2>3, <2>4
<1> QED
  BY <1>2, <1>3

\* A longer history leaves the candles of the periods that had ended as they
\* were, and only adds to them.
LEMMA PeriodBarStays ==
    ASSUME NEW s, IsHistory(s), NEW t, IsHistory(t), Continues(t, s), NEW d \in Nat \ {0},
           NEW x \in Ends(s, d)
    PROVE  PeriodBar(t, d, x) = PeriodBar(s, d, x)
<1> DEFINE S == InPeriod(s, d, x)
<1>0. Len(s) \in Nat /\ Len(t) \in Nat /\ Len(s) <= Len(t) /\ \A i \in 1 .. Len(s) : t[i] = s[i]
  BY HistoryIs DEF Continues
<1>1. x \in Nat /\ x <= LastDay(s) /\ x \in AllEnds(s, d) /\ LastDay(s) \in Nat
  BY EndsAre, HistoryIs DEF Ends
<1>2. ASSUME NEW i \in 1 .. Len(t), i \notin 1 .. Len(s)
      PROVE  Label(t[i].day, d) # x
  <2>1. LastDay(s) < t[i].day /\ t[i].day \in Nat
    BY <1>2, LaterCandles, HistoryIs
  <2>2. t[i].day <= Label(t[i].day, d) /\ Label(t[i].day, d) \in Nat
    BY <2>1, LabelIs
  <2> QED
    BY <1>1, <2>1, <2>2
<1>3. InPeriod(t, d, x) = S
  BY <1>0, <1>2 DEF InPeriod
<1>4. S # {} /\ S \in SUBSET (1 .. Len(s))
  BY <1>1 DEF InPeriod, AllEnds
<1>5. Min(S) \in S /\ Max(S) \in S
  <2> HIDE DEF S
  <2>1. IsFiniteSet(S) /\ S \in SUBSET Nat
    BY <1>0, <1>4, Places
  <2> QED
    BY <1>4, <2>1, MinIs, MaxIs
<1>6. \A i \in S : t[i] = s[i]
  BY <1>0, <1>4
<1>7. HighestOf(t, S) = HighestOf(s, S) /\ LowestOf(t, S) = LowestOf(s, S)
  <2> HIDE DEF S
  <2>1. {t[i].h : i \in S} = {s[i].h : i \in S} /\ {t[i].l : i \in S} = {s[i].l : i \in S}
    BY <1>6
  <2> QED
    BY <2>1 DEF HighestOf, LowestOf
<1> HIDE DEF S
<1>8. PeriodBar(t, d, x) = Candle(x, t[Min(S)].o, HighestOf(t, S), LowestOf(t, S), t[Max(S)].c)
  BY <1>3 DEF PeriodBar
<1>9. PeriodBar(s, d, x) = Candle(x, s[Min(S)].o, HighestOf(s, S), LowestOf(s, S), s[Max(S)].c)
  BY DEF PeriodBar, S
<1> QED
  BY <1>5, <1>6, <1>7, <1>8, <1>9

\* A longer history has the old ends, and new ones only after the old last
\* day.
LEMMA EndsGrow ==
    ASSUME NEW s, IsHistory(s), NEW t, IsHistory(t), Continues(t, s), NEW d \in Nat \ {0}
    PROVE  /\ Ends(s, d) \in SUBSET Ends(t, d)
           /\ \A y \in Ends(t, d) \ Ends(s, d) :
                  /\ LastDay(s) < y /\ y <= LastDay(t)
                  /\ \E i \in 1 .. Len(t) : y = Label(t[i].day, d)
<1>0. Len(s) \in Nat /\ Len(t) \in Nat /\ Len(s) <= Len(t) /\ \A i \in 1 .. Len(s) : t[i] = s[i]
  BY HistoryIs DEF Continues
<1>1. ASSUME NEW x \in Ends(s, d)
      PROVE  x \in Ends(t, d)
  <2>1. PICK i \in 1 .. Len(s) : x = Label(s[i].day, d)
    BY DEF Ends, AllEnds
  <2>2. i \in 1 .. Len(t) /\ x = Label(t[i].day, d)
    BY <1>0, <2>1
  <2>3. x <= LastDay(s) /\ x \in Nat /\ LastDay(s) \in Nat /\ LastDay(t) \in Nat /\ LastDay(s) <= LastDay(t)
    BY EndsAre, HistoryIs, LaterCandles DEF Ends
  <2> QED
    BY <2>2, <2>3 DEF Ends, AllEnds
<1>2. ASSUME NEW y \in Ends(t, d) \ Ends(s, d)
      PROVE  /\ LastDay(s) < y /\ y <= LastDay(t)
             /\ \E i \in 1 .. Len(t) : y = Label(t[i].day, d)
  <2>1. PICK i \in 1 .. Len(t) : y = Label(t[i].day, d)
    BY DEF Ends, AllEnds
  <2>2. y \in Nat /\ y <= LastDay(t) /\ LastDay(s) \in Nat
    BY EndsAre, HistoryIs DEF Ends
  <2>3. CASE i \in 1 .. Len(s)
    <3>1. y \in AllEnds(s, d)
      BY <1>0, <2>1, <2>3 DEF AllEnds
    <3> QED
      BY <2>1, <2>2, <3>1 DEF Ends
  <2>4. CASE i \notin 1 .. Len(s)
    <3>1. LastDay(s) < t[i].day /\ t[i].day \in Nat
      BY <2>4, LaterCandles, HistoryIs
    <3>2. t[i].day <= y
      BY <2>1, <3>1, LabelIs
    <3> QED
      BY <2>1, <2>2, <3>1, <3>2
  <2> QED
    BY <2>3, <2>4
<1> QED
  BY <1>1, <1>2

\* Resampling a longer history continues the resampled shorter one.
LEMMA ResampleContinues ==
    ASSUME NEW s, IsHistory(s), NEW t, IsHistory(t), Continues(t, s), NEW d \in Nat \ {0}
    PROVE  /\ Continues(Resample(t, d), Resample(s, d))
           /\ Ends(t, d) = Ends(s, d) => Resample(t, d) = Resample(s, d)
<1> DEFINE E == Ends(s, d)
           F == Ends(t, d)
           m == Resample(s, d)
           n == Resample(t, d)
<1>1. /\ E \in SUBSET F /\ IsFiniteSet(F) /\ F \in SUBSET Nat
      /\ IsFiniteSet(E) /\ E \in SUBSET Nat
  BY EndsGrow, EndsAre
<1>2. \A x \in E, y \in F \ E : x < y
  <2> SUFFICES ASSUME NEW x \in E, NEW y \in F \ E
               PROVE  x < y
    OBVIOUS
  <2>1. LastDay(s) < y /\ x <= LastDay(s) /\ LastDay(s) \in Nat
    BY EndsGrow, HistoryIs DEF Ends
  <2>2. x \in Nat /\ y \in Nat
    BY <1>1
  <2> QED
    BY <2>1, <2>2
<1>3. /\ Cardinality(E) <= Cardinality(F)
      /\ \A k \in 1 .. Cardinality(E) : Nth(F, k) = Nth(E, k)
  <2> HIDE DEF E, F
  <2> QED
    BY <1>1, <1>2, NthOfPart
<1>4. /\ Len(m) = Cardinality(E) /\ Len(n) = Cardinality(F) /\ IsHistory(m) /\ IsHistory(n)
      /\ \A k \in 1 .. Cardinality(E) : Nth(E, k) \in E /\ m[k] = PeriodBar(s, d, Nth(E, k))
      /\ \A k \in 1 .. Cardinality(F) : n[k] = PeriodBar(t, d, Nth(F, k))
  <2>1. m = PeriodBars(s, d, E) /\ n = PeriodBars(t, d, F)
    BY ResampleIs
  <2>2. E \in SUBSET AllEnds(s, d) /\ F \in SUBSET AllEnds(t, d)
    BY EndsAre
  <2> HIDE DEF E, F, m, n
  <2>3. /\ Len(m) = Cardinality(E) /\ IsHistory(m)
        /\ \A k \in 1 .. Cardinality(E) : Nth(E, k) \in E /\ m[k] = PeriodBar(s, d, Nth(E, k))
    BY <2>1, <2>2, PeriodBarsAre
  <2>4. /\ Len(n) = Cardinality(F) /\ IsHistory(n)
        /\ \A k \in 1 .. Cardinality(F) : n[k] = PeriodBar(t, d, Nth(F, k))
    BY <2>1, <2>2, PeriodBarsAre
  <2> QED
    BY <2>3, <2>4
<1>5. Cardinality(E) \in Nat /\ Cardinality(F) \in Nat
  BY <1>1, FS_CardinalityType
<1>6. ASSUME NEW k \in 1 .. Cardinality(E)
      PROVE  n[k] = m[k]
  <2>1. k \in 1 .. Cardinality(F)
    BY <1>3, <1>5
  <2>2. PeriodBar(t, d, Nth(E, k)) = PeriodBar(s, d, Nth(E, k))
    BY <1>4, PeriodBarStays
  <2> QED
    BY <1>3, <1>4, <2>1, <2>2
<1>7. Continues(n, m)
  BY <1>3, <1>4, <1>6 DEF Continues
<1>8. ASSUME F = E
      PROVE  n = m
  <2>1. m \in Seq(CandleSet) /\ n \in Seq(CandleSet) /\ Len(m) = Len(n)
    BY <1>4, <1>8, HistoryIs
  <2>2. \A k \in 1 .. Len(m) : n[k] = m[k]
    BY <1>4, <1>6
  <2> HIDE DEF m, n
  <2> QED
    BY <2>1, <2>2
<1> QED
  BY <1>7, <1>8

\* While no period ends there is no new candle.
LEMMA NoPeriodEnds ==
    ASSUME NEW s, IsHistory(s), NEW t, IsHistory(t), Continues(t, s), NEW d \in Nat \ {0},
           LastDay(s) \div d = LastDay(t) \div d
    PROVE  Resample(t, d) = Resample(s, d)
<1>1. ASSUME NEW y \in Ends(t, d) \ Ends(s, d)
      PROVE  FALSE
  <2>1. PICK i \in 1 .. Len(t) : y = Label(t[i].day, d)
    BY EndsGrow
  <2>2. LastDay(s) < y /\ y <= LastDay(t) /\ LastDay(s) \in Nat /\ LastDay(t) \in Nat /\ t[i].day \in Nat
    BY EndsGrow, HistoryIs
  <2> QED
    BY <2>1, <2>2, NoEndBetween
<1>2. Ends(t, d) = Ends(s, d)
  BY <1>1, EndsGrow
<1> QED
  BY <1>2, ResampleContinues

\* The last day of a period is its own label.
LEMMA LabelOfMultiple ==
    ASSUME NEW d \in Nat \ {0}, NEW a \in Nat, a % d = 0
    PROVE  Label(a, d) = a
<1> DEFINE q == a \div d
           p == (a + d - 1) \div d
<1>1. q \in Nat /\ a = q * d
  OBVIOUS
<1>2. p \in Nat /\ Label(a, d) = p * d /\ a <= p * d /\ p * d < a + d
  BY LabelIs
<1> HIDE DEF q, p
<1>3. q * d <= p * d /\ p * d < q * d + d
  BY <1>1, <1>2
<1>4. p < q + 1 /\ q <= p
  BY <1>1, <1>2, <1>3
<1>5. p = q
  BY <1>1, <1>2, <1>4
<1> QED
  BY <1>1, <1>2, <1>5

\* On the day that ends a period none is running.
LEMMA PeriodsEnd ==
    ASSUME NEW s, IsHistory(s), NEW d \in Nat \ {0}, LastDay(s) % d = 0
    PROVE  ResampleLive(s, d) = Resample(s, d)
<1>1. ASSUME NEW x \in AllEnds(s, d)
      PROVE  x <= LastDay(s)
  <2>1. PICK i \in 1 .. Len(s) : x = Label(s[i].day, d)
    BY DEF AllEnds
  <2>2. s[i].day \in Nat /\ LastDay(s) \in Nat /\ s[i].day <= LastDay(s)
    BY HistoryIs
  <2>3. x <= Label(LastDay(s), d)
    BY <2>1, <2>2, LabelGrows
  <2> QED
    BY <2>2, <2>3, LabelOfMultiple
<1>2. Ends(s, d) = AllEnds(s, d)
  BY <1>1 DEF Ends
<1> QED
  BY <1>2, ResampleIs

-----------------------------------------------------------------------------
(* The RSI of a candle depends on the closes up to it.                     *)

\* A sum of numbers is a number.
LEMMA TotalIs ==
    ASSUME NEW x \in Seq(Nat)
    PROVE  Total(x) \in Nat
<1> DEFINE sum == RunningTotals(x)
           n == Len(x)
           S == {i \in 0 .. n : sum[i] \in Nat}
<1>1. /\ sum \in [0 .. n -> Int] /\ sum[0] = 0
      /\ \A i \in 1 .. n : sum[i] = sum[i - 1] + x[i]
  <2>1. x \in Seq(Int)
    OBVIOUS
  <2> QED
    BY <2>1, RunningTotalsIs
<1>2. n \in Nat /\ \A i \in 1 .. n : x[i] \in Nat
  OBVIOUS
<1> HIDE DEF sum, n
<1>3. 0 \in S
  BY <1>1, <1>2
<1>4. ASSUME NEW i \in 0 + 1 .. n, i - 1 \in S
      PROVE  i \in S
  <2>1. i \in 1 .. n /\ sum[i - 1] \in Nat
    BY <1>2, <1>4
  <2>2. sum[i] = sum[i - 1] + x[i] /\ x[i] \in Nat
    BY <1>1, <1>2, <2>1
  <2> QED
    BY <2>1, <2>2
<1>5. 0 .. n \subseteq S
  <2>1. 0 \in Int /\ n \in Int
    BY <1>2
  <2> HIDE DEF S
  <2> QED
    BY <1>3, <1>4, <2>1, Upward
<1>6. sum[n] \in Nat
  BY <1>2, <1>5
<1> QED
  BY <1>6 DEF Total, sum, n

\* Closes takes the close of each candle.
LEMMA ClosesAre ==
    ASSUME NEW s \in Seq(CandleSet)
    PROVE  /\ Closes(s) \in Seq(Nat) /\ Len(Closes(s)) = Len(s)
           /\ \A i \in 1 .. Len(s) : Closes(s)[i] = s[i].c
<1> DEFINE f == [i \in 1 .. Len(s) |-> s[i].c]
<1>1. Len(s) \in Nat /\ \A i \in 1 .. Len(s) : s[i] \in CandleSet
  OBVIOUS
<1>2. \A i \in 1 .. Len(s) : f[i] \in Nat /\ f[i] = s[i].c
  BY <1>1 DEF CandleSet, Price
<1>3. DOMAIN f = 1 .. Len(s) /\ f = [i \in 1 .. Len(s) |-> f[i]]
  OBVIOUS
<1>4. Closes(s) = Tuple(f, Len(s))
  BY DEF Closes
<1> HIDE DEF f
<1>5. Closes(s) = f /\ Len(f) = Len(s) /\ f \in Seq(Nat)
  BY <1>1, <1>2, <1>3, <1>4, TupleIs
<1> QED
  BY <1>2, <1>5

\* Moves has one number for each pair of neighbouring closes.
LEMMA MovesAre ==
    ASSUME NEW c \in Seq(Nat), c # << >>, NEW sign \in {1, -1}
    PROVE  /\ Moves(c, sign) \in Seq(Nat) /\ Len(Moves(c, sign)) = Len(c) - 1
           /\ \A k \in 1 .. Len(c) - 1 : Moves(c, sign)[k] = Plus(sign * (c[k + 1] - c[k]))
<1> DEFINE n == Len(c) - 1
           f == [k \in 1 .. n |-> Plus(sign * (c[k + 1] - c[k]))]
<1>1. n \in Nat /\ \A k \in 1 .. n : c[k] \in Nat /\ c[k + 1] \in Nat
  OBVIOUS
<1>2. \A k \in 1 .. n : f[k] \in Nat /\ f[k] = Plus(sign * (c[k + 1] - c[k]))
  BY <1>1 DEF Plus, MaxOf
<1>3. DOMAIN f = 1 .. n /\ f = [k \in 1 .. n |-> f[k]]
  OBVIOUS
<1>4. Moves(c, sign) = Tuple(f, n)
  BY DEF Moves
<1> HIDE DEF f, n
<1>5. Moves(c, sign) = f /\ Len(f) = n /\ f \in Seq(Nat)
  BY <1>1, <1>2, <1>3, <1>4, TupleIs
<1> QED
  BY <1>2, <1>5 DEF n

\* What the recursive function Powers computes.
LEMMA PowersAre ==
    ASSUME NEW p \in Nat \ {0}, NEW n \in Nat, p + 1 <= n
    PROVE  /\ Powers(p, n)[p + 1] = 1
           /\ \A i \in p + 2 .. n : Powers(p, n)[i] = p * Powers(p, n)[i - 1]
           /\ \A i \in p + 1 .. n : Powers(p, n)[i] \in Nat
<1> DEFINE Body(f) == [i \in p + 1 .. n |-> IF i = p + 1 THEN 1 ELSE p * f[i - 1]]
           step == [q \in Nat \X (p + 1 .. n) |-> p * q[1]]
           power == Powers(p, n)
<1>1. \E f : f = Body(f)
  <2>1. step \in StepsOn(Nat, p + 1, n) /\ 1 \in Nat /\ p + 1 \in Int /\ n \in Int
    BY DEF StepsOn
  <2>2. PICK f : IsRun(f, p + 1, n, Nat, 1, step)
    <3> HIDE DEF step
    <3> QED
      BY <2>1, Recursion
  <2>3. ASSUME NEW i \in p + 1 .. n
        PROVE  f[i] = Body(f)[i]
    <3>1. CASE i = p + 1
      BY <2>2, <3>1 DEF IsRun
    <3>2. CASE i # p + 1
      <4>1. i \in (p + 1) + 1 .. n /\ i - 1 \in p + 1 .. n /\ f \in [p + 1 .. n -> Nat]
        BY <2>2, <3>2 DEF IsRun
      <4>2. f[i] = step[<<f[i - 1], i>>] /\ f[i - 1] \in Nat
        BY <2>2, <4>1 DEF IsRun
      <4> QED
        BY <4>2, <3>2
    <3> QED
      BY <3>1, <3>2
  <2>4. f = Body(f)
    BY <2>2, <2>3 DEF IsRun
  <2> QED
    BY <2>4
<1>2. power = Body(power)
  <2>1. power = CHOOSE f : f = Body(f)
    BY DEF Powers
  <2> HIDE DEF Body, power
  <2> QED
    BY <1>1, <2>1
<1>3. /\ power[p + 1] = 1
      /\ \A i \in p + 2 .. n : power[i] = p * power[i - 1]
  <2> HIDE DEF power
  <2> QED
    BY <1>2
<1>4. \A i \in p + 1 .. n : power[i] \in Nat
  <2> DEFINE S == {i \in p + 1 .. n : power[i] \in Nat}
  <2> HIDE DEF power
  <2>1. p + 1 \in S
    BY <1>3
  <2>2. \A i \in (p + 1) + 1 .. n : i - 1 \in S => i \in S
    BY <1>3
  <2>3. p + 1 .. n \subseteq S
    <3>1. p + 1 \in Int /\ n \in Int
      OBVIOUS
    <3> HIDE DEF S
    <3> QED
      BY <2>1, <2>2, <3>1, Upward
  <2> QED
    BY <2>3
<1> QED
  BY <1>3, <1>4

\* A power does not depend on how far the powers are computed.
LEMMA PowersStay ==
    ASSUME NEW p \in Nat \ {0}, NEW n \in Nat, NEW m \in Nat, p + 1 <= m, m <= n
    PROVE  \A i \in p + 1 .. m : Powers(p, n)[i] = Powers(p, m)[i]
<1> DEFINE S == {i \in p + 1 .. m : Powers(p, n)[i] = Powers(p, m)[i]}
<1>1. p + 1 \in S
  BY PowersAre
<1>2. ASSUME NEW i \in (p + 1) + 1 .. m, i - 1 \in S
      PROVE  i \in S
  <2>1. i \in p + 2 .. m /\ i \in p + 2 .. n
    OBVIOUS
  <2> QED
    BY <1>2, <2>1, PowersAre
<1>3. p + 1 .. m \subseteq S
  <2>1. p + 1 \in Int /\ m \in Int
    OBVIOUS
  <2> HIDE DEF S
  <2> QED
    BY <1>1, <1>2, <2>1, Upward
<1> QED
  BY <1>3

\* What the recursion of the scaled averages computes.
LEMMA WilderIs ==
    ASSUME NEW c \in Seq(Nat), NEW p \in Nat \ {0}, NEW sign \in {1, -1}, p + 1 <= Len(c)
    PROVE  /\ Wilder(c, p, sign)[p + 1] = Total(Upto(Moves(c, sign), p))
           /\ \A i \in p + 2 .. Len(c) :
                  Wilder(c, p, sign)[i] = Wilder(c, p, sign)[i - 1] * (p - 1)
                                              + Moves(c, sign)[i - 1] * Powers(p, Len(c))[i]
           /\ \A i \in p + 1 .. Len(c) : Wilder(c, p, sign)[i] \in Nat
<1> DEFINE n == Len(c)
           move == Moves(c, sign)
           power == Powers(p, n)
           base == Total(Upto(move, p))
           Body(f) == [i \in p + 1 .. n |-> IF i = p + 1 THEN base
                                            ELSE f[i - 1] * (p - 1) + move[i - 1] * power[i]]
           step == [q \in Nat \X (p + 1 .. n) |-> q[1] * (p - 1) + move[q[2] - 1] * power[q[2]]]
           avg == Wilder(c, p, sign)
<1>0. n \in Nat /\ p + 1 <= n /\ c # << >>
  OBVIOUS
<1>1. /\ move \in Seq(Nat) /\ Len(move) = n - 1 /\ \A k \in 1 .. n - 1 : move[k] \in Nat
  <2>1. move \in Seq(Nat) /\ Len(move) = n - 1
    BY <1>0, MovesAre
  <2> HIDE DEF move, n
  <2> QED
    BY <1>0, <2>1
<1>2. \A i \in p + 1 .. n : power[i] \in Nat
  BY <1>0, PowersAre
<1>3. base \in Nat
  <2> HIDE DEF move
  <2>1. Upto(move, p) \in Seq(Nat)
    BY <1>0, <1>1, SubSeqProperties DEF Upto
  <2> QED
    BY <2>1, TotalIs
<1>4. avg = CHOOSE f : f = Body(f)
  BY DEF Wilder
<1> HIDE DEF n, move, power, base, avg
<1>5. \E f : f = Body(f)
  <2>1. step \in StepsOn(Nat, p + 1, n) /\ p + 1 \in Int /\ n \in Int
    <3>1. \A i \in p + 1 .. n : power[i] \in Nat /\ move[i - 1] \in Nat
      BY <1>0, <1>1, <1>2
    <3>2. ASSUME NEW a \in Nat, NEW i \in p + 1 .. n
          PROVE  a * (p - 1) + move[i - 1] * power[i] \in Nat
      <4> DEFINE x == a * (p - 1)
                 y == move[i - 1] * power[i]
      <4>1. x \in Nat /\ y \in Nat
        BY <3>1, Product, p - 1 \in Nat
      <4> HIDE DEF x, y
      <4>2. x + y \in Nat
        BY <4>1
      <4> QED
        BY <4>2 DEF x, y
    <3>3. step \in [Nat \X (p + 1 .. n) -> Nat]
      BY <3>2
    <3> QED
      BY <1>0, <3>3 DEF StepsOn
  <2>2. PICK f : IsRun(f, p + 1, n, Nat, base, step)
    <3> HIDE DEF step
    <3> QED
      BY <1>3, <2>1, Recursion
  <2>3. ASSUME NEW i \in p + 1 .. n
        PROVE  f[i] = Body(f)[i]
    <3>1. CASE i = p + 1
      BY <1>0, <2>2, <3>1 DEF IsRun
    <3>2. CASE i # p + 1
      <4>1. i \in (p + 1) + 1 .. n /\ i - 1 \in p + 1 .. n /\ f \in [p + 1 .. n -> Nat]
        BY <1>0, <2>2, <3>2 DEF IsRun
      <4>2. f[i] = step[<<f[i - 1], i>>] /\ f[i - 1] \in Nat
        BY <2>2, <4>1 DEF IsRun
      <4> QED
        BY <4>2, <3>2
    <3> QED
      BY <3>1, <3>2
  <2>4. f = Body(f)
    BY <2>2, <2>3 DEF IsRun
  <2> QED
    BY <2>4
<1>6. avg = Body(avg)
  <2> HIDE DEF Body
  <2> QED
    BY <1>4, <1>5
<1>7. /\ avg[p + 1] = base
      /\ \A i \in p + 2 .. n : avg[i] = avg[i - 1] * (p - 1) + move[i - 1] * power[i]
  BY <1>0, <1>6
<1>8. \A i \in p + 1 .. n : avg[i] \in Nat
  <2> DEFINE S == {i \in p + 1 .. n : avg[i] \in Nat}
  <2>1. p + 1 \in S
    BY <1>0, <1>3, <1>7
  <2>2. ASSUME NEW i \in (p + 1) + 1 .. n, i - 1 \in S
        PROVE  i \in S
    <3>1. i \in p + 2 .. n /\ i \in p + 1 .. n /\ avg[i - 1] \in Nat /\ i - 1 \in 1 .. n - 1
      BY <1>0, <2>2
    <3>2. avg[i] = avg[i - 1] * (p - 1) + move[i - 1] * power[i]
      BY <1>7, <3>1
    <3>3. avg[i - 1] * (p - 1) \in Nat /\ move[i - 1] * power[i] \in Nat
      BY <1>1, <1>2, <3>1, Product, p - 1 \in Nat
    <3> QED
      BY <3>1, <3>2, <3>3
  <2>3. p + 1 .. n \subseteq S
    <3>1. p + 1 \in Int /\ n \in Int
      BY <1>0
    <3> HIDE DEF S
    <3> QED
      BY <2>1, <2>2, <3>1, Upward
  <2> QED
    BY <2>3
<1> QED
  BY <1>7, <1>8 DEF n, move, power, base, avg

\* The average of a candle stays when closes are added after it.
LEMMA WilderStays ==
    ASSUME NEW c \in Seq(Nat), NEW e \in Seq(Nat), Continues(e, c),
           NEW p \in Nat \ {0}, NEW sign \in {1, -1}, p + 1 <= Len(c)
    PROVE  \A i \in p + 1 .. Len(c) : Wilder(e, p, sign)[i] = Wilder(c, p, sign)[i]
<1> DEFINE S == {i \in p + 1 .. Len(c) : Wilder(e, p, sign)[i] = Wilder(c, p, sign)[i]}
           u == Moves(c, sign)
           v == Moves(e, sign)
<1>0. /\ Len(c) \in Nat /\ Len(e) \in Nat /\ Len(c) <= Len(e) /\ p + 1 <= Len(e)
      /\ c # << >> /\ e # << >> /\ \A i \in 1 .. Len(c) : e[i] = c[i]
  BY DEF Continues
<1>1. /\ u \in Seq(Nat) /\ v \in Seq(Nat) /\ Len(u) = Len(c) - 1 /\ Len(v) = Len(e) - 1
      /\ \A k \in 1 .. Len(c) - 1 : v[k] = u[k]
  <2>1. \A k \in 1 .. Len(c) - 1 : e[k] = c[k] /\ e[k + 1] = c[k + 1] /\ k \in 1 .. Len(e) - 1
    BY <1>0
  <2> QED
    <3>1. /\ u \in Seq(Nat) /\ Len(u) = Len(c) - 1
          /\ \A k \in 1 .. Len(c) - 1 : u[k] = Plus(sign * (c[k + 1] - c[k]))
      BY <1>0, MovesAre
    <3>2. /\ v \in Seq(Nat) /\ Len(v) = Len(e) - 1
          /\ \A k \in 1 .. Len(e) - 1 : v[k] = Plus(sign * (e[k + 1] - e[k]))
      BY <1>0, MovesAre
    <3> HIDE DEF u, v
    <3> QED
      BY <2>1, <3>1, <3>2
<1> HIDE DEF u, v
<1>2. Upto(v, p) = Upto(u, p)
  <2>1. /\ Upto(u, p) \in Seq(Nat) /\ Len(Upto(u, p)) = p /\ \A i \in 1 .. p : Upto(u, p)[i] = u[i]
        /\ Upto(v, p) \in Seq(Nat) /\ Len(Upto(v, p)) = p /\ \A i \in 1 .. p : Upto(v, p)[i] = v[i]
    <3>1. p \in 0 .. Len(u) /\ p \in 0 .. Len(v)
      BY <1>0, <1>1
    <3>2. /\ Upto(u, p) \in Seq(Nat) /\ Len(Upto(u, p)) = p /\ \A i \in 1 .. p : Upto(u, p)[i] = u[i]
      BY <1>1, <3>1, UptoIs
    <3>3. /\ Upto(v, p) \in Seq(Nat) /\ Len(Upto(v, p)) = p /\ \A i \in 1 .. p : Upto(v, p)[i] = v[i]
      BY <1>1, <3>1, UptoIs
    <3> QED
      BY <3>2, <3>3
  <2>2. \A i \in 1 .. p : v[i] = u[i]
    <3>1. TAKE i \in 1 .. p
    <3>2. i \in 1 .. Len(c) - 1
      BY <1>0
    <3> QED
      BY <1>1, <3>2
  <2> DEFINE a == Upto(u, p)
             b == Upto(v, p)
  <2>3. a \in Seq(Nat) /\ b \in Seq(Nat) /\ Len(a) = Len(b) /\ \A i \in 1 .. Len(a) : a[i] = b[i]
    BY <2>1, <2>2
  <2> HIDE DEF a, b
  <2>4. a = b
    BY <2>3, SameNumbers
  <2> QED
    BY <2>4 DEF a, b
<1>3. p + 1 \in S
  <2>1. Wilder(c, p, sign)[p + 1] = Total(Upto(u, p))
    BY WilderIs DEF u
  <2>2. Wilder(e, p, sign)[p + 1] = Total(Upto(v, p))
    BY <1>0, WilderIs DEF v
  <2>3. p + 1 \in p + 1 .. Len(c)
    BY <1>0
  <2> QED
    BY <1>2, <2>1, <2>2, <2>3
<1>4. ASSUME NEW i \in (p + 1) + 1 .. Len(c), i - 1 \in S
      PROVE  i \in S
  <2>1. i \in p + 2 .. Len(c) /\ i \in p + 2 .. Len(e) /\ i \in p + 1 .. Len(c) /\ i - 1 \in 1 .. Len(c) - 1
    BY <1>0
  <2>2. Wilder(e, p, sign)[i] = Wilder(e, p, sign)[i - 1] * (p - 1) + v[i - 1] * Powers(p, Len(e))[i]
    BY <1>0, <2>1, WilderIs DEF v
  <2>3. Wilder(c, p, sign)[i] = Wilder(c, p, sign)[i - 1] * (p - 1) + u[i - 1] * Powers(p, Len(c))[i]
    BY <2>1, WilderIs DEF u
  <2>4. Powers(p, Len(e))[i] = Powers(p, Len(c))[i]
    BY <1>0, <2>1, PowersStay
  <2>5. Wilder(e, p, sign)[i - 1] = Wilder(c, p, sign)[i - 1] /\ v[i - 1] = u[i - 1]
    BY <1>1, <1>4, <2>1
  <2> QED
    BY <2>1, <2>2, <2>3, <2>4, <2>5
<1>5. p + 1 .. Len(c) \subseteq S
  <2>1. p + 1 \in Int /\ Len(c) \in Int
    BY <1>0
  <2> HIDE DEF S
  <2> QED
    BY <1>3, <1>4, <2>1, Upward
<1> QED
  BY <1>5

\* The RSI of each candle from its two averages; none before the first period
\* ends.
LEMMA RsiIs ==
    ASSUME NEW c \in Seq(Nat), NEW p \in Nat \ {0}
    PROVE  /\ Rsi(c, p) \in Seq(Int) /\ Len(Rsi(c, p)) = Len(c)
           /\ \A i \in 1 .. Len(c) : i <= p => Rsi(c, p)[i] = NoRsi
           /\ \A i \in 1 .. Len(c) : ~(i <= p) =>
                  Rsi(c, p)[i] = IF Wilder(c, p, -1)[i] = 0 THEN 100
                                 ELSE (100 * Wilder(c, p, 1)[i]) \div (Wilder(c, p, 1)[i] + Wilder(c, p, -1)[i])
<1> DEFINE n == Len(c)
           gain == Wilder(c, p, 1)
           loss == Wilder(c, p, -1)
           f == [i \in 1 .. n |-> IF i <= p THEN NoRsi
                                  ELSE IF loss[i] = 0 THEN 100
                                  ELSE (100 * gain[i]) \div (gain[i] + loss[i])]
<1>1. n \in Nat
  OBVIOUS
<1>2. Rsi(c, p) = Tuple(f, n)
  BY DEF Rsi
<1>3. ASSUME NEW i \in 1 .. n, ~(i <= p)
      PROVE  gain[i] \in Nat /\ loss[i] \in Nat
  <2>1. p + 1 <= n /\ i \in p + 1 .. n
    BY <1>1, <1>3
  <2> QED
    BY <2>1, WilderIs
<1> HIDE DEF gain, loss
<1>4. \A i \in 1 .. n : f[i] \in Int
  <2> SUFFICES ASSUME NEW i \in 1 .. n
               PROVE  f[i] \in Int
    OBVIOUS
  <2>1. CASE i <= p
    BY <2>1 DEF NoRsi
  <2>2. CASE ~(i <= p) /\ loss[i] = 0
    BY <2>2
  <2>3. CASE ~(i <= p) /\ loss[i] # 0
    <3>1. 100 * gain[i] \in Nat /\ gain[i] + loss[i] \in Nat \ {0}
      BY <1>3, <2>3
    <3>2. (100 * gain[i]) \div (gain[i] + loss[i]) \in Int
      BY <3>1
    <3> QED
      BY <2>3, <3>2
  <2> QED
    BY <2>1, <2>2, <2>3
<1>5. DOMAIN f = 1 .. n /\ f = [i \in 1 .. n |-> f[i]]
  OBVIOUS
<1>6. /\ \A i \in 1 .. n : i <= p => f[i] = NoRsi
      /\ \A i \in 1 .. n : ~(i <= p) =>
             f[i] = IF loss[i] = 0 THEN 100 ELSE (100 * gain[i]) \div (gain[i] + loss[i])
  OBVIOUS
<1> HIDE DEF f, n
<1>7. Rsi(c, p) = f /\ f \in Seq(Int) /\ Len(f) = n
  BY <1>1, <1>2, <1>4, <1>5, TupleIs
<1> QED
  BY <1>6, <1>7 DEF n, gain, loss

\* The RSI of a candle stays when candles are added after it: nothing is
\* repainted.
LEMMA RsiStays ==
    ASSUME NEW c \in Seq(Nat), NEW e \in Seq(Nat), Continues(e, c), NEW p \in Nat \ {0}
    PROVE  Continues(Rsi(e, p), Rsi(c, p))
<1>0. Len(c) \in Nat /\ Len(e) \in Nat /\ Len(c) <= Len(e)
  BY DEF Continues
<1>1. ASSUME NEW i \in 1 .. Len(c)
      PROVE  Rsi(e, p)[i] = Rsi(c, p)[i]
  <2>1. i \in 1 .. Len(e)
    BY <1>0
  <2>2. CASE i <= p
    <3>1. Rsi(c, p)[i] = NoRsi
      BY <2>2, RsiIs
    <3>2. Rsi(e, p)[i] = NoRsi
      BY <2>1, <2>2, RsiIs
    <3> QED
      BY <3>1, <3>2
  <2>3. CASE ~(i <= p)
    <3>1. p + 1 <= Len(c) /\ i \in p + 1 .. Len(c)
      BY <1>0, <2>3
    <3>2. Wilder(e, p, 1)[i] = Wilder(c, p, 1)[i] /\ Wilder(e, p, -1)[i] = Wilder(c, p, -1)[i]
      BY <3>1, WilderStays
    <3>3. /\ Rsi(e, p)[i] = IF Wilder(e, p, -1)[i] = 0 THEN 100
                            ELSE (100 * Wilder(e, p, 1)[i]) \div (Wilder(e, p, 1)[i] + Wilder(e, p, -1)[i])
          /\ Rsi(c, p)[i] = IF Wilder(c, p, -1)[i] = 0 THEN 100
                            ELSE (100 * Wilder(c, p, 1)[i]) \div (Wilder(c, p, 1)[i] + Wilder(c, p, -1)[i])
      BY <2>1, <2>3, RsiIs
    <3> QED
      BY <3>2, <3>3
  <2> QED
    BY <2>2, <2>3
<1> QED
  BY <1>0, <1>1, RsiIs DEF Continues

-----------------------------------------------------------------------------
(* The history moves.                                                      *)

\* The next candle of the market continues the history.
LEMMA NextCandleIs ==
    ASSUME part \in Parts, IsHistory(bars), NextCandle
    PROVE  /\ IsHistory(bars') /\ Continues(bars', bars) /\ Len(bars') = Len(bars) + 1
           /\ \E days \in Steps[part] : days \in Nat \ {0} /\ LastDay(bars') = LastDay(bars) + days
           /\ part' = part
<1>1. PICK b \in Candles[part], days \in Steps[part] :
          bars' = Append(bars, [b EXCEPT !.day = LastDay(bars) + days])
  BY DEF NextCandle
<1> DEFINE x == [b EXCEPT !.day = LastDay(bars) + days]
<1>2. b \in CandleSet /\ days \in Nat \ {0} /\ LastDay(bars) \in Nat
  BY SeriesAssumption, HistoryIs
<1>3. x \in CandleSet /\ x.day = LastDay(bars) + days
  BY <1>2 DEF CandleSet
<1> HIDE DEF x
<1>4. LastDay(bars) < x.day
  BY <1>2, <1>3
<1>5. bars' = Append(bars, x)
  BY <1>1 DEF x
<1>6. part' = part
  BY DEF NextCandle
<1> QED
  BY <1>2, <1>3, <1>4, <1>5, <1>6, NextCandleContinues

\* What remains when the oldest candle is out of the window is a history; it
\* starts later.
LEMMA OldestDropsIs ==
    ASSUME IsHistory(bars), OldestDrops
    PROVE  IsHistory(bars') /\ bars' # << >> /\ bars'[1] # bars[1] /\ part' = part
<1>1. bars \in Seq(CandleSet) /\ Len(bars) \in Nat /\ Len(bars) > 1 /\ bars' = Tail(bars) /\ part' = part
  BY HistoryIs DEF OldestDrops
<1> DEFINE t == Tail(bars)
<1>2. t \in Seq(CandleSet) /\ Len(t) = Len(bars) - 1 /\ \A i \in 1 .. Len(t) : t[i] = bars[i + 1]
  BY <1>1
<1> HIDE DEF t
<1>3. ASSUME NEW i \in 1 .. Len(t)
      PROVE  t[i].day > IF i = 1 THEN 0 ELSE t[i - 1].day
  <2>1. i + 1 \in 1 .. Len(bars) /\ i \in 1 .. Len(bars) /\ i < i + 1
    BY <1>1, <1>2
  <2>2. t[i].day = bars[i + 1].day /\ bars[i + 1].day \in Nat \ {0} /\ bars[i].day < bars[i + 1].day
    BY <1>2, <2>1, HistoryIs
  <2>3. i # 1 => t[i - 1].day = bars[i].day
    <3>1. i # 1 => i - 1 \in 1 .. Len(t) /\ (i - 1) + 1 = i
      BY <1>1, <1>2
    <3> QED BY <1>2, <3>1
  <2> QED BY <2>2, <2>3
<1>4. IsHistory(t)
  BY <1>2, <1>3 DEF IsHistory
<1>5. t # << >> /\ t[1] # bars[1]
  <2>1. 1 \in 1 .. Len(t) /\ 1 \in 1 .. Len(bars) /\ 2 \in 1 .. Len(bars) /\ 1 + 1 = 2
    BY <1>1, <1>2
  <2>2. t[1] = bars[2]
    BY <1>2, <2>1
  <2>3. bars[1].day < bars[2].day /\ bars[1].day \in Nat /\ bars[2].day \in Nat
    BY <2>1, HistoryIs
  <2>4. bars[1] # bars[2]
    BY <2>3
  <2> QED BY <1>2, <2>1, <2>2, <2>4
<1> QED BY <1>1, <1>4, <1>5 DEF t

\* The days are the same, and so are the candles but for the last.
SameUntilLast(t, s) ==
    /\ Len(t) = Len(s)
    /\ \A i \in 1 .. Len(s) : t[i].day = s[i].day
    /\ \A i \in 1 .. Len(s) - 1 : t[i] = s[i]

\* The unfinished candle moves, and all else stays.
LEMMA LastCandleMovesIs ==
    ASSUME part \in Parts, IsHistory(bars), LastCandleMoves
    PROVE  /\ IsHistory(bars') /\ SameUntilLast(bars', bars) /\ LastDay(bars') = LastDay(bars)
           /\ part' = part
<1> DEFINE n == Len(bars)
           b == Last(bars)
<1>1. PICK t \in Candles[part] :
          bars' = Append(Front(bars), Candle(b.day, b.o, MaxOf(b.h, t.h), MinOf(b.l, t.l), t.c))
  BY DEF LastCandleMoves
<1> DEFINE e == Candle(b.day, b.o, MaxOf(b.h, t.h), MinOf(b.l, t.l), t.c)
           f == Front(bars)
           w == Append(f, e)
<1>2. bars \in Seq(CandleSet) /\ n \in Nat /\ n \in 1 .. n /\ bars # << >> /\ b = bars[n] /\ part' = part
  BY HistoryIs DEF LastCandleMoves, Last
<1>3. b \in CandleSet /\ t \in CandleSet
  BY <1>2, SeriesAssumption
<1>4. e \in CandleSet /\ e.day = b.day
  <2>1. e = [day |-> b.day, o |-> b.o, h |-> MaxOf(b.h, t.h), l |-> MinOf(b.l, t.l), c |-> t.c]
    BY DEF Candle
  <2> HIDE DEF e, b
  <2>2. /\ b.day \in Nat /\ b.o \in Price /\ b.h \in Price /\ b.l \in Price
        /\ t.h \in Price /\ t.l \in Price /\ t.c \in Price
        /\ b.l <= b.o /\ b.o <= b.h /\ t.l <= t.c /\ t.c <= t.h
    BY <1>3 DEF CandleSet
  <2> QED BY <2>1, <2>2 DEF CandleSet, Price, MaxOf, MinOf
<1>5. /\ f \in Seq(CandleSet) /\ Len(f) = n - 1
      /\ \A i \in 1 .. n - 1 : f[i] = bars[i]
  <2>1. f = Upto(bars, n - 1) /\ n - 1 \in 0 .. Len(bars)
    BY <1>2 DEF Front, Upto
  <2> HIDE DEF f, n
  <2> QED BY <1>2, <2>1, UptoIs
<1> HIDE DEF e, b, f
<1>6. /\ w \in Seq(CandleSet) /\ Len(w) = n /\ w[n] = e
      /\ \A i \in 1 .. n - 1 : w[i] = bars[i]
  BY <1>2, <1>4, <1>5
<1> HIDE DEF w
<1>7. \A i \in 1 .. n : i = n \/ i \in 1 .. n - 1
  BY <1>2
<1>8. \A i \in 1 .. n : w[i].day = bars[i].day
  BY <1>2, <1>4, <1>6, <1>7
<1>9. SameUntilLast(w, bars)
  BY <1>6, <1>8 DEF SameUntilLast
<1>10. ASSUME NEW i \in 1 .. Len(w)
       PROVE  w[i].day > IF i = 1 THEN 0 ELSE w[i - 1].day
  <2>1. i \in 1 .. n /\ (i # 1 => i - 1 \in 1 .. n)
    BY <1>2, <1>6
  <2>2. bars[i].day > IF i = 1 THEN 0 ELSE bars[i - 1].day
    BY <2>1 DEF IsHistory
  <2> QED BY <1>8, <2>1, <2>2
<1>11. IsHistory(w)
  BY <1>6, <1>10 DEF IsHistory
<1>12. LastDay(w) = LastDay(bars)
  BY <1>2, <1>6, <1>8 DEF LastDay
<1> QED BY <1>1, <1>2, <1>9, <1>11, <1>12 DEF w, e, f

\* A day that does not end its period is labelled with a later one.
LEMMA RunningLabel ==
    ASSUME NEW d \in Nat \ {0}, NEW a \in Nat, a % d # 0
    PROVE  a < Label(a, d)
<1> DEFINE p == (a + d - 1) \div d
<1>1. p \in Nat /\ Label(a, d) = p * d /\ a <= p * d /\ p * d \in Nat
  BY LabelIs
<1> HIDE DEF p
<1>2. (p * d) % d = 0
  BY <1>1
<1> QED BY <1>1, <1>2

\* While the last day does not end its period, its candle is in none of the
\* periods that have ended.
LEMMA UnfinishedDay ==
    ASSUME NEW s, IsHistory(s), NEW t, IsHistory(t), SameUntilLast(t, s), LastDay(t) = LastDay(s),
           NEW d \in Nat \ {0}, LastDay(s) % d # 0
    PROVE  Resample(t, d) = Resample(s, d)
<1> DEFINE E == Ends(s, d)
           m == Resample(s, d)
           w == Resample(t, d)
<1>1. /\ Len(s) \in Nat /\ Len(t) = Len(s)
      /\ \A i \in 1 .. Len(s) : t[i].day = s[i].day
      /\ \A i \in 1 .. Len(s) - 1 : t[i] = s[i]
  BY HistoryIs DEF SameUntilLast
<1>2. AllEnds(t, d) = AllEnds(s, d) /\ Ends(t, d) = E
  <2>1. AllEnds(t, d) = AllEnds(s, d)
    BY <1>1 DEF AllEnds
  <2> QED BY <2>1 DEF Ends
<1>3. ASSUME NEW x \in E
      PROVE  PeriodBar(t, d, x) = PeriodBar(s, d, x)
  <2> DEFINE S == InPeriod(s, d, x)
  <2>1. x \in Nat /\ x <= LastDay(s) /\ x \in AllEnds(s, d) /\ LastDay(s) \in Nat
    BY EndsAre, HistoryIs DEF Ends
  <2>2. S # {} /\ S \in SUBSET (1 .. Len(s)) /\ InPeriod(t, d, x) = S
    BY <1>1, <2>1 DEF InPeriod, AllEnds
  <2>3. Min(S) \in S /\ Max(S) \in S
    <3> HIDE DEF S
    <3>1. S \in SUBSET (1 .. Len(s)) /\ S # {} /\ Len(s) \in Nat
      BY <1>1, <2>2
    <3>2. IsFiniteSet(S) /\ S \in SUBSET Nat
      BY <3>1, Places
    <3> QED BY <3>1, <3>2, MinIs, MaxIs
  <2>4. ASSUME NEW i \in S
        PROVE  t[i] = s[i]
    <3>1. i \in 1 .. Len(s) /\ Label(s[i].day, d) = x
      BY DEF InPeriod
    <3>2. i # Len(s)
      <4> SUFFICES ASSUME i = Len(s) PROVE FALSE
        OBVIOUS
      <4>1. s # << >> /\ LastDay(s) = s[i].day
        BY <1>1, <3>1 DEF LastDay
      <4>2. LastDay(s) < x
        BY <2>1, <3>1, <4>1, RunningLabel
      <4> QED BY <2>1, <4>2
    <3>3. i \in 1 .. Len(s) - 1
      BY <1>1, <3>1, <3>2
    <3> QED BY <1>1, <3>3
  <2>5. HighestOf(t, S) = HighestOf(s, S) /\ LowestOf(t, S) = LowestOf(s, S)
    <3> HIDE DEF S
    <3>1. {t[i].h : i \in S} = {s[i].h : i \in S} /\ {t[i].l : i \in S} = {s[i].l : i \in S}
      BY <2>4
    <3> QED BY <3>1 DEF HighestOf, LowestOf
  <2> HIDE DEF S
  <2>6. PeriodBar(t, d, x) = Candle(x, t[Min(S)].o, HighestOf(t, S), LowestOf(t, S), t[Max(S)].c)
    BY <2>2 DEF PeriodBar
  <2>7. PeriodBar(s, d, x) = Candle(x, s[Min(S)].o, HighestOf(s, S), LowestOf(s, S), s[Max(S)].c)
    BY DEF PeriodBar, S
  <2> QED BY <2>3, <2>4, <2>5, <2>6, <2>7
<1>4. m = PeriodBars(s, d, E) /\ w = PeriodBars(t, d, E)
  BY <1>2, ResampleIs
<1>5. E \in SUBSET AllEnds(s, d) /\ E \in SUBSET AllEnds(t, d)
  BY <1>2, EndsAre
<1> HIDE DEF E, m, w
<1>6. /\ Len(m) = Cardinality(E) /\ IsHistory(m)
      /\ \A k \in 1 .. Cardinality(E) : Nth(E, k) \in E /\ m[k] = PeriodBar(s, d, Nth(E, k))
  BY <1>4, <1>5, PeriodBarsAre
<1>7. /\ Len(w) = Cardinality(E) /\ IsHistory(w)
      /\ \A k \in 1 .. Cardinality(E) : w[k] = PeriodBar(t, d, Nth(E, k))
  BY <1>4, <1>5, PeriodBarsAre
<1>8. m \in Seq(CandleSet) /\ w \in Seq(CandleSet) /\ Len(w) = Len(m) /\ \A k \in 1 .. Len(w) : w[k] = m[k]
  BY <1>3, <1>6, <1>7, HistoryIs
<1>9. w = m
  BY <1>8, SameSequence
<1> QED BY <1>9 DEF m, w

-----------------------------------------------------------------------------
(* The elements of a sequence at some places.                              *)

\* The first n numbers are counted by themselves.
LEMMA NthOfRange ==
    ASSUME NEW n \in Nat
    PROVE  /\ IsFiniteSet(1 .. n) /\ Cardinality(1 .. n) = n
           /\ \A k \in 1 .. n : Nth(1 .. n, k) = k
<1>1. \A k \in 0 .. n : IsFiniteSet(1 .. k) /\ Cardinality(1 .. k) = k
  BY FS_Interval
<1>2. \A k \in 1 .. n : Below(1 .. n, k) = 1 .. k
  BY DEF Below
<1>3. \A k \in 1 .. n : Cardinality(Below(1 .. n, k)) = k
  BY <1>1, <1>2
<1>4. IsFiniteSet(1 .. n) /\ Cardinality(1 .. n) = n /\ 1 .. n \in SUBSET Nat
  BY <1>1
<1>5. ASSUME NEW k \in 1 .. n
      PROVE  Nth(1 .. n, k) = k
  <2>1. Nth(1 .. n, Cardinality(Below(1 .. n, k))) = k
    BY <1>4, NthIs
  <2> QED
    BY <2>1, <1>3
<1> QED
  BY <1>4, <1>5

\* Pick keeps the elements at the places, in order.
LEMMA PickIs ==
    ASSUME NEW D, NEW s \in Seq(D), NEW S \in SUBSET (1 .. Len(s))
    PROVE  /\ Cardinality(S) \in Nat
           /\ Pick(s, S) \in Seq(D) /\ Len(Pick(s, S)) = Cardinality(S)
           /\ \A k \in 1 .. Cardinality(S) :
                  Nth(S, k) \in S /\ Nth(S, k) \in 1 .. Len(s) /\ Pick(s, S)[k] = s[Nth(S, k)]
<1> DEFINE n == Cardinality(S)
           f == [k \in 1 .. n |-> s[Nth(S, k)]]
<1>1. IsFiniteSet(S) /\ S \in SUBSET Nat
  BY Places, Len(s) \in Nat
<1>2. n \in Nat
  BY <1>1, FS_CardinalityType
<1>3. \A k \in 1 .. n : Nth(S, k) \in S /\ Nth(S, k) \in 1 .. Len(s)
  BY <1>1, NthIs
<1>4. \A k \in 1 .. n : f[k] \in D
  BY <1>3
<1>5. Tuple(f, n) = f /\ Len(f) = n /\ f \in Seq(D)
  <2>1. DOMAIN f = 1 .. n /\ f = [k \in 1 .. n |-> f[k]]
    OBVIOUS
  <2> HIDE DEF f, n
  <2> QED
    BY <1>2, <1>4, <2>1, TupleIs
<1>6. Pick(s, S) = Tuple(f, n)
  BY DEF Pick
<1> QED
  BY <1>2, <1>3, <1>5, <1>6

\* Picking the first places is taking the beginning.
LEMMA PickBeginning ==
    ASSUME NEW D, NEW s \in Seq(D), NEW n \in 0 .. Len(s)
    PROVE  /\ Pick(s, 1 .. n) \in Seq(D) /\ Len(Pick(s, 1 .. n)) = n
           /\ \A k \in 1 .. n : Pick(s, 1 .. n)[k] = s[k]
<1>1. n \in Nat /\ 1 .. n \in SUBSET (1 .. Len(s))
  OBVIOUS
<1>2. Cardinality(1 .. n) = n /\ \A k \in 1 .. n : Nth(1 .. n, k) = k
  BY <1>1, NthOfRange
<1>3. /\ Pick(s, 1 .. n) \in Seq(D) /\ Len(Pick(s, 1 .. n)) = Cardinality(1 .. n)
      /\ \A k \in 1 .. Cardinality(1 .. n) : Pick(s, 1 .. n)[k] = s[Nth(1 .. n, k)]
  BY <1>1, PickIs
<1> QED
  BY <1>2, <1>3

\* Picking every place leaves the sequence as it is.
LEMMA PickAll ==
    ASSUME NEW D, NEW s \in Seq(D)
    PROVE  Pick(s, 1 .. Len(s)) = s
<1>1. Len(s) \in 0 .. Len(s)
  OBVIOUS
<1>2. /\ Pick(s, 1 .. Len(s)) \in Seq(D) /\ Len(Pick(s, 1 .. Len(s))) = Len(s)
      /\ \A k \in 1 .. Len(s) : Pick(s, 1 .. Len(s))[k] = s[k]
  BY <1>1, PickBeginning
<1> QED
  BY <1>2, SameSequence
=============================================================================
