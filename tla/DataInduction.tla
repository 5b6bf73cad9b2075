--------------------------- MODULE DataInduction ---------------------------
(***************************************************************************)
(* Induction over numbers and over finite sets, with the property that is   *)
(* proved given as the set of what has it, and functions that are defined   *)
(* by recursion over numbers.                                               *)
(***************************************************************************)
EXTENDS Integers, FiniteSets, FiniteSetTheorems, TLAPS

\* Descent: among the subsets of Nat of the form 0..m, with m outside of the
\* set, there is a least one.
LEMMA NatSetInduction ==
  ASSUME NEW T, 0 \in T, \A n \in Nat : n \in T => n + 1 \in T
  PROVE  \A n \in Nat : n \in T
<1>. SUFFICES ASSUME NEW n \in Nat, n \notin T PROVE FALSE
  OBVIOUS
<1>. DEFINE Out == {m \in Nat : m \notin T}
            Below == {0..m : m \in Out}
<1>1. IsWellFoundedOn(StrictSubsetOrdering(Nat), FiniteSubsetsOf(Nat))
  BY FS_StrictSubsetOrderingWellFounded
<1>2. Below \subseteq FiniteSubsetsOf(Nat) /\ Below # {}
  <2>1. ASSUME NEW m \in Nat PROVE 0..m \in FiniteSubsetsOf(Nat)
    <3>1. IsFiniteSet(0..m)
      BY FS_Interval
    <3>. QED  BY <3>1 DEF FiniteSubsetsOf
  <2>2. 0..n \in Below
    OBVIOUS
  <2>. QED  BY <2>1, <2>2
<1>3. PICK B \in Below : \A C \in Below : <<C, B>> \notin StrictSubsetOrdering(Nat)
  BY <1>1, <1>2, WFMin
<1>4. PICK m \in Nat : B = 0..m /\ m \notin T
  OBVIOUS
<1>5. m # 0 /\ m - 1 \in Nat /\ m - 1 \notin T
  BY <1>4
<1>6. 0..(m - 1) \in Below
  BY <1>5
<1>7. <<0..(m - 1), 0..m>> \in StrictSubsetOrdering(Nat)
  <2>1. m \in 0..m /\ m \notin 0..(m - 1)
    BY <1>5
  <2>2. 0..(m - 1) \subseteq 0..m /\ 0..m \subseteq Nat
    BY <1>5
  <2>. QED  BY <2>1, <2>2 DEF StrictSubsetOrdering
<1>. QED  BY <1>3, <1>4, <1>6, <1>7

\* The same up to a bound.
LEMMA RangeSetInduction ==
  ASSUME NEW n \in Nat, NEW T, 0 \in T,
         \A i \in 0..(n - 1) : i \in T => i + 1 \in T
  PROVE  \A i \in 0..n : i \in T
<1>. DEFINE U == {i \in Nat : i <= n => i \in T}
<1>1. 0 \in U
  OBVIOUS
<1>2. \A i \in Nat : i \in U => i + 1 \in U
  OBVIOUS
<1>3. \A i \in Nat : i \in U
  <2>. HIDE DEF U
  <2>. QED  BY <1>1, <1>2, NatSetInduction
<1>. QED  BY <1>3

\* What holds of a set if it holds of its strict subsets holds of all subsets
\* of a finite set.
LEMMA SubsetInduction ==
  ASSUME NEW S, IsFiniteSet(S), NEW T,
         \A U \in SUBSET S : (\A V \in SUBSET U : V # U => V \in T) => U \in T
  PROVE  \A U \in SUBSET S : U \in T
<1>. SUFFICES ASSUME NEW W \in SUBSET S, W \notin T PROVE FALSE
  OBVIOUS
<1>. DEFINE Out == {U \in SUBSET S : U \notin T}
<1>1. IsWellFoundedOn(StrictSubsetOrdering(S), FiniteSubsetsOf(S))
  BY FS_StrictSubsetOrderingWellFounded
<1>2. Out \subseteq FiniteSubsetsOf(S) /\ Out # {}
  BY FS_FiniteSubsetsOfFinite
<1>3. PICK U \in Out : \A V \in Out : <<V, U>> \notin StrictSubsetOrdering(S)
  <2>. HIDE DEF Out
  <2>. QED  BY <1>1, <1>2, WFMin
<1>4. PICK V \in SUBSET U : V # U /\ V \notin T
  OBVIOUS
<1>5. V \in Out /\ <<V, U>> \in StrictSubsetOrdering(S)
  BY <1>3, <1>4 DEF StrictSubsetOrdering
<1>. QED  BY <1>3, <1>5

\* f goes on from its value before; it takes out one element at a time.
Stepwise(f, n, base, step) ==
  f = [i \in 0..n |-> IF i = 0 THEN base ELSE step[<<i, f[i - 1]>>]]

Elementwise(f, S, base, pick, step) ==
  f = [U \in SUBSET S |-> IF U = {} THEN base
                          ELSE step[<<pick[U], f[U \ {pick[U]}]>>]]

\* A function that goes on from its value before, by a step that stays in a
\* set, exists, and the equation that defines it holds.
LEMMA StepwiseFunction ==
  ASSUME NEW n \in Nat, NEW D, NEW base \in D, NEW step \in [(1..n) \X D -> D]
  PROVE  \E f \in [0..n -> D] : Stepwise(f, n, base, step)
<1>. DEFINE Goes(f, m) == f = [i \in 0..m |-> IF i = 0 THEN base ELSE step[<<i, f[i - 1]>>]]
            T == {m \in 0..n : \E f \in [0..m -> D] : Goes(f, m)}
<1>1. 0 \in T
  <2>. DEFINE g == [i \in 0..0 |-> base]
  <2>1. g \in [0..0 -> D] /\ Goes(g, 0)
    OBVIOUS
  <2>2. 0 \in 0..n
    OBVIOUS
  <2>. QED  BY <2>1, <2>2
<1>2. ASSUME NEW m \in 0..(n - 1), m \in T PROVE m + 1 \in T
  <2>1. PICK f \in [0..m -> D] : Goes(f, m)
    BY <1>2
  <2>. DEFINE g == [i \in 0..(m + 1) |-> IF i = m + 1 THEN step[<<i, f[m]>>] ELSE f[i]]
  <2>2. f[m] \in D /\ <<m + 1, f[m]>> \in (1..n) \X D
    BY <1>2
  <2>3. g \in [0..(m + 1) -> D]
    BY <2>2
  <2>4. \A i \in 0..m : g[i] = f[i] /\ f[i] = IF i = 0 THEN base ELSE step[<<i, f[i - 1]>>]
    BY <2>1
  <2>5. \A i \in 0..(m + 1) : g[i] = IF i = 0 THEN base ELSE step[<<i, g[i - 1]>>]
    <3>. TAKE i \in 0..(m + 1)
    <3>1. CASE i = m + 1
      <4>1. i # 0 /\ i - 1 = m /\ m \in 0..m
        BY <3>1
      <4>2. g[i - 1] = f[m]
        BY <2>4, <4>1
      <4>. QED  BY <3>1, <4>1, <4>2
    <3>2. CASE i = 0
      <4>1. i \in 0..m
        BY <3>2
      <4>. QED  BY <2>4, <3>2, <4>1
    <3>3. CASE i \in 1..m
      <4>1. i \in 0..m /\ i - 1 \in 0..m /\ i # 0
        BY <3>3
      <4>. QED  BY <2>4, <3>3, <4>1
    <3>. QED  BY <3>1, <3>2, <3>3
  <2>6. Goes(g, m + 1)
    BY <2>3, <2>5
  <2>7. m + 1 \in 0..n
    BY <1>2
  <2>. QED  BY <2>3, <2>6, <2>7
<1>3. \A m \in 0..n : m \in T
  <2>. HIDE DEF T
  <2>. QED  BY <1>1, <1>2, RangeSetInduction
<1>4. n \in T
  BY <1>3
<1>. QED  BY <1>4 DEF Stepwise

\* The same without a bound.
StepwiseAlways(f, base, step) ==
  f = [i \in Nat |-> IF i = 0 THEN base ELSE step[<<i, f[i - 1]>>]]

LEMMA StepwiseAlwaysFunction ==
  ASSUME NEW D, NEW base \in D, NEW step \in [(Nat \ {0}) \X D -> D]
  PROVE  \E f \in [Nat -> D] : StepwiseAlways(f, base, step)
<1>. DEFINE Goes(f, n) == f \in [0..n -> D] /\ Stepwise(f, n, base, step)
            F(n) == CHOOSE f : Goes(f, n)
            g == [n \in Nat |-> F(n)[n]]
<1>1. ASSUME NEW n \in Nat PROVE \E f : Goes(f, n)
  <2>. DEFINE part == [x \in (1..n) \X D |-> step[x]]
  <2>1. part \in [(1..n) \X D -> D]
    <3>1. (1..n) \X D \subseteq (Nat \ {0}) \X D
      OBVIOUS
    <3>. QED  BY <3>1
  <2>2. PICK f \in [0..n -> D] : Stepwise(f, n, base, part)
    <3>. HIDE DEF part
    <3>. QED  BY <2>1, StepwiseFunction
  <2>3. f = [i \in 0..n |-> IF i = 0 THEN base ELSE part[<<i, f[i - 1]>>]]
    BY <2>2 DEF Stepwise
  <2>4. \A i \in 0..n : i # 0 => part[<<i, f[i - 1]>>] = step[<<i, f[i - 1]>>]
    <3>1. \A i \in 0..n : i # 0 => i \in 1..n /\ i - 1 \in 0..n
      OBVIOUS
    <3>2. \A i \in 0..n : i # 0 => <<i, f[i - 1]>> \in (1..n) \X D
      BY <3>1
    <3>. QED  BY <3>2
  <2>. HIDE DEF part
  <2>5. Stepwise(f, n, base, step)
    BY <2>3, <2>4 DEF Stepwise
  <2>. QED  BY <2>5
<1>2. \A n \in Nat : Goes(F(n), n)
  <2>. HIDE DEF Goes
  <2>. QED  BY <1>1
<1>. HIDE DEF F
<1>3. \A n \in Nat : \A i \in 0..n :
        /\ F(n)[i] \in D
        /\ F(n)[i] = IF i = 0 THEN base ELSE step[<<i, F(n)[i - 1]>>]
  BY <1>2 DEF Stepwise
<1>4. ASSUME NEW m \in Nat, NEW n \in Nat, m <= n PROVE F(n)[m] = F(m)[m]
  <2>. DEFINE T == {i \in 0..m : F(n)[i] = F(m)[i]}
  <2>1. 0 \in T
    <3>1. 0 \in 0..m /\ 0 \in 0..n
      OBVIOUS
    <3>. QED  BY <1>3, <3>1
  <2>2. ASSUME NEW i \in 0..(m - 1), i \in T PROVE i + 1 \in T
    <3>1. i + 1 \in 0..m /\ i + 1 \in 0..n /\ i + 1 # 0 /\ (i + 1) - 1 = i
      BY <1>4
    <3>2. F(n)[i + 1] = step[<<i + 1, F(n)[i]>>] /\ F(m)[i + 1] = step[<<i + 1, F(m)[i]>>]
      BY <1>3, <3>1
    <3>. QED  BY <2>2, <3>1, <3>2
  <2>3. \A i \in 0..m : i \in T
    <3>. HIDE DEF T
    <3>. QED  BY <2>1, <2>2, RangeSetInduction
  <2>. QED  BY <2>3
<1>5. g \in [Nat -> D]
  <2>1. \A n \in Nat : n \in 0..n
    OBVIOUS
  <2>. QED  BY <1>3, <2>1
<1>6. ASSUME NEW n \in Nat PROVE g[n] = IF n = 0 THEN base ELSE step[<<n, g[n - 1]>>]
  <2>1. n \in 0..n /\ (n # 0 => n - 1 \in Nat /\ n - 1 <= n)
    OBVIOUS
  <2>2. n # 0 => F(n)[n - 1] = g[n - 1]
    BY <1>4, <2>1
  <2>3. F(n)[n] = IF n = 0 THEN base ELSE step[<<n, F(n)[n - 1]>>]
    BY <1>3, <2>1
  <2>. QED  BY <2>2, <2>3
<1>. HIDE DEF g
<1>7. StepwiseAlways(g, base, step)
  BY <1>5, <1>6 DEF StepwiseAlways
<1>. QED  BY <1>5, <1>7

\* A function of subsets that takes out one element at a time, as a fold does,
\* exists, and the equation that defines it holds.
LEMMA ElementwiseFunction ==
  ASSUME NEW S, IsFiniteSet(S), NEW D, NEW base \in D,
         NEW pick, \A U \in SUBSET S : U # {} => pick[U] \in U,
         NEW step \in [S \X D -> D]
  PROVE  \E f \in [SUBSET S -> D] : Elementwise(f, S, base, pick, step)
<1>. DEFINE UpTo(m) == {U \in SUBSET S : Cardinality(U) <= m}
            Goes(f, m) == f = [U \in UpTo(m) |-> IF U = {} THEN base
                                 ELSE step[<<pick[U], f[U \ {pick[U]}]>>]]
            n == Cardinality(S)
            T == {m \in 0..n : \E f \in [UpTo(m) -> D] : Goes(f, m)}
<1>1. n \in Nat /\ \A U \in SUBSET S : Cardinality(U) \in 0..n /\ (Cardinality(U) = 0 <=> U = {})
  <2>1. n \in Nat
    BY FS_CardinalityType
  <2>2. ASSUME NEW U \in SUBSET S
        PROVE  Cardinality(U) \in 0..n /\ (Cardinality(U) = 0 <=> U = {})
    <3>1. IsFiniteSet(U) /\ Cardinality(U) <= n
      BY FS_Subset
    <3>2. Cardinality(U) \in Nat /\ (Cardinality(U) = 0 <=> U = {})
      BY <3>1, FS_CardinalityType, FS_EmptySet
    <3>. QED  BY <2>1, <3>1, <3>2
  <2>. QED  BY <2>1, <2>2
<1>2. \A U \in SUBSET S : U # {} =>
        /\ U \ {pick[U]} \in SUBSET S /\ pick[U] \in S
        /\ Cardinality(U \ {pick[U]}) = Cardinality(U) - 1
  <2>. SUFFICES ASSUME NEW U \in SUBSET S, U # {}
                PROVE  /\ U \ {pick[U]} \in SUBSET S /\ pick[U] \in S
                       /\ Cardinality(U \ {pick[U]}) = Cardinality(U) - 1
    OBVIOUS
  <2>1. IsFiniteSet(U)
    BY FS_Subset
  <2>. QED  BY <2>1, FS_RemoveElement
<1>3. 0 \in T
  <2>. DEFINE g == [U \in UpTo(0) |-> base]
  <2>1. \A U \in UpTo(0) : U = {}
    BY <1>1
  <2>2. Goes(g, 0)
    BY <2>1
  <2>3. g \in [UpTo(0) -> D] /\ 0 \in 0..n
    BY <1>1
  <2>. QED  BY <2>2, <2>3
<1>4. ASSUME NEW m \in 0..(n - 1), m \in T PROVE m + 1 \in T
  <2>1. PICK f \in [UpTo(m) -> D] : Goes(f, m)
    BY <1>4
  <2>. DEFINE g == [U \in UpTo(m + 1) |->
                      IF Cardinality(U) = m + 1
                      THEN step[<<pick[U], f[U \ {pick[U]}]>>] ELSE f[U]]
  <2>2. m \in Nat
    BY <1>1
  <2>3. \A U \in UpTo(m + 1) : U # {} => U \ {pick[U]} \in UpTo(m) /\ pick[U] \in S
    BY <1>1, <1>2, <2>2
  <2>4. \A U \in UpTo(m) : g[U] = f[U] /\ U \in UpTo(m + 1)
    BY <1>1, <2>2
  <2>5. \A U \in UpTo(m + 1) : Cardinality(U) # m + 1 => U \in UpTo(m)
    BY <1>1, <2>2
  <2>6. \A U \in UpTo(m + 1) : Cardinality(U) = m + 1 => U # {}
    BY <1>1, <2>2
  <2>7. g \in [UpTo(m + 1) -> D]
    <3>. HIDE DEF UpTo
    <3>. QED  BY <2>3, <2>5, <2>6
  <2>8. \A U \in UpTo(m) : f[U] = IF U = {} THEN base ELSE step[<<pick[U], f[U \ {pick[U]}]>>]
    <3>. HIDE DEF UpTo
    <3>. QED  BY <2>1
  <2>9. \A U \in UpTo(m + 1) : g[U] = IF U = {} THEN base
                                      ELSE step[<<pick[U], g[U \ {pick[U]}]>>]
    <3>. TAKE U \in UpTo(m + 1)
    <3>1. CASE Cardinality(U) = m + 1
      <4>1. U # {} /\ g[U] = step[<<pick[U], f[U \ {pick[U]}]>>]
        BY <3>1, <2>6
      <4>2. g[U \ {pick[U]}] = f[U \ {pick[U]}]
        BY <2>3, <2>4, <4>1
      <4>. QED  BY <4>1, <4>2
    <3>2. CASE Cardinality(U) # m + 1
      <4>1. U \in UpTo(m) /\ g[U] = f[U]
        BY <3>2, <2>5
      <4>2. CASE U = {}
        BY <2>8, <4>1, <4>2
      <4>3. CASE U # {}
        <5>1. g[U \ {pick[U]}] = f[U \ {pick[U]}]
          BY <2>3, <2>4, <4>3
        <5>. QED  BY <2>8, <4>1, <4>3, <5>1
      <4>. QED  BY <4>2, <4>3
    <3>. QED  BY <3>1, <3>2
  <2>10. Goes(g, m + 1)
    <3>. HIDE DEF UpTo
    <3>1. g = [U \in UpTo(m + 1) |-> g[U]]
      OBVIOUS
    <3>. HIDE DEF g
    <3>. QED  BY <3>1, <2>9
  <2>11. m + 1 \in 0..n
    BY <1>1
  <2>. QED  BY <2>7, <2>10, <2>11
<1>5. \A m \in 0..n : m \in T
  <2>. HIDE DEF T, n
  <2>. QED  BY <1>1, <1>3, <1>4, RangeSetInduction
<1>6. UpTo(n) = SUBSET S
  BY <1>1
<1>7. \E f \in [UpTo(n) -> D] : Goes(f, n)
  <2>1. n \in T
    <3>. HIDE DEF T, n
    <3>. QED  BY <1>1, <1>5
  <2>. QED  BY <2>1
<1>8. PICK f \in [UpTo(n) -> D] : Goes(f, n)
  BY <1>7
<1>9. f \in [SUBSET S -> D] /\ f = [U \in SUBSET S |-> IF U = {} THEN base
                                   ELSE step[<<pick[U], f[U \ {pick[U]}]>>]]
  <2>. HIDE DEF UpTo, n
  <2>. QED  BY <1>6, <1>8 DEF Goes
<1>. QED  BY <1>9 DEF Elementwise
=============================================================================
