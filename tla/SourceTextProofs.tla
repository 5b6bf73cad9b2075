--------------------------- MODULE SourceTextProofs ---------------------------
(***************************************************************************)
(* For every file and every limit: the prepared text has the lines that a   *)
(* reader keeps who goes through the file once, and a preview of it is      *)
(* either all of the first lines or cut to its limit.                       *)
(***************************************************************************)
EXTENDS SourceText, DataInduction, SequenceTheorems

-----------------------------------------------------------------------------
(* The members of a set of positions, in their order.                         *)

Before(S, i) == {j \in S : j < i}

LEMMA BeforeIsFinite ==
  ASSUME NEW n \in Nat, NEW S \in SUBSET (0..n)
  PROVE  /\ IsFiniteSet(S) /\ Cardinality(S) \in Nat
         /\ \A i \in S : /\ Cardinality(Before(S, i)) \in Nat
                         /\ Cardinality(Before(S, i)) < Cardinality(S)
<1>1. IsFiniteSet(S)
  <2>1. IsFiniteSet(0..n)
    BY FS_Interval
  <2>. QED  BY <2>1, FS_Subset
<1>2. Cardinality(S) \in Nat
  BY <1>1, FS_CardinalityType
<1>3. ASSUME NEW i \in S
      PROVE  /\ Cardinality(Before(S, i)) \in Nat
             /\ Cardinality(Before(S, i)) < Cardinality(S)
  <2>1. Before(S, i) \in SUBSET S /\ i \notin Before(S, i)
    BY DEF Before
  <2>2. /\ IsFiniteSet(Before(S, i)) /\ Cardinality(Before(S, i)) <= Cardinality(S)
        /\ Cardinality(Before(S, i)) # Cardinality(S)
    BY <1>1, <2>1, FS_Subset
  <2>3. Cardinality(Before(S, i)) \in Nat
    BY <2>2, FS_CardinalityType
  <2>. QED  BY <1>2, <2>2, <2>3
<1>. QED  BY <1>1, <1>2, <1>3

LEMMA BeforeIsOne ==
  ASSUME NEW n \in Nat, NEW S \in SUBSET (0..n), NEW i \in S, NEW j \in S,
         Cardinality(Before(S, i)) = Cardinality(Before(S, j))
  PROVE  i = j
<1>1. ASSUME NEW a \in S, NEW b \in S, Cardinality(Before(S, a)) = Cardinality(Before(S, b))
      PROVE  ~(a < b)
  <2>. SUFFICES ASSUME a < b PROVE FALSE
    OBVIOUS
  <2>0. \A k \in S : k \in Int
    OBVIOUS
  <2>1. Before(S, a) \in SUBSET Before(S, b) /\ a \in Before(S, b) /\ a \notin Before(S, a)
    <3>1. \A k \in S : k < a => k < b
      BY <2>0
    <3>2. ~(a < a)
      BY <2>0
    <3>. QED  BY <3>1, <3>2 DEF Before
  <2>2. IsFiniteSet(Before(S, b))
    <3>1. Before(S, b) \in SUBSET S
      BY DEF Before
    <3>. QED  BY <3>1, BeforeIsFinite, FS_Subset
  <2>. QED  BY <1>1, <2>1, <2>2, FS_Subset
<1>2. ~(i < j) /\ ~(j < i)
  BY <1>1
<1>. QED  BY <1>2

\* With one position more that is behind the others.
LEMMA BeforeGrows ==
  ASSUME NEW n \in Nat, NEW S \in SUBSET (0..n), NEW x \in Nat, \A i \in S : i < x
  PROVE  /\ Cardinality(S \cup {x}) = Cardinality(S) + 1
         /\ \A i \in S : Before(S \cup {x}, i) = Before(S, i)
         /\ Before(S \cup {x}, x) = S
<1>1. x \notin S
  OBVIOUS
<1>2. Cardinality(S \cup {x}) = Cardinality(S) + 1
  BY <1>1, BeforeIsFinite, FS_AddElement
<1>3. \A i \in S : i \in Int /\ i < x /\ ~(x < i) /\ ~(x < x)
  OBVIOUS
<1>4. ASSUME NEW i \in S PROVE Before(S \cup {x}, i) = Before(S, i)
  BY <1>3, Zenon DEF Before
<1>5. Before(S \cup {x}, x) = S
  <2>1. \A j \in S : j < x
    OBVIOUS
  <2>2. ~(x < x)
    OBVIOUS
  <2>3. \A j : j \in Before(S \cup {x}, x) <=> j \in S
    BY <2>1, <2>2, Zenon DEF Before
  <2>. QED  BY <2>3, Zenon
<1>. QED  BY <1>2, <1>4, <1>5

LEMMA BeforeExists ==
  ASSUME NEW n \in Nat
  PROVE  \A S \in SUBSET (0..n) : \A k \in 1..Cardinality(S) :
           \E i \in S : Cardinality(Before(S, i)) = k - 1
<1>. DEFINE T == {m \in Nat : \A S \in SUBSET (0..m) : \A k \in 1..Cardinality(S) :
                                \E i \in S : Cardinality(Before(S, i)) = k - 1}
<1>1. ASSUME NEW m \in Nat, NEW S \in SUBSET (0..m),
             \A U \in SUBSET (0..m) : m \notin U =>
               \A k \in 1..Cardinality(U) : \E i \in U : Cardinality(Before(U, i)) = k - 1
      PROVE  \A k \in 1..Cardinality(S) : \E i \in S : Cardinality(Before(S, i)) = k - 1
  <2>1. CASE m \notin S
    BY <1>1, <2>1
  <2>2. CASE m \in S
    <3>. DEFINE U == S \ {m}
    <3>1. U \in SUBSET (0..m) /\ m \notin U /\ S = U \cup {m} /\ \A i \in U : i < m
      BY <2>2
    <3>. HIDE DEF U
    <3>2. /\ Cardinality(S) = Cardinality(U) + 1
          /\ \A i \in U : Before(S, i) = Before(U, i)
          /\ Before(S, m) = U
      BY <3>1, BeforeGrows
    <3>3. Cardinality(U) \in Nat
      BY <3>1, BeforeIsFinite
    <3>. TAKE k \in 1..Cardinality(S)
    <3>4. CASE k = Cardinality(U) + 1
      <4>1. Cardinality(Before(S, m)) = k - 1
        BY <3>2, <3>3, <3>4
      <4>. QED  BY <2>2, <4>1
    <3>5. CASE k # Cardinality(U) + 1
      <4>1. k \in 1..Cardinality(U)
        BY <3>2, <3>3, <3>5
      <4>2. PICK i \in U : Cardinality(Before(U, i)) = k - 1
        BY <1>1, <3>1, <4>1
      <4>. QED  BY <3>1, <3>2, <4>2
    <3>. QED  BY <3>4, <3>5
  <2>. QED  BY <2>1, <2>2
<1>2. 0 \in T
  <2>1. \A U \in SUBSET (0..0) : 0 \notin U => U = {}
    OBVIOUS
  <2>2. \A k : k \notin 1..Cardinality({})
    BY FS_EmptySet
  <2>3. \A U \in SUBSET (0..0) : 0 \notin U =>
          \A k \in 1..Cardinality(U) : \E i \in U : Cardinality(Before(U, i)) = k - 1
    BY <2>1, <2>2
  <2>4. 0 \in Nat
    OBVIOUS
  <2>. QED  BY <1>1, <2>3, <2>4
<1>3. ASSUME NEW m \in Nat, m \in T PROVE m + 1 \in T
  <2>1. \A U \in SUBSET (0..(m + 1)) : m + 1 \notin U => U \in SUBSET (0..m)
    OBVIOUS
  <2>2. \A U \in SUBSET (0..(m + 1)) : m + 1 \notin U =>
          \A k \in 1..Cardinality(U) : \E i \in U : Cardinality(Before(U, i)) = k - 1
    BY <1>3, <2>1
  <2>3. m + 1 \in Nat
    OBVIOUS
  <2>. QED  BY <1>1, <2>2, <2>3
<1>4. \A m \in Nat : m \in T
  <2>. HIDE DEF T
  <2>. QED  BY <1>2, <1>3, NatSetInduction
<1>. QED  BY <1>4

LEMMA NthIs ==
  ASSUME NEW n \in Nat, NEW S \in SUBSET (0..n), NEW k \in 1..Cardinality(S)
  PROVE  /\ Nth(S, k) \in S
         /\ Cardinality(Before(S, Nth(S, k))) = k - 1
         /\ \A i \in S : Cardinality(Before(S, i)) = k - 1 => i = Nth(S, k)
<1>1. \E i \in S : Cardinality({j \in S : j < i}) = k - 1
  BY BeforeExists DEF Before
<1>2. Nth(S, k) \in S /\ Cardinality({j \in S : j < Nth(S, k)}) = k - 1
  BY <1>1 DEF Nth
<1>3. Cardinality(Before(S, Nth(S, k))) = k - 1
  BY <1>2 DEF Before
<1>. QED  BY <1>2, <1>3, BeforeIsOne

LEMMA NthGrows ==
  ASSUME NEW n \in Nat, NEW S \in SUBSET (0..n), NEW x \in Nat, \A i \in S : i < x
  PROVE  /\ Cardinality(S \cup {x}) = Cardinality(S) + 1
         /\ \A k \in 1..Cardinality(S) : Nth(S \cup {x}, k) = Nth(S, k)
         /\ Nth(S \cup {x}, Cardinality(S) + 1) = x
<1>. DEFINE U == S \cup {x}
<1>1. /\ Cardinality(U) = Cardinality(S) + 1
      /\ \A i \in S : Before(U, i) = Before(S, i)
      /\ Before(U, x) = S
  BY BeforeGrows
<1>2. PICK m \in Nat : U \in SUBSET (0..m)
  <2>. DEFINE m == IF n < x THEN x ELSE n
  <2>1. m \in Nat /\ U \in SUBSET (0..m)
    OBVIOUS
  <2>. HIDE DEF m, U
  <2>. QED  BY <2>1
<1>3. S \subseteq U /\ x \in U /\ Cardinality(S) \in Nat
  BY BeforeIsFinite
<1>. HIDE DEF U
<1>4. ASSUME NEW k \in 1..Cardinality(S) PROVE Nth(U, k) = Nth(S, k)
  <2>1. Nth(S, k) \in S /\ Cardinality(Before(S, Nth(S, k))) = k - 1
    BY NthIs
  <2>2. k \in 1..Cardinality(U)
    BY <1>1, <1>3
  <2>3. Nth(S, k) \in U /\ Cardinality(Before(U, Nth(S, k))) = k - 1
    BY <1>1, <1>3, <2>1
  <2>. QED  BY <1>2, <2>2, <2>3, NthIs
<1>5. Nth(U, Cardinality(S) + 1) = x
  <2>1. PICK k : k = Cardinality(S) + 1
    OBVIOUS
  <2>2. k \in 1..Cardinality(U) /\ Cardinality(Before(U, x)) = k - 1
    BY <1>1, <1>3, <2>1
  <2>3. x = Nth(U, k)
    BY <1>2, <1>3, <2>2, NthIs
  <2>. QED  BY <2>1, <2>3
<1>. QED  BY <1>1, <1>4, <1>5 DEF U

LEMMA PickedIs ==
  ASSUME NEW D, NEW t \in Seq(D), NEW S \in SUBSET DOMAIN t
  PROVE  /\ Picked(t, S) \in Seq(D) /\ Len(Picked(t, S)) = Cardinality(S)
         /\ Cardinality(S) \in Nat /\ S \in SUBSET (0..Len(t))
         /\ Picked(t, S) = <<>> <=> S = {}
<1>1. S \in SUBSET (0..Len(t)) /\ Len(t) \in Nat
  OBVIOUS
<1>2. Cardinality(S) \in Nat /\ IsFiniteSet(S)
  BY <1>1, BeforeIsFinite
<1>3. \A k \in 1..Cardinality(S) : t[Nth(S, k)] \in D
  <2>1. \A k \in 1..Cardinality(S) : Nth(S, k) \in S
    BY <1>1, NthIs
  <2>. QED  BY <2>1
<1>4. Picked(t, S) \in [1..Cardinality(S) -> D]
  BY <1>3 DEF Picked
<1>5. Picked(t, S) \in Seq(D) /\ Len(Picked(t, S)) = Cardinality(S)
  BY <1>2, <1>4, IsASeq, LenProperties
<1>6. Picked(t, S) = <<>> <=> Cardinality(S) = 0
  BY <1>2, <1>5
<1>. QED  BY <1>1, <1>2, <1>5, <1>6, FS_EmptySet

LEMMA PickedGrows ==
  ASSUME NEW D, NEW t \in Seq(D), NEW S \in SUBSET DOMAIN t, NEW x \in D
  PROVE  /\ Picked(Append(t, x), S) = Picked(t, S)
         /\ \A w, U : w = Picked(t, S) /\ U = S \cup {Len(t) + 1}
                      => Picked(Append(t, x), U) = Append(w, x)
<1>. DEFINE u == Append(t, x)
            n == Len(t)
            c == Cardinality(S)
<1>1. /\ u \in Seq(D) /\ Len(u) = n + 1 /\ n \in Nat /\ DOMAIN t = 1..n
      /\ u[n + 1] = x /\ \A i \in 1..n : u[i] = t[i]
  OBVIOUS
<1>2. /\ S \in SUBSET (0..n) /\ c \in Nat /\ Picked(t, S) \in Seq(D) /\ Len(Picked(t, S)) = c
      /\ \A k \in 1..c : Nth(S, k) \in S
  <2>1. S \in SUBSET (0..n) /\ c \in Nat /\ Picked(t, S) \in Seq(D) /\ Len(Picked(t, S)) = c
    BY PickedIs
  <2>. QED  BY <1>1, <2>1, NthIs
<1>3. /\ Cardinality(S \cup {n + 1}) = c + 1
      /\ \A k \in 1..c : Nth(S \cup {n + 1}, k) = Nth(S, k)
      /\ Nth(S \cup {n + 1}, c + 1) = n + 1
  <2>1. n + 1 \in Nat /\ \A i \in S : i < n + 1
    BY <1>1
  <2>. QED  BY <1>1, <1>2, <2>1, NthGrows
<1>. HIDE DEF u, n, c
<1>4. \A k \in 1..c : u[Nth(S, k)] = t[Nth(S, k)]
  BY <1>1, <1>2
<1>5. Picked(u, S) = Picked(t, S)
  BY <1>4 DEF Picked, c
<1>6. Picked(u, S \cup {n + 1}) = [k \in 1..(c + 1) |-> IF k = c + 1 THEN x ELSE t[Nth(S, k)]]
  <2>1. \A k \in 1..(c + 1) : k = c + 1 \/ k \in 1..c
    BY <1>2
  <2>2. \A k \in 1..(c + 1) : u[Nth(S \cup {n + 1}, k)] = IF k = c + 1 THEN x ELSE t[Nth(S, k)]
    BY <1>1, <1>3, <1>4, <2>1
  <2>. QED  BY <1>3, <2>2 DEF Picked
<1>7. Append(Picked(t, S), x) = [k \in 1..(c + 1) |-> IF k = c + 1 THEN x ELSE t[Nth(S, k)]]
  <2>1. \A k \in 1..c : Picked(t, S)[k] = t[Nth(S, k)]
    BY DEF Picked, c
  <2>2. /\ DOMAIN Append(Picked(t, S), x) = 1..(c + 1)
        /\ \A k \in 1..(c + 1) : Append(Picked(t, S), x)[k]
                                 = IF k = c + 1 THEN x ELSE Picked(t, S)[k]
        /\ Append(Picked(t, S), x)
             = [k \in DOMAIN Append(Picked(t, S), x) |-> Append(Picked(t, S), x)[k]]
    <3>1. PICK w : w = Picked(t, S)
      OBVIOUS
    <3>2. w \in Seq(D) /\ Len(w) = c
      BY <1>2, <3>1
    <3>3. Append(w, x) \in Seq(D) /\ Len(Append(w, x)) = c + 1
      BY <3>2
    <3>4. \A k \in 1..(c + 1) : Append(w, x)[k] = IF k = c + 1 THEN x ELSE w[k]
      BY <1>2, <3>2
    <3>5. Append(w, x) \in [1..(c + 1) -> D]
      BY <3>3, LenProperties
    <3>. QED  BY <3>1, <3>4, <3>5
  <2>3. \A k \in 1..(c + 1) : k = c + 1 \/ k \in 1..c
    BY <1>2
  <2>4. PICK v : v = Append(Picked(t, S), x)
    OBVIOUS
  <2>5. v = [k \in 1..(c + 1) |-> v[k]]
    BY <2>2, <2>4
  <2>6. \A k \in 1..(c + 1) : v[k] = IF k = c + 1 THEN x ELSE t[Nth(S, k)]
    BY <2>1, <2>2, <2>3, <2>4
  <2>7. v = [k \in 1..(c + 1) |-> IF k = c + 1 THEN x ELSE t[Nth(S, k)]]
    BY <2>5, <2>6, Zenon
  <2>. QED  BY <2>4, <2>7
<1>. QED  BY <1>5, <1>6, <1>7 DEF u, n

-----------------------------------------------------------------------------
(* The mark, and the ends of lines.                                           *)

Texts == Seq(Characters)

LEMMA WithoutMarkGrows ==
  ASSUME NEW t \in Texts, NEW c \in Characters
  PROVE  /\ WithoutMark(t) \in Texts
         /\ \A w : w = WithoutMark(t) =>
              WithoutMark(Append(t, c)) = IF t = <<>> /\ c = "bom" THEN w ELSE Append(w, c)
<1>. USE DEF Texts
<1>1. CASE t = <<>>
  <2>1. Append(t, c) = <<c>> /\ Tail(<<c>>) = <<>> /\ WithoutMark(t) = <<>>
    BY <1>1 DEF WithoutMark
  <2>2. WithoutMark(Append(t, c)) = IF c = "bom" THEN <<>> ELSE <<c>>
    BY <2>1 DEF WithoutMark
  <2>. QED  BY <1>1, <2>1, <2>2
<1>2. CASE t # <<>> /\ t[1] = "bom"
  <2>1. Append(t, c) # <<>> /\ Append(t, c)[1] = t[1]
    BY <1>2
  <2>2. Tail(t) \in Texts
    BY <1>2
  <2>3. Tail(Append(t, c)) = Append(Tail(t), c)
    BY <1>2
  <2>. QED  BY <1>2, <2>1, <2>2, <2>3 DEF WithoutMark
<1>3. CASE t # <<>> /\ t[1] # "bom"
  <2>1. Append(t, c) # <<>> /\ Append(t, c)[1] = t[1]
    BY <1>3
  <2>. QED  BY <1>3, <2>1 DEF WithoutMark
<1>. QED  BY <1>1, <1>2, <1>3

EndOfLine(c) == IF c = "cr" THEN "lf" ELSE c
Left(t)  == {i \in DOMAIN t : ~(i > 1 /\ t[i] = "lf" /\ t[i - 1] = "cr")}
Ended(w) == [k \in 1..Len(w) |-> EndOfLine(w[k])]

LEMMA EndedGrows ==
  ASSUME NEW w \in Texts, NEW c \in Characters
  PROVE  /\ Ended(w) \in Texts
         /\ \A e : e = Ended(w) => Ended(Append(w, c)) = Append(e, EndOfLine(c))
<1>. USE DEF Texts
<1>1. \A x \in Characters : EndOfLine(x) \in Characters
  BY DEF EndOfLine, Characters, Blank
<1>2. Len(w) \in Nat /\ \A k \in 1..Len(w) : w[k] \in Characters
  OBVIOUS
<1>3. Ended(w) \in [1..Len(w) -> Characters]
  BY <1>1, <1>2 DEF Ended
<1>4. Ended(w) \in Texts /\ Len(Ended(w)) = Len(w)
  BY <1>2, <1>3, IsASeq, LenProperties
<1>5. /\ Append(w, c) \in Texts /\ Len(Append(w, c)) = Len(w) + 1
      /\ \A k \in 1..(Len(w) + 1) : Append(w, c)[k] \in Characters
      /\ \A k \in 1..(Len(w) + 1) : Append(w, c)[k] = IF k = Len(w) + 1 THEN c ELSE w[k]
  BY <1>2
<1>6. Ended(Append(w, c)) \in [1..(Len(w) + 1) -> Characters]
  BY <1>1, <1>5 DEF Ended
<1>7. Ended(Append(w, c)) \in Texts /\ Len(Ended(Append(w, c))) = Len(w) + 1
  BY <1>2, <1>6, IsASeq, LenProperties
<1>8. Append(Ended(w), EndOfLine(c)) \in Texts /\ Len(Append(Ended(w), EndOfLine(c))) = Len(w) + 1
  BY <1>1, <1>4
<1>9. ASSUME NEW k \in 1..(Len(w) + 1)
      PROVE  Ended(Append(w, c))[k] = Append(Ended(w), EndOfLine(c))[k]
  <2>1. Ended(Append(w, c))[k] = EndOfLine(Append(w, c)[k])
    BY <1>5 DEF Ended
  <2>2. CASE k = Len(w) + 1
    BY <1>4, <1>5, <2>1, <2>2
  <2>3. CASE k # Len(w) + 1
    <3>1. k \in 1..Len(w)
      BY <1>2, <2>3
    <3>2. Ended(w)[k] = EndOfLine(w[k])
      BY <3>1 DEF Ended
    <3>3. Append(Ended(w), EndOfLine(c))[k] = Ended(w)[k]
      BY <1>4, <3>1
    <3>. QED  BY <1>5, <2>1, <2>3, <3>2, <3>3
  <2>. QED  BY <2>2, <2>3
<1>. QED  BY <1>4, <1>7, <1>8, <1>9, SeqEqual

LEMMA LineFeedsGrow ==
  ASSUME NEW t \in Texts, NEW c \in Characters
  PROVE  /\ LineFeeds(t) \in Texts
         /\ \A w : w = LineFeeds(t) =>
              LineFeeds(Append(t, c)) = IF t # <<>> /\ c = "lf" /\ t[Len(t)] = "cr" THEN w
                                        ELSE Append(w, EndOfLine(c))
<1>. DEFINE n == Len(t)
            u == Append(t, c)
<1>1. /\ n \in Nat /\ DOMAIN t = 1..n /\ DOMAIN u = 1..(n + 1) /\ u \in Texts
      /\ u[n + 1] = c /\ \A i \in 1..n : u[i] = t[i]
      /\ t # <<>> <=> n > 0
  BY DEF Texts
<1>2. ASSUME NEW w \in Texts
      PROVE  LineFeeds(w) = Ended(Picked(w, Left(w))) /\ Picked(w, Left(w)) \in Texts
  <2>1. Left(w) \in SUBSET DOMAIN w
    BY DEF Left
  <2>2. Picked(w, Left(w)) \in Texts /\ Len(Picked(w, Left(w))) = Cardinality(Left(w))
    BY <2>1, PickedIs DEF Texts
  <2>. QED  BY <2>2 DEF LineFeeds, Ended, EndOfLine, Left
<1>. HIDE DEF u, n
<1>3. Left(u) = Left(t) \cup IF n > 0 /\ c = "lf" /\ t[n] = "cr" THEN {} ELSE {n + 1}
  <2>1. ASSUME NEW i \in 1..n PROVE i \in Left(u) <=> i \in Left(t)
    <3>1. i \in 1..(n + 1) /\ u[i] = t[i] /\ (i > 1 => i - 1 \in 1..n)
      BY <1>1
    <3>2. i > 1 => u[i - 1] = t[i - 1]
      BY <1>1, <3>1
    <3>. QED  BY <1>1, <3>1, <3>2 DEF Left
  <2>2. n + 1 \in Left(u) <=> ~(n > 0 /\ c = "lf" /\ t[n] = "cr")
    <3>1. n + 1 \in 1..(n + 1) /\ (n + 1 > 1 <=> n > 0) /\ (n + 1) - 1 = n /\ (n > 0 => n \in 1..n)
      BY <1>1
    <3>2. n > 0 => u[n] = t[n]
      BY <1>1, <3>1
    <3>. QED  BY <1>1, <3>1, <3>2 DEF Left
  <2>3. \A i \in 1..(n + 1) : i \in 1..n \/ i = n + 1
    BY <1>1
  <2>4. Left(u) \subseteq 1..(n + 1) /\ Left(t) \subseteq 1..n /\ n + 1 \notin 1..n
    BY <1>1 DEF Left
  <2>. QED  BY <2>1, <2>2, <2>3, <2>4
<1>3a. PICK w : w = Picked(t, Left(t))
  OBVIOUS
<1>4. Picked(u, Left(t)) = w /\ Picked(u, Left(t) \cup {n + 1}) = Append(w, c)
  <2>1. Left(t) \in SUBSET DOMAIN t
    BY DEF Left
  <2>2. t \in Seq(Characters)
    BY DEF Texts
  <2>3. Picked(Append(t, c), Left(t)) = w
    BY <1>3a, <2>1, <2>2, PickedGrows
  <2>4. Picked(Append(t, c), Left(t) \cup {Len(t) + 1}) = Append(w, c)
    BY <1>3a, <2>1, <2>2, PickedGrows
  <2>. QED  BY <2>3, <2>4 DEF u, n
<1>5. LineFeeds(t) \in Texts
  BY <1>2, EndedGrows
<1>6. CASE n > 0 /\ c = "lf" /\ t[n] = "cr"
  <2>1. LineFeeds(u) = LineFeeds(t)
    <3>1. Left(u) = Left(t)
      BY <1>3, <1>6
    <3>. QED  BY <1>1, <1>2, <1>3a, <1>4, <3>1
  <2>. QED  BY <1>1, <1>5, <1>6, <2>1 DEF u, n
<1>7. CASE ~(n > 0 /\ c = "lf" /\ t[n] = "cr")
  <2>1. Left(u) = Left(t) \cup {n + 1}
    BY <1>3, <1>7
  <2>2. Picked(u, Left(u)) = Append(w, c)
    BY <1>4, <2>1
  <2>3. PICK e : e = Ended(w)
    OBVIOUS
  <2>4. w \in Texts /\ e = LineFeeds(t)
    BY <1>2, <1>3a, <2>3
  <2>5. Ended(Append(w, c)) = Append(e, EndOfLine(c))
    BY <2>3, <2>4, EndedGrows
  <2>6. LineFeeds(u) = Append(e, EndOfLine(c))
    BY <1>1, <1>2, <2>2, <2>5
  <2>. QED  BY <1>1, <1>5, <1>7, <2>4, <2>6 DEF u, n
<1>. QED  BY <1>6, <1>7
-----------------------------------------------------------------------------
(* Lines.                                                                     *)

\* Of a text and of one that is a character longer, the same is cut out.
LEMMA CutGrows ==
  ASSUME NEW D, NEW t \in Seq(D), NEW x \in D, NEW a \in Nat \ {0}, a <= Len(t) + 1,
         NEW b \in Int, b <= Len(t)
  PROVE  /\ SubSeq(t, a, b) \in Seq(D)
         /\ SubSeq(Append(t, x), a, b) = SubSeq(t, a, b)
         /\ \A w, m : w = SubSeq(t, a, Len(t)) /\ m = Len(t) + 1
                      => SubSeq(Append(t, x), a, m) = Append(w, x)
<1>. DEFINE u == Append(t, x)
            n == Len(t)
<1>1. /\ n \in Nat /\ u \in Seq(D) /\ Len(u) = n + 1
      /\ u[n + 1] = x /\ \A i \in 1..n : u[i] = t[i] /\ t[i] \in D
  OBVIOUS
<1>. HIDE DEF u, n
<1>2. ASSUME NEW e \in Int, e <= n
      PROVE  /\ SubSeq(t, a, e) \in Seq(D) /\ SubSeq(u, a, e) \in Seq(D)
             /\ Len(SubSeq(t, a, e)) = IF a <= e THEN e - a + 1 ELSE 0
             /\ SubSeq(u, a, e) = SubSeq(t, a, e)
             /\ \A i \in 1..(e - a + 1) : SubSeq(t, a, e)[i] = t[a + i - 1]
  <2>1. \A i \in a..e : t[i] \in D /\ u[i] = t[i]
    <3>1. \A i \in a..e : i \in 1..n
      BY <1>1, <1>2
    <3>. QED  BY <1>1, <3>1
  <2>2. \A i \in a..e : u[i] \in D
    BY <2>1
  <2>3. /\ SubSeq(t, a, e) \in Seq(D) /\ Len(SubSeq(t, a, e)) = IF a <= e THEN e - a + 1 ELSE 0
        /\ \A i \in 1..(e - a + 1) : SubSeq(t, a, e)[i] = t[a + i - 1]
    BY <2>1, SubSeqProperties
  <2>4. /\ SubSeq(u, a, e) \in Seq(D) /\ Len(SubSeq(u, a, e)) = IF a <= e THEN e - a + 1 ELSE 0
        /\ \A i \in 1..(e - a + 1) : SubSeq(u, a, e)[i] = u[a + i - 1]
    BY <2>2, SubSeqProperties
  <2>5. Len(SubSeq(t, a, e)) = Len(SubSeq(u, a, e))
    BY <2>3, <2>4
  <2>6. \A i \in 1..Len(SubSeq(u, a, e)) : i \in 1..(e - a + 1) /\ a + i - 1 \in a..e
    BY <2>4
  <2>7. \A i \in 1..Len(SubSeq(u, a, e)) : SubSeq(u, a, e)[i] = SubSeq(t, a, e)[i]
    BY <2>1, <2>3, <2>4, <2>6
  <2>8. SubSeq(u, a, e) = SubSeq(t, a, e)
    <3>. HIDE DEF u
    <3>. QED  BY <2>3, <2>4, <2>5, <2>7, SeqEqual
  <2>. QED  BY <2>3, <2>4, <2>8
<1>3. ASSUME NEW w, w = SubSeq(t, a, n), NEW m, m = n + 1
      PROVE  SubSeq(u, a, m) = Append(w, x)
  <2>1. n \in Int /\ n <= n
    BY <1>1
  <2>2. /\ w \in Seq(D) /\ Len(w) = (IF a <= n THEN n - a + 1 ELSE 0)
        /\ \A i \in 1..(n - a + 1) : w[i] = t[a + i - 1]
    BY <1>2, <1>3, <2>1
  <2>3. Len(w) = n + 1 - a
    BY <1>1, <2>2 DEF n
  <2>4. \A i \in a..m : i \in 1..(n + 1)
    BY <1>1, <1>3
  <2>5. \A i \in a..m : u[i] \in D
    BY <1>1, <2>4
  <2>6. m \in Int /\ a <= m /\ m - a + 1 = Len(w) + 1
    BY <1>1, <1>3, <2>3 DEF n
  <2>7. /\ SubSeq(u, a, m) \in Seq(D) /\ Len(SubSeq(u, a, m)) = Len(w) + 1
        /\ \A i \in 1..(Len(w) + 1) : SubSeq(u, a, m)[i] = u[a + i - 1]
    BY <2>5, <2>6, SubSeqProperties
  <2>8. /\ Append(w, x) \in Seq(D) /\ Len(Append(w, x)) = Len(w) + 1
        /\ Append(w, x)[Len(w) + 1] = x /\ \A i \in 1..Len(w) : Append(w, x)[i] = w[i]
    BY <2>2
  <2>9. ASSUME NEW i \in 1..(Len(w) + 1)
        PROVE  SubSeq(u, a, m)[i] = Append(w, x)[i]
    <3>1. CASE i = Len(w) + 1
      <4>1. a + i - 1 = n + 1
        BY <1>1, <2>3, <3>1
      <4>. QED  BY <1>1, <2>7, <2>8, <3>1, <4>1
    <3>2. CASE i # Len(w) + 1
      <4>1. i \in 1..Len(w) /\ i \in 1..(n - a + 1) /\ a + i - 1 \in 1..n
        BY <1>1, <2>2, <2>3, <3>2
      <4>. QED  BY <1>1, <2>2, <2>7, <2>8, <4>1
    <3>. QED  BY <3>1, <3>2
  <2>10. PICK v : v = SubSeq(u, a, m)
    OBVIOUS
  <2>11. PICK v1 : v1 = Append(w, x)
    OBVIOUS
  <2>12. /\ v \in Seq(D) /\ v1 \in Seq(D) /\ Len(v) = Len(v1)
         /\ \A i \in 1..Len(v) : v[i] = v1[i]
    BY <2>7, <2>8, <2>9, <2>10, <2>11
  <2>13. v = v1
    BY <2>12, SeqEqual
  <2>. QED  BY <2>10, <2>11, <2>13
<1>4. b \in Int /\ b <= n
  BY DEF n
<1>. QED  BY <1>2, <1>3, <1>4 DEF u, n

Feeds(t) == {0} \cup {i \in DOMAIN t : t[i] = "lf"}

\* Where line k ends.
LineEnd(t, k) ==
  (IF k = Cardinality(Feeds(t)) THEN Len(t) + 1 ELSE Nth(Feeds(t), k + 1)) - 1

LEMMA LinesAre ==
  ASSUME NEW t \in Texts
  PROVE  /\ Feeds(t) \in SUBSET (0..Len(t)) /\ Cardinality(Feeds(t)) \in Nat \ {0}
         /\ \A k \in 1..Cardinality(Feeds(t)) : /\ Nth(Feeds(t), k) \in 0..Len(t)
                                                /\ LineEnd(t, k) \in Int /\ LineEnd(t, k) <= Len(t)
         /\ Lines(t) = [k \in 1..Cardinality(Feeds(t)) |->
                          SubSeq(t, Nth(Feeds(t), k) + 1, LineEnd(t, k))]
         /\ Lines(t) \in Seq(Texts) /\ Len(Lines(t)) = Cardinality(Feeds(t))
<1>. DEFINE n == Len(t)
            c == Cardinality(Feeds(t))
            cuts == {0, Len(t) + 1} \cup {i \in DOMAIN t : t[i] = "lf"}
<1>1. n \in Nat /\ DOMAIN t = 1..n /\ t \in Seq(Characters)
  BY DEF Texts
<1>2. /\ Feeds(t) \in SUBSET (0..n) /\ 0 \in Feeds(t) /\ n + 1 \in Nat
      /\ \A i \in Feeds(t) : i < n + 1
  BY <1>1 DEF Feeds
<1>3. cuts = Feeds(t) \cup {n + 1}
  BY DEF Feeds
<1>4. c \in Nat \ {0}
  <2>1. IsFiniteSet(Feeds(t)) /\ c \in Nat
    BY <1>1, <1>2, BeforeIsFinite
  <2>. QED  BY <1>2, <2>1, FS_EmptySet
<1>. HIDE DEF n
<1>5. /\ Cardinality(cuts) = c + 1
      /\ \A k \in 1..c : Nth(cuts, k) = Nth(Feeds(t), k)
      /\ Nth(cuts, c + 1) = n + 1
  <2>. HIDE DEF cuts
  <2>. QED  BY <1>1, <1>2, <1>3, NthGrows
<1>6. \A k \in 1..c : Nth(Feeds(t), k) \in 0..n
  BY <1>1, <1>2, NthIs
<1>7. ASSUME NEW k \in 1..c
      PROVE  /\ Nth(cuts, k) = Nth(Feeds(t), k) /\ Nth(cuts, k + 1) - 1 = LineEnd(t, k)
             /\ LineEnd(t, k) \in Int /\ LineEnd(t, k) <= n
  <2>. HIDE DEF cuts
  <2>1. CASE k = c
    BY <1>1, <1>5, <2>1 DEF LineEnd, n
  <2>2. CASE k # c
    <3>1. k + 1 \in 1..c
      BY <1>4, <2>2
    <3>2. Nth(cuts, k + 1) = Nth(Feeds(t), k + 1) /\ Nth(Feeds(t), k + 1) \in 0..n
      BY <1>5, <1>6, <3>1
    <3>. QED  BY <1>1, <1>5, <2>2, <3>2 DEF LineEnd
  <2>. QED  BY <2>1, <2>2
<1>8. Lines(t) = [k \in 1..c |-> SubSeq(t, Nth(Feeds(t), k) + 1, LineEnd(t, k))]
  <2>1. Lines(t) = [k \in 1..(Cardinality(cuts) - 1) |->
                      SubSeq(t, Nth(cuts, k) + 1, Nth(cuts, k + 1) - 1)]
    BY DEF Lines
  <2>2. Cardinality(cuts) - 1 = c
    BY <1>4, <1>5
  <2>. HIDE DEF cuts, c
  <2>. QED  BY <1>7, <2>1, <2>2
<1>9. ASSUME NEW k \in 1..c PROVE SubSeq(t, Nth(Feeds(t), k) + 1, LineEnd(t, k)) \in Texts
  <2>1. \A i \in 1..n : t[i] \in Characters
    BY <1>1
  <2>2. PICK a, b : a = Nth(Feeds(t), k) /\ b = LineEnd(t, k)
    OBVIOUS
  <2>3. a \in 0..n /\ b \in Int /\ b <= n
    BY <1>6, <1>7, <2>2
  <2>4. \A i \in (a + 1)..b : i \in 1..n
    BY <1>1, <2>3
  <2>5. a + 1 \in Int /\ \A i \in (a + 1)..b : t[i] \in Characters
    BY <2>1, <2>3, <2>4
  <2>6. SubSeq(t, a + 1, b) \in Texts
    BY <2>3, <2>5, SubSeqProperties DEF Texts
  <2>. QED  BY <2>2, <2>6
<1>10. Lines(t) \in [1..c -> Texts]
  BY <1>8, <1>9
<1>11. Lines(t) \in Seq(Texts) /\ Len(Lines(t)) = c
  BY <1>4, <1>10, IsASeq, LenProperties
<1>. QED  BY <1>2, <1>4, <1>6, <1>7, <1>8, <1>11 DEF n

\* The lines of t are ls, and l behind them.
Reads(t, ls, l) == Lines(t) = Append(ls, l)

LEMMA LinesGrow ==
  ASSUME NEW t \in Texts, NEW x \in Characters, NEW ls \in Seq(Texts), NEW l \in Texts,
         Reads(t, ls, l)
  PROVE  /\ x # "lf" => \A m : m = Append(l, x) => Reads(Append(t, x), ls, m)
         /\ x = "lf" => \A m : m = Append(ls, l) => Reads(Append(t, x), m, <<>>)
<1>. DEFINE u == Append(t, x)
            n == Len(t)
            c == Cardinality(Feeds(t))
            first(k) == Nth(Feeds(t), k) + 1
<1>1. /\ n \in Nat /\ DOMAIN t = 1..n /\ u \in Texts /\ Len(u) = n + 1 /\ DOMAIN u = 1..(n + 1)
      /\ u[n + 1] = x /\ \A i \in 1..n : u[i] = t[i]
  BY DEF Texts
<1>2. /\ Feeds(t) \in SUBSET (0..n) /\ c \in Nat \ {0}
      /\ \A k \in 1..c : /\ first(k) \in Nat \ {0} /\ first(k) <= n + 1
                         /\ LineEnd(t, k) \in Int /\ LineEnd(t, k) <= n
      /\ Lines(t) = [k \in 1..c |-> SubSeq(t, first(k), LineEnd(t, k))]
      /\ Lines(t) \in Seq(Texts) /\ Len(Lines(t)) = c
  <2>1. /\ Feeds(t) \in SUBSET (0..n) /\ c \in Nat \ {0}
        /\ \A k \in 1..c : /\ Nth(Feeds(t), k) \in 0..n
                           /\ LineEnd(t, k) \in Int /\ LineEnd(t, k) <= n
        /\ Lines(t) = [k \in 1..c |-> SubSeq(t, first(k), LineEnd(t, k))]
        /\ Lines(t) \in Seq(Texts) /\ Len(Lines(t)) = c
    BY LinesAre
  <2>2. \A i \in 0..n : i + 1 \in Nat \ {0} /\ i + 1 <= n + 1
    BY <1>1
  <2>. QED  BY <2>1, <2>2
<1>3. /\ Len(ls) + 1 = c /\ \A k \in 1..Len(ls) : Lines(t)[k] = ls[k]
      /\ Lines(t)[c] = l /\ Len(ls) \in Nat
  <2>1. PICK a : a = Append(ls, l)
    OBVIOUS
  <2>2. /\ a \in Seq(Texts) /\ Len(a) = Len(ls) + 1 /\ Len(ls) \in Nat
        /\ a[Len(ls) + 1] = l /\ \A k \in 1..Len(ls) : a[k] = ls[k]
    BY <2>1
  <2>3. a = Lines(t)
    BY <2>1 DEF Reads
  <2>. QED  BY <1>2, <2>2, <2>3
<1>. HIDE DEF u, n
<1>4. ASSUME NEW k \in 1..c
      PROVE  /\ SubSeq(u, first(k), LineEnd(t, k)) = Lines(t)[k]
             /\ LineEnd(t, k) = n => \A m, e : m = Append(Lines(t)[k], x) /\ e = n + 1
                                               => SubSeq(u, first(k), e) = m
  <2>1. PICK a, b, w : a = first(k) /\ b = LineEnd(t, k) /\ w = Lines(t)[k]
    OBVIOUS
  <2>2. /\ a \in Nat \ {0} /\ a <= Len(t) + 1 /\ b \in Int /\ b <= Len(t)
        /\ w = SubSeq(t, a, b)
    BY <1>2, <2>1 DEF n
  <2>. HIDE DEF first, c
  <2>3. t \in Seq(Characters)
    BY DEF Texts
  <2>4. SubSeq(u, a, b) = w
    BY <2>2, <2>3, CutGrows DEF u
  <2>5. b = n => \A e : e = n + 1 => SubSeq(u, a, e) = Append(w, x)
    BY <2>2, <2>3, CutGrows DEF u, n
  <2>. QED  BY <2>1, <2>4, <2>5
<1>5. LineEnd(t, c) = n
  BY <1>1 DEF LineEnd, n
<1>6. /\ Cardinality(Feeds(u)) \in Nat
      /\ Lines(u) = [k \in 1..Cardinality(Feeds(u)) |->
                       SubSeq(u, Nth(Feeds(u), k) + 1, LineEnd(u, k))]
      /\ Lines(u) \in Seq(Texts) /\ Len(Lines(u)) = Cardinality(Feeds(u))
  BY <1>1, LinesAre
<1>7. ASSUME x # "lf", NEW m, m = Append(l, x) PROVE Reads(u, ls, m)
  <2>1. Feeds(u) = Feeds(t)
    <3>1. \A i : i \in 1..(n + 1) <=> i \in 1..n \/ i = n + 1
      BY <1>1
    <3>. QED  BY <1>1, <1>7, <3>1 DEF Feeds
  <2>2. ASSUME NEW k \in 1..c PROVE LineEnd(u, k) = IF k = c THEN n + 1 ELSE LineEnd(t, k)
    BY <1>1, <2>1 DEF LineEnd
  <2>3. ASSUME NEW k \in 1..c PROVE Lines(u)[k] = IF k = c THEN m ELSE Lines(t)[k]
    <3>1. Lines(u)[k] = SubSeq(u, first(k), LineEnd(u, k))
      BY <1>6, <2>1
    <3>. HIDE DEF first
    <3>2. CASE k = c
      <4>1. SubSeq(u, first(c), n + 1) = m
        <5>1. c \in 1..c
          BY <1>2
        <5>2. m = Append(Lines(t)[c], x)
          BY <1>3, <1>7
        <5>. QED  BY <1>4, <1>5, <5>1, <5>2
      <4>. QED  BY <2>2, <3>1, <3>2, <4>1
    <3>3. CASE k # c
      BY <1>4, <2>2, <3>1, <3>3
    <3>. QED  BY <3>2, <3>3
  <2>4. PICK a : a = Append(ls, m)
    OBVIOUS
  <2>5. /\ a \in Seq(Texts) /\ Len(a) = c /\ a[c] = m /\ \A k \in 1..Len(ls) : a[k] = ls[k]
    <3>1. m \in Texts
      BY <1>7 DEF Texts
    <3>. QED  BY <1>2, <1>3, <2>4, <3>1
  <2>6. PICK b : b = Lines(u)
    OBVIOUS
  <2>7. b \in Seq(Texts) /\ Len(b) = c
    BY <1>6, <2>1, <2>6
  <2>8. \A k \in 1..c : k = c \/ k \in 1..Len(ls)
    BY <1>2, <1>3
  <2>9. \A k \in 1..c : b[k] = a[k]
    BY <1>3, <2>3, <2>5, <2>6, <2>8
  <2>10. a = b
    BY <2>5, <2>7, <2>9, SeqEqual
  <2>. QED  BY <2>4, <2>6, <2>10 DEF Reads
<1>8. ASSUME x = "lf", NEW m, m = Append(ls, l) PROVE Reads(u, m, <<>>)
  <2>1. Feeds(u) = Feeds(t) \cup {n + 1}
    <3>1. \A i : i \in 1..(n + 1) <=> i \in 1..n \/ i = n + 1
      BY <1>1
    <3>. QED  BY <1>1, <1>8, <3>1 DEF Feeds
  <2>2. /\ Cardinality(Feeds(u)) = c + 1
        /\ \A k \in 1..c : Nth(Feeds(u), k) = Nth(Feeds(t), k)
        /\ Nth(Feeds(u), c + 1) = n + 1
    <3>1. PICK e \in Nat : e = n + 1
      BY <1>1
    <3>2. \A i \in Feeds(t) : i < e
      BY <1>1, <1>2, <3>1
    <3>3. /\ Cardinality(Feeds(t) \cup {e}) = Cardinality(Feeds(t)) + 1
          /\ \A k \in 1..Cardinality(Feeds(t)) : Nth(Feeds(t) \cup {e}, k) = Nth(Feeds(t), k)
          /\ Nth(Feeds(t) \cup {e}, Cardinality(Feeds(t)) + 1) = e
      BY <1>1, <1>2, <3>2, NthGrows
    <3>. QED  BY <2>1, <3>1, <3>3
  <2>3. ASSUME NEW k \in 1..c PROVE LineEnd(u, k) = LineEnd(t, k)
    <3>1. k # c + 1 /\ (k # c => k + 1 \in 1..c)
      BY <1>2
    <3>2. CASE k = c
      BY <2>2, <3>1, <3>2, <1>1, <1>5 DEF LineEnd
    <3>3. CASE k # c
      BY <2>2, <3>1, <3>3 DEF LineEnd
    <3>. QED  BY <3>2, <3>3
  <2>4. ASSUME NEW k \in 1..c PROVE Lines(u)[k] = Lines(t)[k]
    <3>1. k \in 1..(c + 1)
      BY <1>2
    <3>2. Lines(u)[k] = SubSeq(u, first(k), LineEnd(t, k))
      BY <1>6, <2>2, <2>3, <3>1
    <3>. QED  BY <1>4, <3>2
  <2>5. Lines(u)[c + 1] = <<>>
    <3>1. c + 1 \in 1..(c + 1)
      BY <1>2
    <3>2. LineEnd(u, c + 1) = n + 1
      BY <1>1, <2>2 DEF LineEnd
    <3>3. SubSeq(u, n + 2, n + 1) = <<>>
      <4>1. n + 2 \in Int /\ n + 1 \in Int /\ n + 1 < n + 2
        BY <1>1
      <4>. QED  BY <4>1, SubSeqEmpty
    <3>4. (n + 1) + 1 = n + 2
      BY <1>1
    <3>. QED  BY <1>6, <2>2, <3>1, <3>2, <3>3, <3>4
  <2>6. PICK a : a = Append(m, <<>>)
    OBVIOUS
  <2>7. /\ m \in Seq(Texts) /\ Len(m) = c /\ m[c] = l /\ \A k \in 1..Len(ls) : m[k] = ls[k]
    BY <1>2, <1>3, <1>8
  <2>8. /\ a \in Seq(Texts) /\ Len(a) = c + 1 /\ a[c + 1] = <<>> /\ \A k \in 1..c : a[k] = m[k]
    <3>1. <<>> \in Texts
      BY DEF Texts
    <3>. QED  BY <1>2, <2>6, <2>7, <3>1
  <2>9. PICK b : b = Lines(u)
    OBVIOUS
  <2>10. b \in Seq(Texts) /\ Len(b) = c + 1
    BY <1>6, <2>2, <2>9
  <2>11. \A k \in 1..(c + 1) : k = c + 1 \/ (k \in 1..c /\ (k = c \/ k \in 1..Len(ls)))
    BY <1>2, <1>3
  <2>12. \A k \in 1..(c + 1) : b[k] = a[k]
    BY <1>3, <2>4, <2>5, <2>7, <2>8, <2>9, <2>11
  <2>13. a = b
    BY <2>8, <2>10, <2>12, SeqEqual
  <2>. QED  BY <2>6, <2>9, <2>13 DEF Reads
<1>. QED  BY <1>7, <1>8 DEF u

LEMMA NoLinesBefore == Reads(<<>>, <<>>, <<>>)
<1>. DEFINE t == <<>>
<1>1. t \in Texts /\ DOMAIN t = {}
  BY DEF Texts
<1>2. Feeds(t) = {0}
  BY <1>1 DEF Feeds
<1>3. Cardinality(Feeds(t)) = 1
  BY <1>2, FS_Singleton
<1>4. Lines(t) \in Seq(Texts) /\ Len(Lines(t)) = 1
  BY <1>1, <1>3, LinesAre
<1>5. Lines(t)[1] = SubSeq(t, Nth(Feeds(t), 1) + 1, LineEnd(t, 1)) /\ Nth(Feeds(t), 1) \in 0..Len(t)
  BY <1>1, <1>3, LinesAre
<1>6. Lines(t)[1] = <<>>
  <2>1. LineEnd(t, 1) = 0 /\ Nth(Feeds(t), 1) = 0
    BY <1>3, <1>5 DEF LineEnd
  <2>. QED  BY <1>5, <2>1, SubSeqEmpty
<1>7. Append(<<>>, <<>>) = << <<>> >>
  OBVIOUS
<1>. QED  BY <1>4, <1>6, <1>7 DEF Reads

-----------------------------------------------------------------------------
(* What a line has but blanks.                                                *)

LEMMA EndsExist ==
  ASSUME NEW n \in Nat
  PROVE  \A S \in SUBSET (1..n) : S # {} => \E a, b \in S : \A i \in S : a <= i /\ i <= b
<1>. DEFINE T == {m \in Nat : \A S \in SUBSET (1..m) : S # {} =>
                                \E a, b \in S : \A i \in S : a <= i /\ i <= b}
<1>1. 0 \in T
  <2>1. 1..0 = {}
    OBVIOUS
  <2>. QED  BY <2>1
<1>2. ASSUME NEW m \in Nat, m \in T PROVE m + 1 \in T
  <2>1. ASSUME NEW S \in SUBSET (1..(m + 1)), S # {}
        PROVE  \E a, b \in S : \A i \in S : a <= i /\ i <= b
    <3>1. CASE m + 1 \notin S
      <4>1. S \in SUBSET (1..m)
        BY <3>1
      <4>. QED  BY <1>2, <2>1, <4>1
    <3>2. CASE S = {m + 1}
      <4>1. m + 1 \in S /\ \A i \in S : m + 1 <= i /\ i <= m + 1
        BY <3>2
      <4>. QED  BY <4>1
    <3>3. CASE m + 1 \in S /\ S # {m + 1}
      <4>1. S \ {m + 1} \in SUBSET (1..m) /\ S \ {m + 1} # {}
        BY <3>3
      <4>2. PICK a, b \in S \ {m + 1} : \A i \in S \ {m + 1} : a <= i /\ i <= b
        BY <1>2, <4>1
      <4>3. a \in S /\ a <= m + 1
        BY <4>1, <4>2
      <4>4. \A i \in S : a <= i /\ i <= m + 1
        BY <4>2, <4>3
      <4>. QED  BY <3>3, <4>3, <4>4
    <3>. QED  BY <3>1, <3>2, <3>3
  <2>. QED  BY <2>1
<1>3. \A m \in Nat : m \in T
  <2>. HIDE DEF T
  <2>. QED  BY <1>1, <1>2, NatSetInduction
<1>. QED  BY <1>3

\* From a to b goes what is trimmed.
Bounds(t, a, b) ==
  /\ a \in Inked(t) /\ b \in Inked(t)
  /\ \A i \in Inked(t) : a <= i /\ i <= b

LEMMA BoundsExist ==
  ASSUME NEW D, NEW t \in Seq(D), Inked(t) # {}
  PROVE  \E a, b \in 1..Len(t) : Bounds(t, a, b)
<1>1. Inked(t) \in SUBSET (1..Len(t)) /\ Len(t) \in Nat
  BY DEF Inked
<1>. QED  BY <1>1, EndsExist DEF Bounds

\* A part of a text, from its first character or from a later one.
LEMMA PartIs ==
  ASSUME NEW D, NEW t \in Seq(D), NEW a \in 1..Len(t), NEW b \in Int, a - 1 <= b, b <= Len(t)
  PROVE  /\ SubSeq(t, a, b) \in Seq(D) /\ Len(SubSeq(t, a, b)) = b - a + 1
         /\ \A i \in 1..(b - a + 1) : SubSeq(t, a, b)[i] = t[a + i - 1]
<1>1. \A i \in a..b : i \in 1..Len(t)
  OBVIOUS
<1>2. \A i \in 1..Len(t) : t[i] \in D
  OBVIOUS
<1>3. \A i \in a..b : t[i] \in D
  BY <1>1, <1>2
<1>4. /\ SubSeq(t, a, b) \in Seq(D) /\ Len(SubSeq(t, a, b)) = IF a <= b THEN b - a + 1 ELSE 0
      /\ \A i \in 1..(b - a + 1) : SubSeq(t, a, b)[i] = t[a + i - 1]
  BY <1>3, SubSeqProperties
<1>5. (IF a <= b THEN b - a + 1 ELSE 0) = b - a + 1
  OBVIOUS
<1>. QED  BY <1>4, <1>5

LEMMA TrimEndIs ==
  ASSUME NEW D, NEW t \in Seq(D), NEW b \in 1..Len(t), b \in Inked(t),
         \A i \in Inked(t) : i <= b
  PROVE  /\ TrimEnd(t) = SubSeq(t, 1, b) /\ TrimEnd(t) \in Seq(D) /\ Len(TrimEnd(t)) = b
         /\ \A i \in 1..b : TrimEnd(t)[i] = t[i]
<1>1. Inked(t) \in SUBSET (1..Len(t)) /\ Len(t) \in Nat
  BY DEF Inked
<1>. DEFINE e == CHOOSE i \in Inked(t) : \A j \in Inked(t) : j <= i
<1>2. e \in Inked(t) /\ \A j \in Inked(t) : j <= e
  OBVIOUS
<1>3. e = b
  <2>. HIDE DEF e
  <2>1. e \in Int /\ b \in Int
    BY <1>1, <1>2
  <2>. QED  BY <1>2, <2>1
<1>4. TrimEnd(t) = SubSeq(t, 1, b)
  BY <1>3 DEF TrimEnd
<1>5. /\ SubSeq(t, 1, b) \in Seq(D) /\ Len(SubSeq(t, 1, b)) = b
      /\ \A i \in 1..b : SubSeq(t, 1, b)[i] = t[i]
  <2>1. 1 \in 1..Len(t) /\ b \in Int /\ 1 - 1 <= b /\ b <= Len(t) /\ b - 1 + 1 = b
    BY <1>1
  <2>2. /\ SubSeq(t, 1, b) \in Seq(D) /\ Len(SubSeq(t, 1, b)) = b - 1 + 1
        /\ \A i \in 1..(b - 1 + 1) : SubSeq(t, 1, b)[i] = t[1 + i - 1]
    BY <2>1, PartIs
  <2>3. \A i \in 1..b : 1 + i - 1 = i
    OBVIOUS
  <2>. QED  BY <2>1, <2>2, <2>3
<1>. QED  BY <1>4, <1>5

LEMMA TrimIs ==
  ASSUME NEW D, NEW t \in Seq(D), NEW a \in 1..Len(t), NEW b \in 1..Len(t), Bounds(t, a, b)
  PROVE  /\ Trim(t) \in Seq(D) /\ Len(Trim(t)) = b - a + 1 /\ a <= b
         /\ \A i \in 1..(b - a + 1) : Trim(t)[i] = t[a + i - 1]
         /\ Trim(t)[1] \notin Blank /\ Trim(t)[b - a + 1] \notin Blank
<1>1. Inked(t) \in SUBSET (1..Len(t)) /\ Len(t) \in Nat /\ Inked(t) # {}
  BY DEF Inked, Bounds
<1>. DEFINE e == CHOOSE i \in Inked(t) : \A j \in Inked(t) : i <= j
            s == SubSeq(t, a, Len(t))
            m == b - a + 1
<1>2. e \in Inked(t) /\ \A j \in Inked(t) : e <= j
  BY DEF Bounds
<1>3. e = a
  <2>. HIDE DEF e
  <2>1. e \in Int /\ a \in Int /\ a <= e
    BY <1>1, <1>2 DEF Bounds
  <2>2. e <= a
    BY <1>2 DEF Bounds
  <2>. QED  BY <2>1, <2>2
<1>4. Trim(t) = TrimEnd(s)
  BY <1>1, <1>3 DEF Trim
<1>5. /\ s \in Seq(D) /\ Len(s) = Len(t) - a + 1
      /\ \A i \in 1..(Len(t) - a + 1) : s[i] = t[a + i - 1]
  <2>1. a - 1 <= Len(t)
    BY <1>1
  <2>. QED  BY <1>1, <2>1, PartIs
<1>. HIDE DEF e, s
<1>6. /\ a <= b /\ a \in Inked(t) /\ b \in Inked(t) /\ \A i \in Inked(t) : i <= b
  BY DEF Bounds
<1>7. m \in 1..Len(s) /\ m \in 1..(Len(t) - a + 1) /\ a + m - 1 = b
  BY <1>5, <1>6
<1>8. \A i \in 1..Len(s) : /\ i \in 1..(Len(t) - a + 1) /\ a + i - 1 \in 1..Len(t)
                           /\ a + i - 1 <= b <=> i <= m
  BY <1>5
<1>9. \A i \in 1..Len(s) : i \in Inked(s) <=> a + i - 1 \in Inked(t)
  BY <1>5, <1>8 DEF Inked
<1>10. m \in Inked(s) /\ \A i \in Inked(s) : i <= m
  <2>1. \A i \in Inked(s) : i \in 1..Len(s)
    BY <1>5 DEF Inked
  <2>. QED  BY <1>6, <1>7, <1>8, <1>9, <2>1
<1>. HIDE DEF m
<1>11. /\ TrimEnd(s) \in Seq(D) /\ Len(TrimEnd(s)) = m
       /\ \A i \in 1..m : TrimEnd(s)[i] = s[i]
  BY <1>5, <1>7, <1>10, TrimEndIs
<1>12. \A i \in 1..m : i \in 1..(Len(t) - a + 1)
  BY <1>1, <1>7
<1>13. \A i \in 1..m : Trim(t)[i] = t[a + i - 1]
  BY <1>4, <1>5, <1>11, <1>12
<1>14. 1 \in 1..m /\ m \in 1..m /\ a + 1 - 1 = a
  BY <1>7
<1>15. t[a] \notin Blank /\ t[b] \notin Blank
  BY <1>6 DEF Inked
<1>. QED  BY <1>4, <1>6, <1>7, <1>11, <1>13, <1>14, <1>15 DEF m

LEMMA PrefixIs ==
  ASSUME NEW D, NEW s \in Seq(D), NEW t \in Seq(D)
  PROVE  IsPrefix(s, t) <=> Len(s) <= Len(t) /\ \A i \in 1..Len(s) : s[i] = t[i]
<1>1. Len(s) \in Nat /\ Len(t) \in Nat /\ Len(s) \in Int /\ 1 \in Int
  OBVIOUS
<1>. SUFFICES ASSUME Len(s) <= Len(t)
              PROVE  SubSeq(s, 1, Len(s)) = SubSeq(t, 1, Len(s))
                       <=> \A i \in 1..Len(s) : s[i] = t[i]
  BY DEF IsPrefix
<1>2. ASSUME NEW v \in Seq(D), Len(s) <= Len(v)
      PROVE  /\ SubSeq(v, 1, Len(s)) \in Seq(D) /\ Len(SubSeq(v, 1, Len(s))) = Len(s)
             /\ \A i \in 1..Len(s) : SubSeq(v, 1, Len(s))[i] = v[i]
  <2>1. \A i \in 1..Len(v) : v[i] \in D
    OBVIOUS
  <2>2. \A i \in 1..Len(s) : i \in 1..Len(v)
    BY <1>1, <1>2
  <2>3. \A i \in 1..Len(s) : v[i] \in D
    BY <2>1, <2>2
  <2>4. /\ SubSeq(v, 1, Len(s)) \in Seq(D)
        /\ Len(SubSeq(v, 1, Len(s))) = IF 1 <= Len(s) THEN Len(s) - 1 + 1 ELSE 0
        /\ \A i \in 1..(Len(s) - 1 + 1) : SubSeq(v, 1, Len(s))[i] = v[1 + i - 1]
    BY <1>1, <2>3, SubSeqProperties
  <2>5. /\ Len(s) - 1 + 1 = Len(s) /\ (~(1 <= Len(s)) => Len(s) = 0)
        /\ \A i \in 1..Len(s) : 1 + i - 1 = i
    BY <1>1
  <2>. QED  BY <2>4, <2>5
<1>3. PICK a, b : a = SubSeq(s, 1, Len(s)) /\ b = SubSeq(t, 1, Len(s))
  OBVIOUS
<1>4. /\ a \in Seq(D) /\ b \in Seq(D) /\ Len(a) = Len(s) /\ Len(b) = Len(s)
      /\ \A i \in 1..Len(s) : a[i] = s[i] /\ b[i] = t[i]
  BY <1>1, <1>2, <1>3
<1>5. a = b <=> \A i \in 1..Len(s) : a[i] = b[i]
  BY <1>4, SeqEqual
<1>. QED  BY <1>3, <1>4, <1>5

LEMMA TrimIsEmpty ==
  ASSUME NEW t \in Texts
  PROVE  Trim(t) \in Texts /\ (Trim(t) = <<>> <=> Inked(t) = {})
<1>1. CASE Inked(t) = {}
  BY <1>1 DEF Trim, Texts
<1>2. CASE Inked(t) # {}
  <2>1. t \in Seq(Characters)
    BY DEF Texts
  <2>2. PICK a, b \in 1..Len(t) : Bounds(t, a, b)
    BY <1>2, <2>1, BoundsExist
  <2>3. Trim(t) \in Seq(Characters) /\ Len(Trim(t)) = b - a + 1 /\ a <= b
    BY <2>1, <2>2, TrimIs
  <2>4. Len(Trim(t)) # 0
    BY <2>3
  <2>5. Len(<<>>) = 0
    OBVIOUS
  <2>. QED  BY <1>2, <2>3, <2>4, <2>5 DEF Texts
<1>. QED  BY <1>1, <1>2

LEMMA HiddenIsHeader ==
  ASSUME NEW l \in Texts
  PROVE  Hidden(l) <=> Header(l)
<1>0. l \in Seq(Characters) /\ Len(l) \in Nat /\ DOMAIN l = 1..Len(l)
  BY DEF Texts
<1>1. PICK o : o = <<"opener", "space", "colons">>
  OBVIOUS
<1>2. /\ o \in Seq(Characters) /\ Len(o) = 3 /\ o[1] = "opener" /\ o[2] = "space"
      /\ o[3] = "colons"
  BY <1>1 DEF Characters, Blank
<1>3. {"opener", "spdx", "colons"} \cap Blank = {} /\ "space" \in Blank
  BY DEF Blank
<1>4. CASE Inked(l) = {}
  <2>1. ~Header(l)
    BY <1>3, <1>4 DEF Header, Inked
  <2>2. Trim(l) = <<>>
    BY <1>4 DEF Trim
  <2>3. ~IsPrefix(o, <<>>)
    <3>1. ~(Len(o) <= Len(<<>>))
      BY <1>2
    <3>. QED  BY <3>1 DEF IsPrefix
  <2>. QED  BY <1>1, <2>1, <2>2, <2>3 DEF Hidden
<1>5. CASE Inked(l) # {}
  <2>1. PICK a, b \in 1..Len(l) : Bounds(l, a, b)
    BY <1>0, <1>5, BoundsExist
  <2>2. PICK t, m : t = Trim(l) /\ m = b - a + 1
    OBVIOUS
  <2>3. /\ t \in Seq(Characters) /\ Len(t) = m /\ a <= b
        /\ \A i \in 1..m : t[i] = l[a + i - 1]
    BY <1>0, <2>1, <2>2, TrimIs
  <2>4. m \in Nat /\ m >= 1 /\ DOMAIN t = 1..m
    BY <2>2, <2>3
  <2>5. \A i \in 1..m : a + i - 1 \in 1..Len(l)
    BY <1>0, <2>2, <2>3
  <2>6. \A i \in 1..Len(l) : l[i] \notin Blank => a <= i /\ i <= b
    BY <1>0, <2>1 DEF Bounds, Inked
  <2>7. \A i \in 1..(a - 1) : l[i] \in Blank
    BY <1>0, <2>6
  <2>8. l[a] \notin Blank
    BY <2>1 DEF Bounds, Inked
  <2>9. \A i \in 1..Len(l) : l[i] = "opener" /\ (\A h \in 1..(i - 1) : l[h] \in Blank) => i = a
    <3>. TAKE i \in 1..Len(l)
    <3>. HAVE l[i] = "opener" /\ (\A h \in 1..(i - 1) : l[h] \in Blank)
    <3>1. a <= i
      BY <1>3, <2>6
    <3>2. ~(a < i)
      <4>1. a < i => a \in 1..(i - 1)
        OBVIOUS
      <4>. QED  BY <2>8, <4>1
    <3>. QED  BY <3>1, <3>2
  <2>10. Header(l) <=> \E j \in 1..Len(l) :
           /\ a < j /\ l[a] = "opener"
           /\ \/ l[j] = "spdx" /\ \A h \in (a + 1)..(j - 1) : l[h] \in Blank
              \/ l[j] = "colons" /\ j = a + 2 /\ l[a + 1] = "space"
    BY <1>0, <2>7, <2>9 DEF Header
  <2>11. IsPrefix(o, t) <=> 3 <= m /\ t[1] = "opener" /\ t[2] = "space" /\ t[3] = "colons"
    <3>1. IsPrefix(o, t) <=> 3 <= m /\ \A i \in 1..3 : o[i] = t[i]
      <4>1. o \in Seq(Characters) /\ t \in Seq(Characters) /\ Len(o) = 3 /\ Len(t) = m
        BY <1>2, <2>3
      <4>2. IsPrefix(o, t) <=> Len(o) <= Len(t) /\ \A i \in 1..Len(o) : o[i] = t[i]
        BY <4>1, PrefixIs
      <4>. QED  BY <4>1, <4>2
    <3>2. (\A i \in 1..3 : o[i] = t[i]) <=> o[1] = t[1] /\ o[2] = t[2] /\ o[3] = t[3]
      <4>1. \A i \in 1..3 : i = 1 \/ i = 2 \/ i = 3
        OBVIOUS
      <4>2. 1 \in 1..3 /\ 2 \in 1..3 /\ 3 \in 1..3
        OBVIOUS
      <4>. QED  BY <4>1, <4>2
    <3>. QED  BY <1>2, <3>1, <3>2
  <2>12. t[1] = l[a]
    <3>1. 1 \in 1..m /\ a + 1 - 1 = a
      BY <2>4
    <3>. QED  BY <2>3, <3>1
  <2>13. ASSUME Hidden(l) PROVE Header(l)
    <3>1. CASE IsPrefix(o, t)
      <4>1. 2 \in 1..m /\ 3 \in 1..m /\ a + 2 - 1 = a + 1 /\ a + 3 - 1 = a + 2
        BY <2>4, <2>11, <3>1
      <4>2. l[a] = "opener" /\ l[a + 1] = "space" /\ l[a + 2] = "colons"
        BY <2>3, <2>11, <2>12, <3>1, <4>1
      <4>3. a + 2 \in 1..Len(l) /\ a < a + 2
        BY <2>5, <4>1
      <4>. QED  BY <2>10, <4>2, <4>3
    <3>2. CASE ~IsPrefix(o, t)
      <4>1. PICK n \in 1..m : /\ n > 1 /\ t[1] = "opener" /\ t[n] = "spdx"
                              /\ \A i \in 2..(n - 1) : t[i] \in Blank
        BY <1>1, <2>2, <2>4, <2>13, <3>2 DEF Hidden
      <4>2. PICK j : j = a + n - 1
        OBVIOUS
      <4>3. j \in 1..Len(l) /\ a < j /\ l[j] = "spdx"
        BY <2>3, <2>5, <4>1, <4>2
      <4>4. ASSUME NEW h \in (a + 1)..(j - 1) PROVE l[h] \in Blank
        <5>1. h - a + 1 \in 2..(n - 1) /\ h - a + 1 \in 1..m /\ a + (h - a + 1) - 1 = h
          BY <2>4, <4>1, <4>2
        <5>2. l[h] = t[h - a + 1]
          BY <2>3, <5>1
        <5>. QED  BY <4>1, <5>1, <5>2
      <4>. QED  BY <2>10, <2>12, <4>1, <4>3, <4>4
    <3>. QED  BY <3>1, <3>2
  <2>14. ASSUME Header(l) PROVE Hidden(l)
    <3>1. PICK j \in 1..Len(l) :
            /\ a < j /\ l[a] = "opener"
            /\ \/ l[j] = "spdx" /\ \A h \in (a + 1)..(j - 1) : l[h] \in Blank
               \/ l[j] = "colons" /\ j = a + 2 /\ l[a + 1] = "space"
      BY <2>10, <2>14
    <3>2. j <= b
      BY <1>3, <2>6, <3>1
    <3>3. CASE l[j] = "spdx" /\ \A h \in (a + 1)..(j - 1) : l[h] \in Blank
      <4>1. PICK n : n = j - a + 1
        OBVIOUS
      <4>2. n \in 1..m /\ n > 1 /\ a + n - 1 = j
        BY <2>2, <3>1, <3>2, <4>1
      <4>3. t[n] = "spdx"
        BY <2>3, <3>3, <4>2
      <4>4. ASSUME NEW i \in 2..(n - 1) PROVE t[i] \in Blank
        <5>1. i \in 1..m /\ a + i - 1 \in (a + 1)..(j - 1)
          BY <2>4, <4>1, <4>2, <3>1
        <5>. QED  BY <2>3, <3>3, <5>1
      <4>. QED  BY <2>2, <2>4, <2>12, <3>1, <4>2, <4>3, <4>4 DEF Hidden
    <3>4. CASE l[j] = "colons" /\ j = a + 2 /\ l[a + 1] = "space"
      <4>1. 2 \in 1..m /\ 3 \in 1..m /\ a + 2 - 1 = a + 1 /\ a + 3 - 1 = a + 2 /\ 3 <= m
        BY <2>2, <2>4, <3>2, <3>4
      <4>2. t[2] = "space" /\ t[3] = "colons"
        BY <2>3, <3>4, <4>1
      <4>3. IsPrefix(o, t)
        BY <2>11, <2>12, <3>1, <4>1, <4>2
      <4>. QED  BY <1>1, <2>2, <4>3 DEF Hidden
    <3>. QED  BY <3>1, <3>3, <3>4
  <2>. QED  BY <2>13, <2>14
<1>. QED  BY <1>4, <1>5

-----------------------------------------------------------------------------
(* Prepared lines.                                                            *)

Shown(ls) == {k \in DOMAIN ls : ~Hidden(ls[k])}
Stays(ls) == {k \in Shown(ls) : \E j \in Shown(ls) : j <= k /\ Trim(ls[j]) # <<>>}

LEMMA PreparedGrows ==
  ASSUME NEW ls \in Seq(Texts), NEW l \in Texts
  PROVE  /\ Prepared(ls) \in Seq(Texts)
         /\ \A p : p = Prepared(ls) =>
              Prepared(Append(ls, l)) = IF Keeps(p, l) THEN Append(p, l) ELSE p
<1>. DEFINE n == Len(ls)
            u == Append(ls, l)
<1>1. /\ n \in Nat /\ DOMAIN ls = 1..n /\ DOMAIN u = 1..(n + 1) /\ u \in Seq(Texts)
      /\ u[n + 1] = l /\ \A k \in 1..n : u[k] = ls[k]
  OBVIOUS
<1>2. ASSUME NEW v PROVE Prepared(v) = Picked(v, Stays(v))
  BY DEF Prepared, Stays, Shown
<1>3. Stays(ls) \in SUBSET DOMAIN ls
  BY DEF Stays, Shown
<1>4. Prepared(ls) \in Seq(Texts) /\ (Prepared(ls) = <<>> <=> Stays(ls) = {})
  <2>1. Picked(ls, Stays(ls)) \in Seq(Texts) /\ (Picked(ls, Stays(ls)) = <<>> <=> Stays(ls) = {})
    BY <1>3, PickedIs
  <2>2. PICK p : p = Picked(ls, Stays(ls))
    OBVIOUS
  <2>. QED  BY <1>2, <2>1
<1>5. ASSUME NEW p, p = Prepared(ls)
      PROVE  Prepared(u) = IF Keeps(p, l) THEN Append(p, l) ELSE p
  <2>. HIDE DEF n, u
  <2>1. \A k \in 1..n : k \in 1..(n + 1) /\ k # n + 1
    BY <1>1
  <2>2. \A k \in 1..(n + 1) : k \in 1..n \/ k = n + 1
    BY <1>1
  <2>3. n + 1 \in 1..(n + 1) /\ n + 1 \notin 1..n
    BY <1>1
  <2>4. \A k \in 1..n : k \in Shown(u) <=> k \in Shown(ls)
    BY <1>1, <2>1 DEF Shown
  <2>5. n + 1 \in Shown(u) <=> ~Hidden(l)
    BY <1>1, <2>3 DEF Shown
  <2>6. Shown(u) \subseteq 1..(n + 1) /\ Shown(ls) \subseteq 1..n
    BY <1>1 DEF Shown
  <2>7. ASSUME NEW k \in 1..n PROVE k \in Stays(u) <=> k \in Stays(ls)
    <3>1. \A j \in 1..(n + 1) : j <= k => j \in 1..n
      BY <1>1
    <3>2. \A j : j \in Shown(u) /\ j <= k <=> j \in Shown(ls) /\ j <= k
      BY <2>4, <2>6, <3>1, <2>1
    <3>3. \A j \in Shown(ls) : Trim(u[j]) = Trim(ls[j])
      BY <1>1, <2>6
    <3>4. (\E j \in Shown(u) : j <= k /\ Trim(u[j]) # <<>>)
            <=> \E j \in Shown(ls) : j <= k /\ Trim(ls[j]) # <<>>
      BY <3>2, <3>3
    <3>. QED  BY <2>4, <3>4 DEF Stays
  <2>8. n + 1 \in Stays(u) <=> ~Hidden(l) /\ (Stays(ls) # {} \/ Trim(l) # <<>>)
    <3>1. \A j \in 1..(n + 1) : j <= n + 1
      BY <1>1
    <3>2. (\E j \in Shown(u) : j <= n + 1 /\ Trim(u[j]) # <<>>)
            <=> \/ \E j \in Shown(ls) : Trim(ls[j]) # <<>>
                \/ ~Hidden(l) /\ Trim(l) # <<>>
      <4>1. \A j \in Shown(u) : j <= n + 1 /\ (j \in 1..n \/ j = n + 1)
        BY <2>2, <2>6, <3>1
      <4>2. \A j \in Shown(ls) : j \in Shown(u) /\ u[j] = ls[j]
        BY <1>1, <2>4, <2>6
      <4>3. \A j \in 1..n : j \in Shown(u) => j \in Shown(ls) /\ u[j] = ls[j]
        BY <1>1, <2>4
      <4>. QED  BY <1>1, <2>5, <4>1, <4>2, <4>3
    <3>3. (\E j \in Shown(ls) : Trim(ls[j]) # <<>>) <=> Stays(ls) # {}
      <4>1. \A j \in Shown(ls) : j <= j
        BY <1>1, <2>6
      <4>2. ASSUME NEW j \in Shown(ls), Trim(ls[j]) # <<>> PROVE j \in Stays(ls)
        BY <4>1, <4>2 DEF Stays
      <4>3. ASSUME NEW k \in Stays(ls) PROVE \E j \in Shown(ls) : Trim(ls[j]) # <<>>
        BY DEF Stays
      <4>. QED  BY <4>2, <4>3
    <3>. QED  BY <2>5, <3>2, <3>3 DEF Stays
  <2>9. Keeps(p, l) <=> n + 1 \in Stays(u)
    BY <1>4, <1>5, <2>8, HiddenIsHeader, TrimIsEmpty DEF Keeps
  <2>10. Stays(u) \subseteq 1..(n + 1) /\ Stays(ls) \subseteq 1..n
    BY <2>6 DEF Stays
  <2>11. PICK S : S = Stays(ls)
    OBVIOUS
  <2>12. Stays(u) = IF Keeps(p, l) THEN S \cup {n + 1} ELSE S
    <3>1. ASSUME NEW k PROVE k \in Stays(u) <=> k \in S \/ (Keeps(p, l) /\ k = n + 1)
      <4>1. CASE k \in 1..n
        BY <2>1, <2>7, <2>11, <4>1
      <4>2. CASE k = n + 1
        BY <2>3, <2>9, <2>10, <2>11, <4>2
      <4>3. CASE k \notin 1..n /\ k # n + 1
        BY <2>2, <2>10, <2>11, <4>3
      <4>. QED  BY <4>1, <4>2, <4>3
    <3>. QED  BY <3>1
  <2>13. S \in SUBSET DOMAIN ls /\ p = Picked(ls, S)
    BY <1>2, <1>3, <1>5, <2>11
  <2>14. Picked(u, S) = p /\ \A U : U = S \cup {n + 1} => Picked(u, U) = Append(p, l)
    <3>1. /\ Picked(Append(ls, l), S) = p
          /\ \A U : U = S \cup {Len(ls) + 1} => Picked(Append(ls, l), U) = Append(p, l)
      BY <2>13, PickedGrows
    <3>. QED  BY <3>1 DEF u, n
  <2>15. Prepared(u) = Picked(u, Stays(u))
    BY <1>2
  <2>. QED  BY <2>12, <2>14, <2>15
<1>. QED  BY <1>4, <1>5

-----------------------------------------------------------------------------
(* A reader keeps what is prepared.                                           *)

\* The lines of what was read are those that ended, and the line under way.
TextInv ==
  /\ raw \in Texts /\ kept \in Seq(Texts) /\ line \in Texts
  /\ \E ls \in Seq(Texts) : /\ Reads(LineFeeds(WithoutMark(raw)), ls, line)
                            /\ kept = Prepared(ls)

LEMMA NothingPrepared == Prepared(<<>>) = <<>> /\ WithoutMark(<<>>) = <<>> /\ LineFeeds(<<>>) = <<>>
<1>1. <<>> \in Seq(Texts) /\ <<>> \in Seq(Characters)
  OBVIOUS
<1>2. DOMAIN <<>> = {}
  OBVIOUS
<1>3. Stays(<<>>) = {} /\ Left(<<>>) = {}
  BY <1>2 DEF Stays, Shown, Left
<1>4. Picked(<<>>, {}) = <<>>
  <2>1. {} \in SUBSET DOMAIN <<>>
    OBVIOUS
  <2>. QED  BY <1>1, <2>1, PickedIs
<1>5. Prepared(<<>>) = Picked(<<>>, Stays(<<>>))
  BY DEF Prepared, Stays, Shown
<1>6. LineFeeds(<<>>) = <<>>
  <2>1. LineFeeds(<<>>) = [k \in 1..Cardinality(Left(<<>>)) |-> EndOfLine(Picked(<<>>, Left(<<>>))[k])]
    BY DEF LineFeeds, EndOfLine, Left
  <2>2. Cardinality(Left(<<>>)) = 0
    BY <1>3, FS_EmptySet
  <2>3. LineFeeds(<<>>) \in [1..0 -> Characters]
    <3>1. 1..0 = {}
      OBVIOUS
    <3>. QED  BY <2>1, <2>2, <3>1
  <2>4. Len(LineFeeds(<<>>)) = 0 /\ LineFeeds(<<>>) \in Seq(Characters)
    BY <2>3, IsASeq, LenProperties
  <2>. QED  BY <2>4
<1>. QED  BY <1>3, <1>4, <1>5, <1>6 DEF WithoutMark

LEMMA LastStays ==
  ASSUME NEW t \in Texts
  PROVE  /\ WithoutMark(t) # <<>> => t # <<>> /\ WithoutMark(t)[Len(WithoutMark(t))] = t[Len(t)]
         /\ WithoutMark(t) = <<>> /\ t # <<>> => t[Len(t)] = "bom"
<1>. USE DEF Texts
<1>1. CASE t # <<>> /\ t[1] = "bom"
  <2>1. PICK w : w = Tail(t)
    OBVIOUS
  <2>2. /\ w \in Seq(Characters) /\ Len(w) = Len(t) - 1
        /\ \A i \in 1..Len(w) : w[i] = t[i + 1]
    BY <1>1, <2>1, HeadTailProperties
  <2>3. w = WithoutMark(t)
    BY <1>1, <2>1 DEF WithoutMark
  <2>4. w # <<>> => Len(w) \in 1..Len(w) /\ Len(w) + 1 = Len(t)
    BY <2>2
  <2>5. w = <<>> => Len(t) = 1
    BY <2>2
  <2>. QED  BY <1>1, <2>2, <2>3, <2>4, <2>5
<1>2. CASE ~(t # <<>> /\ t[1] = "bom")
  BY <1>2 DEF WithoutMark
<1>. QED  BY <1>1, <1>2

LEMMA TextInvInit ==
  ASSUME TextInit
  PROVE  TextInv
<1>1. raw = <<>> /\ kept = <<>> /\ line = <<>>
  BY DEF TextInit
<1>2. <<>> \in Texts /\ <<>> \in Seq(Texts)
  BY DEF Texts
<1>3. Reads(LineFeeds(WithoutMark(raw)), <<>>, line) /\ kept = Prepared(<<>>)
  BY <1>1, NoLinesBefore, NothingPrepared
<1>. QED  BY <1>1, <1>2, <1>3 DEF TextInv

LEMMA TextInvStep ==
  ASSUME TextInv, TextNext
  PROVE  TextInv'
<1>1. PICK ls \in Seq(Texts) : /\ Reads(LineFeeds(WithoutMark(raw)), ls, line)
                               /\ kept = Prepared(ls)
  BY DEF TextInv
<1>2. raw \in Texts /\ kept \in Seq(Texts) /\ line \in Texts
  BY DEF TextInv
<1>3. PICK r, w, f : r = raw /\ w = WithoutMark(raw) /\ f = LineFeeds(WithoutMark(raw))
  OBVIOUS
<1>4. PICK l, p : l = line /\ p = kept
  OBVIOUS
<1>5. /\ r \in Texts /\ w = WithoutMark(r) /\ w \in Texts /\ f = LineFeeds(w) /\ f \in Texts
      /\ l \in Texts /\ p \in Seq(Texts) /\ p = Prepared(ls) /\ Reads(f, ls, l)
  <2>1. r \in Texts /\ w = WithoutMark(r) /\ f = LineFeeds(w)
    BY <1>2, <1>3
  <2>2. "bom" \in Characters
    BY DEF Characters, Blank
  <2>3. w \in Texts
    BY <2>1, <2>2, WithoutMarkGrows
  <2>4. f \in Texts
    BY <2>1, <2>2, <2>3, LineFeedsGrow
  <2>. QED  BY <1>1, <1>2, <1>3, <1>4, <2>1, <2>3, <2>4
\* What one more character makes of all of it.
<1>6. ASSUME NEW c \in Characters, ~(c = "bom" /\ r = <<>>),
             ~(c = "lf" /\ w # <<>> /\ w[Len(w)] = "cr")
      PROVE  /\ Append(r, c) \in Texts
             /\ LineFeeds(WithoutMark(Append(r, c))) = Append(f, EndOfLine(c))
  <2>1. Append(r, c) \in Texts
    BY <1>5 DEF Texts
  <2>2. PICK u : u = WithoutMark(Append(r, c))
    OBVIOUS
  <2>3. u = Append(w, c)
    BY <1>5, <1>6, <2>2, WithoutMarkGrows
  <2>4. LineFeeds(Append(w, c)) = Append(f, EndOfLine(c))
    <3>1. \A v : v = LineFeeds(w) =>
            LineFeeds(Append(w, c)) = IF w # <<>> /\ c = "lf" /\ w[Len(w)] = "cr" THEN v
                                      ELSE Append(v, EndOfLine(c))
      BY <1>5, LineFeedsGrow
    <3>. QED  BY <1>5, <1>6, <3>1
  <2>. QED  BY <2>1, <2>2, <2>3, <2>4
<1>7. ASSUME NEW c \in Characters, GrowLine(c) PROVE TextInv'
  <2>1. /\ c \notin {"cr", "lf"} /\ ~(c = "bom" /\ r = <<>>)
        /\ raw' = Append(r, c) /\ line' = Append(l, c) /\ kept' = p
    BY <1>3, <1>4, <1>7 DEF GrowLine, Grow
  <2>2. EndOfLine(c) = c /\ Append(l, c) \in Texts
    BY <1>5, <2>1 DEF EndOfLine, Texts
  <2>3. Append(r, c) \in Texts /\ LineFeeds(WithoutMark(Append(r, c))) = Append(f, c)
    BY <1>6, <2>1, <2>2
  <2>4. PICK m : m = Append(l, c)
    OBVIOUS
  <2>5. Reads(Append(f, c), ls, m)
    BY <1>5, <2>1, <2>4, LinesGrow
  <2>6. Reads(LineFeeds(WithoutMark(raw')), ls, line')
    BY <2>1, <2>3, <2>4, <2>5
  <2>7. raw' \in Texts /\ kept' \in Seq(Texts) /\ line' \in Texts /\ kept' = Prepared(ls)
    BY <1>5, <2>1, <2>2, <2>3
  <2>. QED  BY <2>6, <2>7 DEF TextInv
<1>8. ASSUME NEW c \in Characters, GrowEnd(c) PROVE TextInv'
  <2>1. /\ c \in {"cr", "lf"} /\ ~(c = "lf" /\ r # <<>> /\ Last(r) = "cr")
        /\ raw' = Append(r, c) /\ line' = <<>>
        /\ kept' = IF Keeps(p, l) THEN Append(p, l) ELSE p
    BY <1>3, <1>4, <1>8 DEF GrowEnd, Grow, EndsLine, LinesRead
  <2>2. ~(c = "lf" /\ w # <<>> /\ w[Len(w)] = "cr")
    BY <1>5, <2>1, LastStays DEF Last
  <2>3. EndOfLine(c) = "lf" /\ "lf" \in Characters
    BY <2>1 DEF EndOfLine, Characters, Blank
  <2>4. Append(r, c) \in Texts /\ LineFeeds(WithoutMark(Append(r, c))) = Append(f, "lf")
    BY <1>6, <2>1, <2>2, <2>3
  <2>5. PICK m : m = Append(ls, l)
    OBVIOUS
  <2>6. Reads(Append(f, "lf"), m, <<>>)
    BY <1>5, <2>3, <2>5, LinesGrow
  <2>7. PICK q : q = IF Keeps(p, l) THEN Append(p, l) ELSE p
    OBVIOUS
  <2>8. Prepared(m) = q
    BY <1>5, <2>5, <2>7, PreparedGrows
  <2>9. m \in Seq(Texts) /\ q \in Seq(Texts) /\ <<>> \in Texts
    BY <1>5, <2>5, <2>7 DEF Texts
  <2>10. Reads(LineFeeds(WithoutMark(raw')), m, line') /\ kept' = Prepared(m)
    BY <2>1, <2>4, <2>6, <2>7, <2>8
  <2>11. raw' \in Texts /\ kept' \in Seq(Texts) /\ line' \in Texts
    BY <2>1, <2>4, <2>7, <2>9
  <2>. QED  BY <2>9, <2>10, <2>11 DEF TextInv
<1>9. ASSUME NEW c \in Characters, GrowUnseen(c) PROVE TextInv'
  <2>1. /\ raw' = Append(r, c) /\ kept' = p /\ line' = l
        /\ \/ c = "bom" /\ r = <<>>
           \/ c = "lf" /\ r # <<>> /\ Last(r) = "cr"
    BY <1>3, <1>4, <1>9 DEF GrowUnseen, Grow, EndsLine
  <2>2. Append(r, c) \in Texts
    BY <1>5 DEF Texts
  <2>3. LineFeeds(WithoutMark(Append(r, c))) = f
    <3>1. PICK u : u = WithoutMark(Append(r, c))
      OBVIOUS
    <3>2. CASE c = "bom" /\ r = <<>>
      <4>1. u = w
        BY <1>5, <3>1, <3>2, WithoutMarkGrows
      <4>. QED  BY <1>5, <3>1, <4>1
    <3>3. CASE c = "lf" /\ r # <<>> /\ Last(r) = "cr"
      <4>1. w # <<>> /\ w[Len(w)] = "cr"
        BY <1>5, <3>3, LastStays DEF Last
      <4>2. u = Append(w, c)
        BY <1>5, <3>1, <3>3, WithoutMarkGrows
      <4>3. \A v : v = LineFeeds(w) =>
              LineFeeds(Append(w, c)) = IF w # <<>> /\ c = "lf" /\ w[Len(w)] = "cr" THEN v
                                        ELSE Append(v, EndOfLine(c))
        BY <1>5, LineFeedsGrow
      <4>4. LineFeeds(Append(w, c)) = f
        BY <1>5, <3>3, <4>1, <4>3
      <4>. QED  BY <3>1, <4>2, <4>4
    <3>. QED  BY <2>1, <3>2, <3>3
  <2>4. Reads(LineFeeds(WithoutMark(raw')), ls, line') /\ kept' = Prepared(ls)
    BY <1>5, <2>1, <2>3
  <2>. QED  BY <1>5, <2>1, <2>2, <2>4 DEF TextInv
<1>10. ASSUME ReadOther PROVE TextInv'
  <2>1. raw' = <<>> /\ kept' = <<>> /\ line' = <<>>
    BY <1>10 DEF ReadOther
  <2>2. <<>> \in Texts /\ <<>> \in Seq(Texts)
    BY DEF Texts
  <2>3. Reads(LineFeeds(WithoutMark(raw')), <<>>, line') /\ kept' = Prepared(<<>>)
    BY <2>1, NoLinesBefore, NothingPrepared
  <2>. QED  BY <2>1, <2>2, <2>3 DEF TextInv
<1>. QED  BY <1>7, <1>8, <1>9, <1>10 DEF TextNext

\* A file and what a reader kept of it are texts, and the lines that ended are
\* the lines that prepareSource goes through but for the last.
THEOREM TextInvariant == TextSpec => []TextInv
<1>1. TextInit => TextInv
  BY TextInvInit
<1>2. TextInv /\ [TextNext]_textVars => TextInv'
  <2>. SUFFICES ASSUME TextInv, [TextNext]_textVars PROVE TextInv'
    OBVIOUS
  <2>1. CASE UNCHANGED textVars
    BY <2>1 DEF textVars, TextInv
  <2>. QED  BY <2>1, TextInvStep
<1>. QED  BY <1>1, <1>2, PTL DEF TextSpec

\* prepareSource of every file is what a reader keeps who goes through it once.
THEOREM PreparedIsAlwaysVisible == TextSpec => []PreparedIsVisible
<1>1. TextInv => PreparedIsVisible
  <2>. SUFFICES ASSUME TextInv PROVE PreparedIsVisible
    OBVIOUS
  <2>1. PICK ls \in Seq(Texts) : /\ Reads(LineFeeds(WithoutMark(raw)), ls, line)
                                 /\ kept = Prepared(ls)
    BY DEF TextInv
  <2>2. PICK m : m = Append(ls, line)
    OBVIOUS
  <2>3. line \in Texts
    BY DEF TextInv
  <2>4. Prepared(m) = LinesRead
    BY <2>1, <2>2, <2>3, PreparedGrows DEF LinesRead
  <2>5. Lines(LineFeeds(WithoutMark(raw))) = m
    BY <2>1, <2>2 DEF Reads
  <2>. QED  BY <2>4, <2>5 DEF PreparedIsVisible, prepareSource
<1>. QED  BY <1>1, TextInvariant, PTL

-----------------------------------------------------------------------------
(* A preview.                                                                 *)

LEMMA FlattenIs ==
  ASSUME NEW g \in Seq(Texts), g # <<>>, \A k \in 1..Len(g) : g[k] # <<>>
  PROVE  FlattenSeq(g) \in Texts /\ FlattenSeq(g) # <<>>
<1>. DEFINE n == Len(g)
            step == [x \in (1..n) \X Texts |-> x[2] \o g[x[1]]]
            Goes(f) == f = [i \in 1..n |-> IF i = 1 THEN g[i] ELSE f[i - 1] \o g[i]]
            flatten == CHOOSE f : Goes(f)
<1>1. n \in Nat /\ n >= 1 /\ \A k \in 1..n : g[k] \in Texts
  OBVIOUS
<1>2. /\ \A v, u \in Texts : v \o u \in Texts /\ Len(v \o u) = Len(v) + Len(u)
      /\ \A v \in Texts : Len(v) \in Nat /\ (v = <<>> <=> Len(v) = 0)
      /\ <<>> \in Texts /\ \A v \in Texts : <<>> \o v = v
  BY DEF Texts
<1>3. step \in [(1..n) \X Texts -> Texts]
  BY <1>1, <1>2
<1>. HIDE DEF n
<1>4. PICK h \in [0..n -> Texts] : Stepwise(h, n, <<>>, step)
  <2>. HIDE DEF step
  <2>. QED  BY <1>1, <1>2, <1>3, StepwiseFunction
<1>5. h[0] = <<>> /\ \A i \in 1..n : h[i] = h[i - 1] \o g[i]
  <2>1. h = [i \in 0..n |-> IF i = 0 THEN <<>> ELSE step[<<i, h[i - 1]>>]]
    BY <1>4 DEF Stepwise
  <2>2. 0 \in 0..n
    BY <1>1
  <2>3. ASSUME NEW i \in 1..n PROVE h[i] = h[i - 1] \o g[i]
    <3>1. i \in 0..n /\ i # 0 /\ i - 1 \in 0..n
      BY <1>1
    <3>2. h[i] = step[<<i, h[i - 1]>>]
      BY <2>1, <3>1, Zenon
    <3>3. <<i, h[i - 1]>> \in (1..n) \X Texts
      BY <1>4, <3>1
    <3>. QED  BY <3>2, <3>3
  <2>. QED  BY <2>1, <2>2, <2>3
<1>6. \E f : Goes(f)
  <2>. DEFINE f == [i \in 1..n |-> h[i]]
  <2>1. ASSUME NEW i \in 1..n PROVE f[i] = IF i = 1 THEN g[i] ELSE f[i - 1] \o g[i]
    <3>1. CASE i = 1
      <4>1. 1 \in 1..n /\ 1 - 1 = 0 /\ f[i] = h[i]
        BY <1>1
      <4>2. h[1] = <<>> \o g[1]
        BY <1>5, <4>1
      <4>. QED  BY <1>1, <1>2, <3>1, <4>1, <4>2
    <3>2. CASE i # 1
      <4>1. i - 1 \in 1..n
        BY <1>1, <3>2
      <4>. QED  BY <1>5, <3>2, <4>1
    <3>. QED  BY <3>1, <3>2
  <2>2. f = [i \in 1..n |-> f[i]]
    OBVIOUS
  <2>. HIDE DEF f
  <2>3. Goes(f)
    BY <2>1, <2>2, Zenon
  <2>. QED  BY <2>3
<1>7. Goes(flatten)
  <2>. HIDE DEF Goes
  <2>. QED  BY <1>6
<1>8. FlattenSeq(g) = flatten[n]
  <2>1. Len(g) # 0
    BY <1>1 DEF n
  <2>. QED  BY <2>1 DEF FlattenSeq, n
<1>9. \A i \in 1..n : flatten[i] = IF i = 1 THEN g[i] ELSE flatten[i - 1] \o g[i]
  <2>1. \A f : Goes(f) => \A i \in 1..n : f[i] = IF i = 1 THEN g[i] ELSE f[i - 1] \o g[i]
    BY Zenon
  <2>. HIDE DEF Goes, flatten
  <2>. QED  BY <1>7, <2>1
<1>. HIDE DEF flatten
<1>. DEFINE Good == {j \in 0..n : j = 0 \/ (flatten[j] \in Texts /\ flatten[j] # <<>>)}
<1>10. \A j \in 0..n : j \in Good
  <2>1. 0 \in Good
    BY <1>1
  <2>2. ASSUME NEW j \in 0..(n - 1), j \in Good PROVE j + 1 \in Good
    <3>1. /\ j + 1 \in 1..n /\ j + 1 \in 0..n /\ (j + 1) - 1 = j
          /\ j # 0 => j + 1 # 1
      BY <1>1
    <3>2. g[j + 1] \in Texts /\ g[j + 1] # <<>>
      BY <1>1, <3>1 DEF n
    <3>3. CASE j = 0
      <4>1. flatten[j + 1] = g[j + 1]
        BY <1>9, <3>1, <3>3
      <4>. QED  BY <3>1, <3>2, <4>1
    <3>4. CASE j # 0
      <4>1. flatten[j + 1] = flatten[j] \o g[j + 1]
        BY <1>9, <3>1, <3>4
      <4>2. PICK v, u \in Texts : v = flatten[j] /\ u = g[j + 1]
        BY <2>2, <3>2, <3>4
      <4>3. v \o u \in Texts /\ v \o u # <<>>
        <5>1. Len(u) > 0 /\ Len(v) \in Nat /\ Len(u) \in Nat
          BY <1>2, <3>2, <4>2
        <5>2. Len(v \o u) = Len(v) + Len(u) /\ v \o u \in Texts
          BY <1>2
        <5>3. Len(v \o u) # 0
          BY <5>1, <5>2
        <5>. QED  BY <1>2, <5>2, <5>3
      <4>. QED  BY <3>1, <4>1, <4>2, <4>3
    <3>. QED  BY <3>3, <3>4
  <2>. HIDE DEF Good
  <2>. QED  BY <1>1, <2>1, <2>2, RangeSetInduction
<1>11. n \in 0..n /\ n # 0
  BY <1>1
<1>. QED  BY <1>8, <1>10, <1>11

LEMMA JoinedIs ==
  ASSUME NEW ls \in Seq(Texts)
  PROVE  Joined(ls) \in Texts
<1>1. CASE ls = <<>>
  BY <1>1 DEF Joined, Texts
<1>2. CASE ls # <<>>
  <2>. DEFINE g == [k \in DOMAIN ls |-> <<"lf">> \o ls[k]]
  <2>1. Len(ls) \in Nat /\ Len(ls) # 0 /\ DOMAIN ls = 1..Len(ls)
    BY <1>2
  <2>2. ASSUME NEW k \in 1..Len(ls) PROVE <<"lf">> \o ls[k] \in Texts /\ <<"lf">> \o ls[k] # <<>>
    <3>1. PICK v \in Texts : v = ls[k]
      OBVIOUS
    <3>2. <<"lf">> \in Seq(Characters) /\ Len(<<"lf">>) = 1
      BY DEF Characters, Blank
    <3>3. <<"lf">> \o v \in Seq(Characters) /\ Len(<<"lf">> \o v) = 1 + Len(v) /\ Len(v) \in Nat
      BY <3>2, ConcatProperties DEF Texts
    <3>4. Len(<<"lf">> \o v) # 0
      BY <3>3
    <3>5. <<"lf">> \o v # <<>>
      BY <3>4
    <3>. QED  BY <3>1, <3>3, <3>5 DEF Texts
  <2>3. g \in [1..Len(ls) -> Texts] /\ \A k \in 1..Len(ls) : g[k] # <<>>
    BY <2>1, <2>2
  <2>4. g \in Seq(Texts) /\ Len(g) = Len(ls)
    <3>. HIDE DEF g
    <3>. QED  BY <2>1, <2>3, IsASeq, LenProperties
  <2>5. g # <<>>
    <3>. HIDE DEF g
    <3>. QED  BY <2>1, <2>4
  <2>6. FlattenSeq(g) \in Texts /\ FlattenSeq(g) # <<>>
    <3>. HIDE DEF g
    <3>. QED  BY <2>3, <2>4, <2>5, FlattenIs
  <2>7. Joined(ls) = Tail(FlattenSeq(g))
    BY <1>2 DEF Joined
  <2>8. PICK v \in Texts : v = FlattenSeq(g) /\ v # <<>>
    BY <2>6
  <2>9. Tail(v) \in Texts
    BY <2>8, HeadTailProperties DEF Texts
  <2>. QED  BY <2>7, <2>8, <2>9
<1>. QED  BY <1>1, <1>2

LEMMA ExcerptIs ==
  ASSUME NEW t \in Texts, NEW count \in Nat
  PROVE  /\ Excerpt(t, count) \in Texts
         /\ Excerpt(t, count) # <<>> => Excerpt(t, count)[1] \notin Blank
<1>. DEFINE lines == Lines(t)
            least == AtLeast(1, count)
            m == IF Len(lines) < least THEN Len(lines) ELSE least
            joined == Joined(SubSeq(lines, 1, m))
<1>1. least \in Nat
  BY DEF AtLeast
<1>2. lines \in Seq(Texts) /\ Len(lines) \in Nat
  <2>1. lines \in Seq(Texts)
    BY LinesAre
  <2>. HIDE DEF lines
  <2>. QED  BY <2>1
<1>. HIDE DEF lines, least
<1>3. m \in Nat /\ m <= Len(lines)
  BY <1>1, <1>2
<1>. HIDE DEF m
<1>4. SubSeq(lines, 1, m) \in Seq(Texts)
  <2>1. \A i \in 1..m : i \in 1..Len(lines)
    BY <1>2, <1>3
  <2>2. \A i \in 1..Len(lines) : lines[i] \in Texts
    BY <1>2
  <2>3. \A i \in 1..m : lines[i] \in Texts
    BY <2>1, <2>2
  <2>4. 1 \in Int /\ m \in Int
    BY <1>3
  <2>. QED  BY <2>3, <2>4, SubSeqProperties
<1>5. joined \in Texts
  BY <1>4, JoinedIs
<1>. HIDE DEF joined
<1>6. Excerpt(t, count) = Trim(joined)
  BY DEF Excerpt, lines, least, m, joined
<1>7. CASE Inked(joined) = {}
  BY <1>5, <1>6, <1>7, TrimIsEmpty
<1>8. CASE Inked(joined) # {}
  <2>1. joined \in Seq(Characters)
    BY <1>5 DEF Texts
  <2>2. PICK a, b \in 1..Len(joined) : Bounds(joined, a, b)
    BY <1>8, <2>1, BoundsExist
  <2>3. Trim(joined) \in Seq(Characters) /\ Trim(joined)[1] \notin Blank
    BY <2>1, <2>2, TrimIs
  <2>. QED  BY <1>6, <2>3 DEF Texts
<1>. QED  BY <1>7, <1>8

\* What a text is cut to that is too long.
LEMMA CutIs ==
  ASSUME NEW all \in Texts, all[1] \notin Blank, NEW k \in 1..Len(all),
         NEW shown, shown = TrimEnd(SubSeq(all, 1, k)) \o <<"ellipsis">>
  PROVE  /\ Len(shown) \in 2..(k + 1)
         /\ Last(shown) = "ellipsis"
         /\ IsPrefix(Front(shown), all)
         /\ Last(Front(shown)) \notin Blank
<1>. DEFINE s == SubSeq(all, 1, k)
<1>0. all \in Seq(Characters) /\ Len(all) \in Nat
  BY DEF Texts
<1>1. /\ s \in Seq(Characters) /\ Len(s) = k /\ \A i \in 1..k : s[i] = all[i]
  <2>1. 1 \in 1..Len(all) /\ k \in Int /\ 1 - 1 <= k /\ k <= Len(all) /\ k - 1 + 1 = k
    BY <1>0
  <2>2. /\ s \in Seq(Characters) /\ Len(s) = k - 1 + 1
        /\ \A i \in 1..(k - 1 + 1) : s[i] = all[1 + i - 1]
    BY <1>0, <2>1, PartIs
  <2>3. \A i \in 1..k : 1 + i - 1 = i
    OBVIOUS
  <2>. QED  BY <2>1, <2>2, <2>3
<1>. HIDE DEF s
<1>2. 1 \in 1..k /\ 1 \in Inked(s)
  <2>1. 1 \in 1..k /\ 1 \in 1..Len(s)
    BY <1>0, <1>1
  <2>2. s[1] = all[1]
    BY <1>1, <2>1
  <2>3. DOMAIN s = 1..Len(s)
    BY <1>1
  <2>. QED  BY <2>1, <2>2, <2>3 DEF Inked
<1>3. PICK a, b \in 1..Len(s) : Bounds(s, a, b)
  BY <1>1, <1>2, BoundsExist
<1>4. b \in Inked(s) /\ \A i \in Inked(s) : i <= b
  BY <1>3 DEF Bounds
<1>5. PICK w : w = TrimEnd(s)
  OBVIOUS
<1>6. w \in Seq(Characters) /\ Len(w) = b /\ \A i \in 1..b : w[i] = s[i]
  BY <1>1, <1>4, <1>5, TrimEndIs
<1>. DEFINE D == Characters \cup {"ellipsis"}
            e == <<"ellipsis">>
<1>7. w \in Seq(D) /\ e \in Seq(D) /\ Len(e) = 1 /\ e[1] = "ellipsis"
  <2>1. \A i \in 1..Len(w) : w[i] \in Characters
    BY <1>6
  <2>2. w \in [1..Len(w) -> D]
    BY <1>6, <2>1
  <2>3. Len(w) \in Nat
    BY <1>6
  <2>4. w \in Seq(D)
    BY <2>2, <2>3, IsASeq
  <2>. QED  BY <2>4
<1>8. shown = w \o e
  BY <1>5 DEF s
<1>. HIDE DEF D, e
<1>9. /\ shown \in Seq(D) /\ Len(shown) = b + 1
      /\ \A i \in 1..b : shown[i] = w[i]
      /\ shown[b + 1] = "ellipsis"
  <2>1. /\ w \o e \in Seq(D) /\ Len(w \o e) = Len(w) + Len(e)
        /\ \A i \in 1..(Len(w) + Len(e)) : (w \o e)[i] = IF i <= Len(w) THEN w[i] ELSE e[i - Len(w)]
    BY <1>7, ConcatProperties
  <2>2. \A i \in 1..(b + 1) : shown[i] = IF i <= b THEN w[i] ELSE e[i - b]
    BY <1>6, <1>7, <1>8, <2>1
  <2>3. /\ \A i \in 1..b : i \in 1..(b + 1) /\ i <= b
        /\ b + 1 \in 1..(b + 1) /\ ~(b + 1 <= b) /\ (b + 1) - b = 1
    OBVIOUS
  <2>. QED  BY <1>6, <1>7, <1>8, <2>1, <2>2, <2>3
<1>10. Front(shown) = w
  <2>1. PICK f : f = SubSeq(shown, 1, b)
    OBVIOUS
  <2>2. Front(shown) = f
    <3>1. (b + 1) - 1 = b
      OBVIOUS
    <3>. QED  BY <1>9, <2>1, <3>1 DEF Front
  <2>3. f \in Seq(D) /\ Len(f) = b /\ \A i \in 1..b : f[i] = shown[i]
    <3>1. 1 \in 1..Len(shown) /\ b \in Int /\ 1 - 1 <= b /\ b <= Len(shown) /\ b - 1 + 1 = b
      BY <1>9
    <3>2. /\ f \in Seq(D) /\ Len(f) = b - 1 + 1
          /\ \A i \in 1..(b - 1 + 1) : f[i] = shown[1 + i - 1]
      BY <1>9, <2>1, <3>1, PartIs
    <3>3. \A i \in 1..b : 1 + i - 1 = i
      OBVIOUS
    <3>. QED  BY <3>1, <3>2, <3>3
  <2>4. \A i \in 1..Len(f) : f[i] = w[i]
    BY <1>9, <2>3
  <2>5. f = w
    BY <1>6, <1>7, <2>3, <2>4, SeqEqual
  <2>. QED  BY <2>2, <2>5
<1>11. Len(shown) \in 2..(k + 1) /\ Last(shown) = "ellipsis"
  BY <1>1, <1>9 DEF Last
<1>12. IsPrefix(w, all)
  <2>1. Len(w) <= Len(all)
    BY <1>0, <1>1, <1>6
  <2>2. \A i \in 1..Len(w) : i \in 1..k
    BY <1>1, <1>6
  <2>3. \A i \in 1..Len(w) : w[i] = all[i]
    BY <1>1, <1>6, <2>2
  <2>. QED  BY <1>0, <1>6, <2>1, <2>3, PrefixIs
<1>13. Last(w) \notin Blank
  <2>1. b \in 1..b
    OBVIOUS
  <2>. QED  BY <1>4, <1>6, <2>1 DEF Last, Inked
<1>. QED  BY <1>10, <1>11, <1>12, <1>13

\* A preview of every file, for every number of lines and every limit, is all
\* of the first lines or cut to the limit with a character before the ellipsis.
THEOREM PreviewIsAlwaysHonest == TextSpec => []PreviewIsHonest
<1>1. TextInv => PreviewIsHonest
  <2>. SUFFICES ASSUME TextInv, NEW count \in LineCounts, NEW limit \in Limits
                PROVE  LET text  == prepareSource(raw)
                           shown == preview(text, count, limit)
                           all   == Excerpt(text, count)
                       IN \/ shown = all /\ Len(all) <= AtLeast(1, limit)
                          \/ /\ Len(all) > AtLeast(1, limit)
                             /\ Len(shown) \in 2..AtLeast(2, limit)
                             /\ Last(shown) = "ellipsis"
                             /\ IsPrefix(Front(shown), all)
                             /\ Last(Front(shown)) \notin Blank
    BY DEF PreviewIsHonest
  <2>1. count \in Nat /\ limit \in Nat
    BY TextAssumption
  <2>2. PICK text : text = prepareSource(raw)
    OBVIOUS
  <2>3. text \in Texts
    <3>1. raw \in Texts /\ "lf" \in Characters
      BY DEF TextInv, Characters, Blank
    <3>2. WithoutMark(raw) \in Texts
      BY <3>1, WithoutMarkGrows
    <3>3. LineFeeds(WithoutMark(raw)) \in Texts
      BY <3>1, <3>2, LineFeedsGrow
    <3>4. Lines(LineFeeds(WithoutMark(raw))) \in Seq(Texts)
      BY <3>3, LinesAre
    <3>5. <<>> \in Texts
      BY DEF Texts
    <3>6. Prepared(Lines(LineFeeds(WithoutMark(raw)))) \in Seq(Texts)
      BY <3>4, <3>5, PreparedGrows
    <3>. QED  BY <2>2, <3>6, JoinedIs DEF prepareSource
  <2>4. PICK all : all = Excerpt(text, count)
    OBVIOUS
  <2>5. all \in Texts /\ (all # <<>> => all[1] \notin Blank) /\ Len(all) \in Nat
    <3>1. all \in Texts /\ (all # <<>> => all[1] \notin Blank)
      BY <2>1, <2>3, <2>4, ExcerptIs
    <3>. QED  BY <3>1 DEF Texts
  <2>6. PICK shown : shown = preview(text, count, limit)
    OBVIOUS
  <2>7. PICK lim, k : lim = AtLeast(1, limit) /\ k = AtLeast(1, lim - 1)
    OBVIOUS
  <2>8. /\ lim \in Nat /\ lim >= 1 /\ k \in Nat /\ k >= 1 /\ k <= lim
        /\ k + 1 <= AtLeast(2, limit) /\ AtLeast(2, limit) \in Nat
    BY <2>1, <2>7 DEF AtLeast
  <2>9. shown = IF Len(all) <= lim THEN all
                ELSE TrimEnd(SubSeq(all, 1, k)) \o <<"ellipsis">>
    BY <2>4, <2>6, <2>7 DEF preview
  <2>10. CASE Len(all) <= lim
    BY <2>2, <2>4, <2>6, <2>7, <2>9, <2>10
  <2>11. CASE ~(Len(all) <= lim)
    <3>1. Len(all) > lim /\ k \in 1..Len(all) /\ all # <<>>
      BY <2>5, <2>8, <2>11
    <3>2. /\ Len(shown) \in 2..(k + 1)
          /\ Last(shown) = "ellipsis"
          /\ IsPrefix(Front(shown), all)
          /\ Last(Front(shown)) \notin Blank
      BY <2>5, <2>9, <2>11, <3>1, CutIs
    <3>3. Len(shown) \in 2..AtLeast(2, limit)
      <4>1. PICK q \in Nat : q = AtLeast(2, limit) /\ k + 1 <= q
        BY <2>8
      <4>2. Len(shown) \in 2..q
        BY <2>8, <3>2, <4>1
      <4>. QED  BY <4>1, <4>2
    <3>. QED  BY <2>2, <2>4, <2>6, <2>7, <3>1, <3>2, <3>3
  <2>. QED  BY <2>10, <2>11
<1>. QED  BY <1>1, TextInvariant, PTL
=============================================================================
