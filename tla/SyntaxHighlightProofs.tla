----------------------- MODULE SyntaxHighlightProofs -----------------------
(***************************************************************************)
(* For every language, alphabet and text: the scanner loses nothing, what is *)
(* coloured keeps its colour while the text grows, and what is coloured as a *)
(* comment or a string is one.                                               *)
(***************************************************************************)
EXTENDS SyntaxHighlight, DataInduction, TLAPS

\* What the loop keeps: the tokens are pieces of the text, one after another.
ScanInv == HighlightTypeOK /\ NothingIsLost

\* A piece that begins where the tokens end may follow them.
LEMMA PieceFollows ==
  ASSUME NEW ts \in Seq(Tokens), Consecutive(ts),
         NEW t \in Tokens, t.from = EndOf(ts) + 1
  PROVE  /\ Append(ts, t) \in Seq(Tokens)
         /\ Consecutive(Append(ts, t))
         /\ EndOf(Append(ts, t)) = t.to
<1> DEFINE us == Append(ts, t)
<1>1. us \in Seq(Tokens) /\ Len(us) = Len(ts) + 1 /\ us[Len(ts) + 1] = t
  OBVIOUS
<1>2. us # <<>>
  OBVIOUS
<1>3. EndOf(us) = t.to
  BY <1>1, <1>2 DEF EndOf
<1>4. ASSUME NEW k \in DOMAIN us
      PROVE  us[k].from = IF k = 1 THEN 1 ELSE us[k - 1].to + 1
  <2>1. k \in 1..(Len(ts) + 1)
    BY <1>1
  <2>2. CASE k = Len(ts) + 1 /\ ts = <<>>
    BY <1>1, <2>2 DEF EndOf
  <2>3. CASE k = Len(ts) + 1 /\ ts # <<>>
    <3>1. Len(ts) \in Nat \ {0} /\ us[Len(ts)] = ts[Len(ts)]
      BY <2>3
    <3> QED BY <1>1, <2>3, <3>1 DEF EndOf
  <2>4. CASE k <= Len(ts)
    <3>1. k \in DOMAIN ts /\ us[k] = ts[k]
      BY <2>1, <2>4
    <3>2. k # 1 => us[k - 1] = ts[k - 1]
      BY <2>1, <2>4
    <3> QED BY <3>1, <3>2 DEF Consecutive
  <2> QED BY <2>1, <2>2, <2>3, <2>4
<1> QED BY <1>1, <1>3, <1>4 DEF Consecutive

\* The plain piece up to the next match, or none where there is no gap.
LEMMA GapFollows ==
  ASSUME NEW ts \in Seq(Tokens), Consecutive(ts),
         NEW to \in Nat, to >= EndOf(ts), EndOf(ts) \in Nat
  PROVE  LET us == ts \o Plain(EndOf(ts) + 1, to) IN
           us \in Seq(Tokens) /\ Consecutive(us) /\ EndOf(us) = to
<1>1. CASE to = EndOf(ts)
  <2>1. Plain(EndOf(ts) + 1, to) = <<>>
    BY <1>1 DEF Plain
  <2>2. ts \o <<>> = ts
    OBVIOUS
  <2> QED BY <1>1, <2>1, <2>2
<1>2. CASE to > EndOf(ts)
  <2> DEFINE t == [type |-> "plain", from |-> EndOf(ts) + 1, to |-> to]
  <2>1. Plain(EndOf(ts) + 1, to) = <<t>>
    BY <1>2 DEF Plain
  <2>2. t \in Tokens /\ t.from = EndOf(ts) + 1 /\ t.to = to
    BY <1>2 DEF Tokens, Types
  <2>3. ts \o <<t>> = Append(ts, t)
    BY <2>2
  <2> QED BY <2>1, <2>2, <2>3, PieceFollows
<1> QED BY <1>1, <1>2

LEMMA ClassIsType == \A i, e : classify(i, e) \in Types
  BY DEF classify, Types

LEMMA RevealStep ==
  ASSUME ScanInv, NEW c \in Alphabet, Reveal(c)
  PROVE  ScanInv'
<1> USE DEF ScanInv, HighlightTypeOK, Reveal
<1>1. text' \in Seq(Alphabet) /\ lastEnd' \in 0..Len(text')
  OBVIOUS
<1>2. tokens' \in Seq(Tokens) /\ shown' \in Seq(Tokens)
  OBVIOUS
<1>3. Consecutive(tokens)' /\ EndOf(tokens)' = 0
  BY DEF Consecutive, EndOf
<1> QED BY <1>1, <1>2, <1>3 DEF NothingIsLost

LEMMA MatchStep ==
  ASSUME ScanInv, PushMatch
  PROVE  ScanInv'
<1>1. PICK i \in Least(Found) : \E e \in Match(i) :
        /\ tokens' = Append(tokens \o Plain(lastEnd + 1, i - 1),
                            [type |-> classify(i, e), from |-> i, to |-> e])
        /\ lastEnd' = e
  BY DEF PushMatch
<1>2. PICK e \in Match(i) :
        /\ tokens' = Append(tokens \o Plain(lastEnd + 1, i - 1),
                            [type |-> classify(i, e), from |-> i, to |-> e])
        /\ lastEnd' = e
  BY <1>1
<1> DEFINE t  == [type |-> classify(i, e), from |-> i, to |-> e]
           us == tokens \o Plain(lastEnd + 1, i - 1)
<1>3. i \in (lastEnd + 1)..Len(text)
  BY DEF Least, Found
<1>4. e \in i..Len(text)
  BY DEF Match
<1>5. /\ lastEnd \in Nat /\ Len(text) \in Nat /\ tokens \in Seq(Tokens)
      /\ Consecutive(tokens) /\ EndOf(tokens) = lastEnd /\ scanning
  BY DEF ScanInv, HighlightTypeOK, NothingIsLost, PushMatch
<1>6. us \in Seq(Tokens) /\ Consecutive(us) /\ EndOf(us) = i - 1
  <2>1. i - 1 \in Nat /\ i - 1 >= EndOf(tokens)
    BY <1>3, <1>5
  <2> QED BY <1>5, <2>1, GapFollows
<1>7. t \in Tokens /\ t.from = i /\ t.to = e
  <2>1. i \in Nat /\ e \in Nat /\ i <= e
    BY <1>3, <1>4, <1>5
  <2> QED BY <2>1, ClassIsType DEF Tokens
<1>8. tokens' \in Seq(Tokens) /\ Consecutive(tokens') /\ EndOf(tokens') = e
  <2>1. t.from = EndOf(us) + 1
    BY <1>3, <1>5, <1>6, <1>7
  <2> HIDE DEF t, us
  <2>2. tokens' = Append(us, t)
    BY <1>2 DEF t, us
  <2> QED BY <1>6, <1>7, <2>1, <2>2, PieceFollows
<1>9. HighlightTypeOK'
  BY <1>2, <1>3, <1>4, <1>5, <1>8 DEF ScanInv, HighlightTypeOK, PushMatch
<1>10. NothingIsLost'
  BY <1>2, <1>5, <1>8 DEF NothingIsLost, PushMatch, Consecutive, EndOf
<1> QED BY <1>9, <1>10 DEF ScanInv

LEMMA RestStep ==
  ASSUME ScanInv, PushRest
  PROVE  ScanInv'
<1>1. /\ lastEnd \in Nat /\ Len(text) \in Nat /\ tokens \in Seq(Tokens)
      /\ Consecutive(tokens) /\ EndOf(tokens) = lastEnd /\ lastEnd <= Len(text)
  BY DEF ScanInv, HighlightTypeOK, NothingIsLost, PushRest
<1>2. tokens' = tokens \o Plain(EndOf(tokens) + 1, Len(text))
  BY <1>1 DEF PushRest
<1>3. /\ tokens' \in Seq(Tokens) /\ Consecutive(tokens')
      /\ EndOf(tokens') = Len(text)
  BY <1>1, <1>2, GapFollows
<1> QED BY <1>1, <1>3 DEF ScanInv, HighlightTypeOK, NothingIsLost, PushRest,
           Consecutive, EndOf

LEMMA ClearStep ==
  ASSUME ScanInv, Clear
  PROVE  ScanInv'
<1>1. /\ text' = <<>> /\ tokens' = <<>> /\ shown' = <<>> /\ lastEnd' = 0
      /\ scanning' = FALSE /\ language' \in Languages
  BY DEF Clear, ScanInv, HighlightTypeOK
<1>2. /\ text' \in Seq(Alphabet) /\ tokens' \in Seq(Tokens)
      /\ shown' \in Seq(Tokens)
  BY <1>1
<1>3. lastEnd' \in 0..Len(text') /\ Len(text') = 0
  BY <1>1
<1>4. HighlightTypeOK'
  BY <1>1, <1>2, <1>3 DEF HighlightTypeOK
<1>5. NothingIsLost'
  BY <1>1, <1>3 DEF NothingIsLost, Consecutive, EndOf
<1> QED BY <1>4, <1>5 DEF ScanInv

LEMMA HighlightInitInv == HighlightInit => ScanInv
<1> SUFFICES ASSUME HighlightInit PROVE ScanInv
  OBVIOUS
<1>1. HighlightTypeOK
  <2>1. /\ text = <<>> /\ tokens = <<>> /\ shown = <<>> /\ lastEnd = 0
        /\ scanning = FALSE /\ language \in Languages
    BY DEF HighlightInit
  <2>2. text \in Seq(Alphabet) /\ tokens \in Seq(Tokens) /\ shown \in Seq(Tokens)
    BY <2>1
  <2>3. lastEnd \in 0..Len(text)
    BY <2>1
  <2> QED BY <2>1, <2>2, <2>3 DEF HighlightTypeOK
<1>2. NothingIsLost
  BY DEF HighlightInit, NothingIsLost, Consecutive, EndOf
<1> QED BY <1>1, <1>2 DEF ScanInv

LEMMA HighlightStepInv == ScanInv /\ [HighlightNext]_highlightVars => ScanInv'
<1> SUFFICES ASSUME ScanInv, [HighlightNext]_highlightVars PROVE ScanInv'
  OBVIOUS
<1>1. CASE \E c \in Alphabet : Reveal(c)
  BY <1>1, RevealStep
<1>2. CASE PushMatch
  BY <1>2, MatchStep
<1>3. CASE PushRest
  BY <1>3, RestStep
<1>4. CASE Clear
  BY <1>4, ClearStep
<1>5. CASE UNCHANGED highlightVars
  BY <1>5 DEF highlightVars, ScanInv, HighlightTypeOK, NothingIsLost,
              Consecutive, EndOf
<1> QED BY <1>1, <1>2, <1>3, <1>4, <1>5 DEF HighlightNext

\* The loop's invariant: type correctness, and the next theorem's property.
THEOREM ScanInvariant == HighlightSpec => []ScanInv
  BY HighlightInitInv, HighlightStepInv, PTL DEF HighlightSpec

\* The types of the scanner's variables, for every language and text.
THEOREM HighlightTypeCorrect == HighlightSpec => []HighlightTypeOK
<1>1. ScanInv => HighlightTypeOK
  BY DEF ScanInv
<1> QED BY <1>1, ScanInvariant, PTL

\* Nothing that was typed is lost, shown twice or out of order by the
\* highlighting, whatever the language's signs are and wherever typing stops.
THEOREM NothingIsEverLost == HighlightSpec => []NothingIsLost
<1>1. ScanInv => NothingIsLost
  BY DEF ScanInv
<1> QED BY <1>1, ScanInvariant, PTL

-----------------------------------------------------------------------------
(* What the alternatives match while the text grows.                          *)

LEMMA LeastExists ==
  ASSUME NEW a \in Int, NEW b \in Int, NEW S \in SUBSET (a..b), S # {}
  PROVE  Least(S) # {}
<1>. SUFFICES ASSUME Least(S) = {} PROVE FALSE
  OBVIOUS
<1>1. PICK e \in S : TRUE
  OBVIOUS
<1>. DEFINE T == {k \in Nat : \A d \in S : d > a + k}
<1>2. 0 \in T
  <2>1. \A d \in S : d # a
    <3>. SUFFICES ASSUME a \in S PROVE FALSE
      OBVIOUS
    <3>1. a \in Least(S)
      BY DEF Least
    <3>. QED  BY <3>1
  <2>. QED  BY <2>1
<1>3. \A k \in Nat : k \in T => k + 1 \in T
  <2>. SUFFICES ASSUME NEW k \in Nat, \A d \in S : d > a + k, a + k + 1 \in S PROVE FALSE
    OBVIOUS
  <2>1. a + k + 1 \in Least(S)
    BY DEF Least
  <2>. QED  BY <2>1
<1>4. \A k \in Nat : k \in T
  <2>. HIDE DEF T
  <2>. QED  BY <1>2, <1>3, NatSetInduction
<1>5. e - a \in Nat /\ e = a + (e - a)
  OBVIOUS
<1>6. e - a \in T
  <2>. HIDE DEF T
  <2>. QED  BY <1>4, <1>5
<1>. QED  BY <1>1, <1>5, <1>6

LEMMA GreatestExists ==
  ASSUME NEW a \in Int, NEW b \in Int, NEW S \in SUBSET (a..b), S # {}
  PROVE  Greatest(S) # {}
<1>. DEFINE U == {x \in (-b)..(-a) : -x \in S}
<1>1. U # {}
  <2>1. PICK e \in S : TRUE
    OBVIOUS
  <2>2. -e \in (-b)..(-a) /\ -(-e) = e
    OBVIOUS
  <2>. QED  BY <2>1, <2>2
<1>2. PICK x : x \in Least(U)
  <2>1. U \in SUBSET ((-b)..(-a)) /\ -b \in Int /\ -a \in Int
    OBVIOUS
  <2>. HIDE DEF U
  <2>2. Least(U) # {}
    BY <1>1, <2>1, LeastExists
  <2>. QED  BY <2>2
<1>3. -x \in S /\ x \in Int /\ \A d \in S : x <= -d
  <2>1. \A d \in S : -d \in U
    <3>1. \A d \in S : -d \in (-b)..(-a) /\ -(-d) = d
      OBVIOUS
    <3>. QED  BY <3>1
  <2>. QED  BY <1>2, <2>1 DEF Least
<1>4. -x \in Greatest(S)
  BY <1>3 DEF Greatest
<1>. QED  BY <1>4

\* What is the least below a bound does not depend on what is above.
LEMMA LeastIsKept ==
  ASSUME NEW S \in SUBSET Int, NEW U \in SUBSET Int, NEW n \in Int,
         \A x \in Int : x < n => (x \in S <=> x \in U),
         NEW e \in Least(S), e < n
  PROVE  Least(U) = {e}
<1>1. e \in S /\ e \in U /\ \A d \in S : e <= d
  BY DEF Least
<1>2. \A d \in U : e <= d
  <2>. SUFFICES ASSUME NEW d \in U, d < e PROVE FALSE
    BY <1>1
  <2>1. d \in S
    BY <1>1
  <2>. QED  BY <1>1, <2>1
<1>3. e \in Least(U)
  BY <1>1, <1>2 DEF Least
<1>4. ASSUME NEW d \in Least(U) PROVE d = e
  BY <1>1, <1>2, <1>4 DEF Least
<1>. QED  BY <1>3, <1>4

LEMMA EquivalenceIsEquality ==
  ASSUME NEW a \in BOOLEAN, NEW b \in BOOLEAN, a <=> b PROVE a = b
OBVIOUS

\* What Reached says, without the recursion.
ReachedByStep(i, p) ==
  \/ p = i + 1
  \/ p > i + 1 /\ p - 1 \in Reached(i) /\ text[p - 1] # "backslash"
  \/ p > i + 2 /\ p - 2 \in Reached(i) /\ text[p - 2] = "backslash"
       /\ text[p - 1] # "newline"

ReachedIsByStep ==
  \A i \in Nat : \A p \in (i + 1)..(Len(text) + 1) : p \in Reached(i) <=> ReachedByStep(i, p)

LEMMA ReachedSteps == ReachedIsByStep
<1>. SUFFICES ASSUME NEW i \in Nat
              PROVE  \A p \in (i + 1)..(Len(text) + 1) : p \in Reached(i) <=> ReachedByStep(i, p)
  BY DEF ReachedIsByStep
<1>. DEFINE Step(A, p) == \/ p = i + 1
                          \/ p > i + 1 /\ p - 1 \in A /\ text[p - 1] # "backslash"
                          \/ p > i + 2 /\ p - 2 \in A /\ text[p - 2] = "backslash"
                               /\ text[p - 1] # "newline"
            Closed(A) == \A p \in Nat : Step(A, p) => p \in A
            R == {p \in Nat : \A A \in SUBSET Nat : Closed(A) => p \in A}
            R1 == {p \in Nat : Step(R, p)}
            Goes(f) == f = [p \in Nat |->
                              \/ p = i + 1
                              \/ p > i + 1 /\ f[p - 1] /\ text[p - 1] # "backslash"
                              \/ p > i + 2 /\ f[p - 2] /\ text[p - 2] = "backslash"
                                   /\ text[p - 1] # "newline"]
<1>1. Closed(R)
  OBVIOUS
<1>2. R1 \subseteq R
  BY <1>1
<1>3. Closed(R1)
  BY <1>2
<1>4. R \subseteq R1
  BY <1>3
<1>5. \A p \in Nat : p \in R <=> Step(R, p)
  BY <1>2, <1>4
<1>. DEFINE g == [p \in Nat |-> p \in R]
            Rhs(p) == \/ p = i + 1
                      \/ p > i + 1 /\ g[p - 1] /\ text[p - 1] # "backslash"
                      \/ p > i + 2 /\ g[p - 2] /\ text[p - 2] = "backslash"
                           /\ text[p - 1] # "newline"
<1>. HIDE DEF R
<1>6. ASSUME NEW p \in Nat PROVE (p \in R) = Rhs(p)
  <2>1. (p > i + 1 => p - 1 \in Nat) /\ (p > i + 2 => p - 2 \in Nat)
    OBVIOUS
  <2>2. \A q \in Nat : g[q] <=> q \in R
    BY Zenon
  <2>3. (p \in R) <=> Rhs(p)
    <3>. HIDE DEF g
    <3>1. p > i + 1 => (g[p - 1] <=> p - 1 \in R)
      BY <2>1, <2>2, Zenon
    <3>2. p > i + 2 => (g[p - 2] <=> p - 2 \in R)
      BY <2>1, <2>2, Zenon
    <3>3. p \in R <=> Step(R, p)
      BY <1>5
    <3>. QED  BY <3>1, <3>2, <3>3
  <2>4. (p \in R) \in BOOLEAN
    OBVIOUS
  <2>5. Rhs(p) \in BOOLEAN
    <3>. HIDE DEF g
    <3>. QED  BY Zenon
  <2>. HIDE DEF Rhs
  <2>. QED  BY <2>3, <2>4, <2>5, EquivalenceIsEquality
<1>7. Goes(g)
  <2>1. g = [p \in Nat |-> Rhs(p)]
    <3>. HIDE DEF Rhs
    <3>. QED  BY <1>6, Zenon
  <2>. QED  BY <2>1
<1>. DEFINE at == CHOOSE f : Goes(f)
<1>8. Goes(at)
  <2>. HIDE DEF Goes, g
  <2>. QED  BY <1>7
<1>9. Reached(i) = {p \in (i + 1)..(Len(text) + 1) : at[p]}
  BY DEF Reached
<1>10. \A p \in Nat : at[p] <=>
                       \/ p = i + 1
                       \/ p > i + 1 /\ at[p - 1] /\ text[p - 1] # "backslash"
                       \/ p > i + 2 /\ at[p - 2] /\ text[p - 2] = "backslash"
                            /\ text[p - 1] # "newline"
  <2>. HIDE DEF at
  <2>. QED  BY <1>8
<1>. HIDE DEF at
<1>. QED  BY <1>9, <1>10 DEF ReachedByStep

LEMMA ReachedStepsNext == ReachedIsByStep'
<1>. QED  BY ReachedSteps, PTL

\* One character more.  A place that counts is in front of the last but one.
Grows(c, lang) ==
  /\ text \in Seq(Alphabet) /\ c \in Alphabet /\ text' = Append(text, c)
  /\ lang \in Languages /\ language = lang /\ language' = lang

LEMMA TextGrows ==
  ASSUME NEW c, NEW lang, Grows(c, lang)
  PROVE  /\ Len(text) \in Nat /\ Len(text') = Len(text) + 1
         /\ \A p \in 1..Len(text) : text'[p] = text[p]
         /\ DOMAIN text = 1..Len(text) /\ DOMAIN text' = 1..(Len(text) + 1)
         /\ IsLanguage(lang)
  BY HighlightAssumption DEF Grows

LEMMA AtIsKept ==
  ASSUME NEW c, NEW lang, Grows(c, lang), NEW word, Len(word) \in Nat, DOMAIN word = 1..Len(word),
         NEW i \in Nat \ {0}, i + Len(word) - 1 <= Len(text)
  PROVE  At(i, word)' <=> At(i, word)
<1>1. \A k \in DOMAIN word : i + k - 1 \in 1..Len(text)
  BY TextGrows
<1>2. \A k \in DOMAIN word : text'[i + k - 1] = text[i + k - 1]
  BY <1>1, TextGrows
<1>3. i + Len(word) - 1 <= Len(text')
  BY TextGrows
<1>. QED  BY <1>2, <1>3 DEF At

LEMMA SignIsKept ==
  ASSUME NEW c, NEW lang, Grows(c, lang), NEW word, IsSign(word), NEW i \in 1..(Len(text) - 1)
  PROVE  At(i, word)' <=> At(i, word)
<1>1. Len(word) \in Nat /\ Len(word) >= 1 /\ Len(word) <= 2 /\ DOMAIN word = 1..Len(word) /\ Len(text) \in Nat
  BY TextGrows DEF IsSign
<1>2. i \in Nat \ {0} /\ i + Len(word) - 1 <= Len(text) /\ Len(word) \in Nat
  BY <1>1
<1>. QED  BY <1>1, <1>2, AtIsKept

LEMMA WordCharIsKept ==
  ASSUME NEW c, NEW lang, Grows(c, lang)
  PROVE  /\ \A p \in Int : p <= Len(text) => (IsWordChar(p)' <=> IsWordChar(p))
         /\ ~IsWordChar(Len(text) + 1)
BY TextGrows DEF IsWordChar

\* A match that ends in front of the last character, while the text grows.
Keeps(old, new) ==
  /\ old = {} => new = {}
  /\ \A e \in old : e < Len(text) => new = {e}

BlockEnds(i, opening, closing) ==
  {e \in i..Len(text) :
     \/ e = Len(text)
     \/ /\ e >= i + Len(opening) + Len(closing) - 1
        /\ At(e - Len(closing) + 1, closing)}

LEMMA BlockEndsAreKept ==
  ASSUME NEW c, NEW lang, Grows(c, lang), NEW i \in 1..(Len(text) - 1),
         NEW opening, IsSign(opening), NEW closing, IsSign(closing)
  PROVE  /\ Least(BlockEnds(i, opening, closing)) # {}
         /\ Keeps(Least(BlockEnds(i, opening, closing)), Least(BlockEnds(i, opening, closing)'))
<1>. DEFINE S == BlockEnds(i, opening, closing)
            U == BlockEnds(i, opening, closing)'
<1>1. /\ Len(opening) \in Nat /\ Len(opening) >= 1 /\ Len(closing) \in Nat
      /\ DOMAIN closing = 1..Len(closing)
      /\ Len(text) \in Nat /\ Len(text') = Len(text) + 1
  BY TextGrows DEF IsSign
<1>2. Least(S) # {}
  <2>1. S \in SUBSET (i..Len(text)) /\ S # {} /\ i \in Int /\ Len(text) \in Int
    BY <1>1 DEF BlockEnds
  <2>. HIDE DEF S
  <2>. QED  BY <2>1, LeastExists
<1>3. ASSUME NEW x \in i..(Len(text) - 1), x >= i + Len(opening) + Len(closing) - 1
      PROVE  At(x - Len(closing) + 1, closing)' <=> At(x - Len(closing) + 1, closing)
  <2>1. /\ x - Len(closing) + 1 \in Nat \ {0}
        /\ (x - Len(closing) + 1) + Len(closing) - 1 <= Len(text)
    <3>1. x \in Int /\ x < Len(text) /\ i \in Int /\ i >= 1
      BY <1>1
    <3>2. Len(opening) \in Int /\ Len(opening) >= 1 /\ Len(closing) \in Int /\ Len(text) \in Int
      BY <1>1
    <3>. QED  BY <1>3, <3>1, <3>2
  <2>. QED  BY <1>1, <2>1, AtIsKept
<1>4. \A x \in Int : x < Len(text) => (x \in S <=> x \in U)
  BY <1>1, <1>3 DEF BlockEnds
<1>5. S \in SUBSET Int /\ U \in SUBSET Int /\ Len(text) \in Int
  BY <1>1 DEF BlockEnds
<1>6. ASSUME NEW e \in Least(S), e < Len(text) PROVE Least(U) = {e}
  <2>. HIDE DEF S, U
  <2>. QED  BY <1>4, <1>5, <1>6, LeastIsKept
<1>. QED  BY <1>2, <1>6 DEF Keeps

LEMMA BlockCommentIsKept ==
  ASSUME NEW c, NEW lang, Grows(c, lang), NEW i \in 1..(Len(text) - 1)
  PROVE  Keeps(BlockComment(i), BlockComment(i)')
<1>1. CASE lang.blockComment = None
  BY <1>1 DEF BlockComment, Keeps, Grows
<1>2. CASE lang.blockComment # None
  <2>. DEFINE opening == lang.blockComment[1]
              closing == lang.blockComment[2]
  <2>1. IsSign(opening) /\ IsSign(closing)
    BY <1>2, TextGrows DEF IsLanguage
  <2>2. At(i, opening)' <=> At(i, opening)
    BY <2>1, SignIsKept
  <2>3. /\ BlockComment(i) = IF ~At(i, opening) THEN {} ELSE Least(BlockEnds(i, opening, closing))
        /\ BlockComment(i)' = IF ~At(i, opening)' THEN {}
                              ELSE Least(BlockEnds(i, opening, closing)')
    BY <1>2 DEF BlockComment, Grows, BlockEnds
  <2>4. /\ Least(BlockEnds(i, opening, closing)) # {}
        /\ Keeps(Least(BlockEnds(i, opening, closing)), Least(BlockEnds(i, opening, closing)'))
    BY <2>1, BlockEndsAreKept
  <2>. QED  BY <2>2, <2>3, <2>4 DEF Keeps
<1>. QED  BY <1>1, <1>2

LineEnds(i, sign) ==
  {e \in i..Len(text) :
     /\ e >= i + Len(sign) - 1
     /\ \A p \in (i + Len(sign))..e : text[p] # "newline"}

LEMMA LineEndsAreKept ==
  ASSUME NEW c, NEW lang, Grows(c, lang), NEW i \in 1..(Len(text) - 1),
         NEW sign, IsSign(sign)
  PROVE  /\ Greatest(LineEnds(i, sign)) # {}
         /\ Keeps(Greatest(LineEnds(i, sign)), Greatest(LineEnds(i, sign)'))
<1>. DEFINE S == LineEnds(i, sign)
            U == LineEnds(i, sign)'
<1>1. Len(sign) \in Nat /\ Len(sign) >= 1 /\ Len(sign) <= 2 /\ Len(text) \in Nat /\ Len(text') = Len(text) + 1
  BY TextGrows DEF IsSign
<1>2. Greatest(S) # {}
  <2>1. i + Len(sign) - 1 \in i..Len(text) /\ (i + Len(sign))..(i + Len(sign) - 1) = {}
    BY <1>1
  <2>2. i + Len(sign) - 1 \in S
    BY <1>1, <2>1 DEF LineEnds
  <2>3. S \in SUBSET (i..Len(text)) /\ i \in Int /\ Len(text) \in Int
    BY <1>1 DEF LineEnds
  <2>. HIDE DEF S
  <2>. QED  BY <2>2, <2>3, GreatestExists
<1>3. ASSUME NEW e \in Greatest(S), e < Len(text) PROVE Greatest(U) = {e}
  <2>1. e \in S /\ e \in i..(Len(text) - 1)
    BY <1>1, <1>3 DEF Greatest, LineEnds
  <2>2. e + 1 \notin S
    BY <2>1 DEF Greatest
  <2>3. text[e + 1] = "newline" /\ e + 1 >= i + Len(sign)
    BY <1>1, <2>1, <2>2 DEF LineEnds
  <2>4. text'[e + 1] = "newline" /\ \A p \in i..e : text'[p] = text[p]
    BY <1>1, <2>1, <2>3, TextGrows
  <2>5. e \in U
    BY <1>1, <2>1, <2>4 DEF LineEnds
  <2>6. \A d \in U : d <= e
    BY <1>1, <2>1, <2>3, <2>4 DEF LineEnds
  <2>7. e \in Greatest(U)
    BY <2>5, <2>6 DEF Greatest
  <2>8. U \subseteq Int
    BY <1>1 DEF LineEnds
  <2>9. \A d \in Greatest(U) : d = e
    BY <2>5, <2>6, <2>8 DEF Greatest
  <2>. QED  BY <2>7, <2>9
<1>. QED  BY <1>2, <1>3 DEF Keeps

LEMMA LineCommentIsKept ==
  ASSUME NEW c, NEW lang, Grows(c, lang), NEW i \in 1..(Len(text) - 1)
  PROVE  Keeps(LineComment(i), LineComment(i)')
<1>. DEFINE sign == lang.lineComment
<1>1. IsSign(sign)
  BY TextGrows DEF IsLanguage
<1>2. At(i, sign)' <=> At(i, sign)
  BY <1>1, SignIsKept
<1>3. /\ LineComment(i) = IF ~At(i, sign) THEN {} ELSE Greatest(LineEnds(i, sign))
      /\ LineComment(i)' = IF ~At(i, sign)' THEN {} ELSE Greatest(LineEnds(i, sign)')
  BY DEF LineComment, Grows, LineEnds
<1>4. /\ Greatest(LineEnds(i, sign)) # {}
      /\ Keeps(Greatest(LineEnds(i, sign)), Greatest(LineEnds(i, sign)'))
  BY <1>1, LineEndsAreKept
<1>. QED  BY <1>2, <1>3, <1>4 DEF Keeps

LEMMA GreatestIsKept ==
  ASSUME NEW U \in SUBSET Int, NEW e \in U, \A d \in U : d <= e
  PROVE  Greatest(U) = {e}
<1>1. e \in Greatest(U)
  BY DEF Greatest
<1>2. \A d \in Greatest(U) : d = e
  BY DEF Greatest
<1>. QED  BY <1>1, <1>2

LEMMA WordIsKept ==
  ASSUME NEW c, NEW lang, Grows(c, lang), NEW i \in 1..(Len(text) - 1)
  PROVE  Keeps(Word(i), Word(i)')
<1>. DEFINE S == {e \in i..Len(text) : \A p \in i..e : IsWordChar(p)}
            U == {e \in i..Len(text') : \A p \in i..e : IsWordChar(p)'}
<1>1. Len(text) \in Nat /\ Len(text') = Len(text) + 1 /\ text'[i] = text[i]
  BY TextGrows
<1>2. /\ Word(i) = IF text[i] \notin Letters THEN {} ELSE Greatest(S)
      /\ Word(i)' = IF text'[i] \notin Letters THEN {} ELSE Greatest(U)
  BY DEF Word
<1>3. CASE text[i] \in Letters
  <2>1. IsWordChar(i)
    BY <1>1, <1>3, TextGrows DEF IsWordChar, InWords
  <2>2. Greatest(S) # {}
    <3>1. i \in S
      BY <1>1, <2>1
    <3>2. S \in SUBSET (i..Len(text)) /\ i \in Int /\ Len(text) \in Int
      BY <1>1
    <3>. HIDE DEF S
    <3>. QED  BY <3>1, <3>2, GreatestExists
  <2>3. ASSUME NEW e \in Greatest(S), e < Len(text) PROVE Greatest(U) = {e}
    <3>1. e \in S /\ e \in i..(Len(text) - 1)
      BY <1>1, <2>3 DEF Greatest
    <3>2. e + 1 \notin S
      BY <3>1 DEF Greatest
    <3>3. ~IsWordChar(e + 1)
      BY <1>1, <3>1, <3>2
    <3>4. ~IsWordChar(e + 1)' /\ \A p \in i..e : IsWordChar(p)'
      BY <1>1, <3>1, <3>3, WordCharIsKept
    <3>5. e \in U
      BY <1>1, <3>1, <3>4
    <3>6. \A d \in U : d <= e
      BY <1>1, <3>1, <3>4
    <3>7. U \in SUBSET Int
      BY <1>1
    <3>. HIDE DEF U
    <3>. QED  BY <3>5, <3>6, <3>7, GreatestIsKept
  <2>. HIDE DEF S, U
  <2>. QED  BY <1>1, <1>2, <1>3, <2>2, <2>3 DEF Keeps
<1>4. CASE text[i] \notin Letters
  BY <1>1, <1>2, <1>4 DEF Keeps
<1>. QED  BY <1>3, <1>4

LEMMA ReachedIsKept ==
  ASSUME NEW c, NEW lang, Grows(c, lang), NEW i \in 1..Len(text)
  PROVE  \A p \in (i + 1)..(Len(text) + 1) : p \in Reached(i)' <=> p \in Reached(i)
<1>1. Len(text) \in Nat /\ Len(text') = Len(text) + 1 /\ i \in Nat
  BY TextGrows
<1>2. /\ \A p \in (i + 1)..(Len(text) + 1) : p \in Reached(i) <=> ReachedByStep(i, p)
      /\ \A p \in (i + 1)..(Len(text) + 1) : p \in Reached(i)' <=> ReachedByStep(i, p)'
  BY <1>1, ReachedSteps, ReachedStepsNext DEF ReachedIsByStep
<1>. DEFINE n == Len(text) - i
            T == {k \in 0..n : \A p \in (i + 1)..(i + 1 + k) : p \in Reached(i)' <=> p \in Reached(i)}
<1>3. 0 \in T
  <2>1. i + 1 \in (i + 1)..(Len(text) + 1)
    BY <1>1
  <2>2. i + 1 \in Reached(i) /\ i + 1 \in Reached(i)'
    BY <1>2, <2>1 DEF ReachedByStep
  <2>. QED  BY <1>1, <2>2
<1>4. ASSUME NEW k \in 0..(n - 1), k \in T PROVE k + 1 \in T
  <2>. DEFINE p == i + 2 + k
  <2>1. k + 1 \in 0..n /\ p \in (i + 2)..(Len(text) + 1) /\ p \in (i + 1)..(Len(text) + 1)
    BY <1>1
  <2>2. p - 1 \in (i + 1)..(i + 1 + k) /\ (p > i + 2 => p - 2 \in (i + 1)..(i + 1 + k))
    BY <1>1
  <2>3. p - 1 \in Reached(i)' <=> p - 1 \in Reached(i)
    BY <1>4, <2>2
  <2>4. p > i + 2 => (p - 2 \in Reached(i)' <=> p - 2 \in Reached(i))
    BY <1>4, <2>2
  <2>5. text'[p - 1] = text[p - 1] /\ (p > i + 2 => text'[p - 2] = text[p - 2])
    <3>1. p - 1 \in 1..Len(text) /\ (p > i + 2 => p - 2 \in 1..Len(text))
      BY <1>1
    <3>. QED  BY <3>1, TextGrows
  <2>6. ReachedByStep(i, p)' <=> ReachedByStep(i, p)
    BY <2>3, <2>4, <2>5 DEF ReachedByStep
  <2>7. p \in Reached(i)' <=> p \in Reached(i)
    BY <1>2, <2>1, <2>6
  <2>8. \A q \in (i + 1)..(i + 1 + (k + 1)) : q \in (i + 1)..(i + 1 + k) \/ q = p
    BY <1>1
  <2>. QED  BY <1>4, <2>1, <2>7, <2>8
<1>5. \A k \in 0..n : k \in T
  <2>1. n \in Nat
    BY <1>1
  <2>. HIDE DEF T, n
  <2>. QED  BY <1>3, <1>4, <2>1, RangeSetInduction
<1>6. n \in 0..n /\ i + 1 + n = Len(text) + 1
  BY <1>1
<1>7. n \in T
  BY <1>5, <1>6
<1>. QED  BY <1>6, <1>7

StringEnds(i) ==
  {e \in i..Len(text) :
     \/ e = Len(text) /\ e + 1 \in Reached(i)
     \/ e \in Reached(i) /\ text[e] = text[i]}

\* Where there is no string although there is a quote, the text ends in the
\* middle of an escape, and one may appear.
LEMMA StringIsKept ==
  ASSUME NEW c, NEW lang, Grows(c, lang), NEW i \in 1..(Len(text) - 1)
  PROVE  /\ text[i] \notin lang.stringChars => StringLiteral(i) = {} /\ StringLiteral(i)' = {}
         /\ \A e \in StringLiteral(i) : e < Len(text) => StringLiteral(i)' = {e}
         /\ StringLiteral(i) = {} => \A e \in StringLiteral(i)' :
                                     e = Len(text) + 1 /\ text[Len(text)] = "backslash"
<1>1. Len(text) \in Nat /\ Len(text') = Len(text) + 1 /\ text'[i] = text[i] /\ i \in Nat
  BY TextGrows
<1>2. /\ StringLiteral(i) = IF text[i] \notin lang.stringChars THEN {} ELSE Least(StringEnds(i))
      /\ StringLiteral(i)' = IF text'[i] \notin lang.stringChars THEN {} ELSE Least(StringEnds(i)')
  BY DEF StringLiteral, Grows, StringEnds
<1>3. \A p \in (i + 1)..(Len(text) + 1) : p \in Reached(i)' <=> p \in Reached(i)
  BY <1>1, ReachedIsKept
<1>4. /\ StringEnds(i) \in SUBSET (i..Len(text))
      /\ StringEnds(i)' \in SUBSET (i..(Len(text) + 1))
  BY <1>1 DEF StringEnds
<1>5. ASSUME NEW x \in Int, x < Len(text)
      PROVE  x \in StringEnds(i) <=> x \in StringEnds(i)'
  <2>1. CASE x \in (i + 1)..Len(text)
    <3>1. text'[x] = text[x]
      BY <1>1, <2>1, TextGrows
    <3>2. x \in Reached(i)' <=> x \in Reached(i)
      BY <1>1, <1>3, <2>1
    <3>. QED  BY <1>1, <1>5, <2>1, <3>1, <3>2 DEF StringEnds
  <2>2. CASE x \notin (i + 1)..Len(text)
    <3>1. i \notin Reached(i) /\ i \notin Reached(i)'
      BY <1>1 DEF Reached
    <3>. QED  BY <1>1, <1>4, <1>5, <2>2, <3>1 DEF StringEnds
  <2>. QED  BY <2>1, <2>2
<1>6. ASSUME NEW e \in Least(StringEnds(i)), e < Len(text)
      PROVE  Least(StringEnds(i)') = {e}
  <2>1. /\ StringEnds(i) \in SUBSET Int /\ StringEnds(i)' \in SUBSET Int
        /\ Len(text) \in Int
    BY <1>1, <1>4
  <2>. QED  BY <1>5, <1>6, <2>1, LeastIsKept
<1>7. ASSUME Least(StringEnds(i)) = {}, NEW e \in Least(StringEnds(i)')
      PROVE  e = Len(text) + 1 /\ text[Len(text)] = "backslash"
  <2>1. StringEnds(i) = {}
    <3>1. i \in Int /\ Len(text) \in Int
      BY <1>1
    <3>. QED  BY <1>4, <1>7, <3>1, LeastExists
  <2>2. e \in StringEnds(i)' /\ e \in i..(Len(text) + 1)
    BY <1>4, <1>7 DEF Least
  <2>3. Len(text) + 1 \notin Reached(i) /\ Len(text) + 1 \notin Reached(i)'
    <3>1. Len(text) + 1 \notin Reached(i)
      BY <1>1, <2>1 DEF StringEnds
    <3>. QED  BY <1>1, <1>3, <3>1
  <2>4. e # Len(text)
    <3>. SUFFICES ASSUME e = Len(text) PROVE FALSE
      OBVIOUS
    <3>1. e \in Reached(i)' /\ text'[e] = text'[i]
      BY <1>1, <2>2 DEF StringEnds
    <3>2. e \in Reached(i) /\ text[e] = text[i]
      BY <1>1, <1>3, <3>1, TextGrows
    <3>. QED  BY <1>1, <2>1, <3>2 DEF StringEnds
  <2>5. e = Len(text) + 1
    BY <1>1, <1>5, <2>1, <2>2, <2>4
  <2>6. PICK q : q = Len(text) + 2
    OBVIOUS
  <2>7. q \in Reached(i)'
    BY <1>1, <2>2, <2>3, <2>5, <2>6 DEF StringEnds
  <2>8. q \in (i + 1)..(Len(text') + 1)
    BY <1>1, <2>6
  <2>9. ReachedByStep(i, q)'
    BY <1>1, <2>7, <2>8, ReachedStepsNext DEF ReachedIsByStep
  <2>10. text[Len(text)] = "backslash"
    <3>1. q # i + 1 /\ q - 1 \notin Reached(i)' /\ q - 2 = Len(text)
      BY <1>1, <2>3, <2>6
    <3>2. text'[q - 2] = "backslash"
      BY <2>9, <3>1 DEF ReachedByStep
    <3>. QED  BY <1>1, <3>1, <3>2, TextGrows
  <2>. QED  BY <2>5, <2>10
<1>. QED  BY <1>1, <1>2, <1>6, <1>7

NumberEnds(i) ==
  {e \in i..Len(text) :
    /\ ~IsWordChar(i - 1) /\ ~IsWordChar(e + 1)
    /\ \E d \in i..e :
         /\ \A p \in i..d : text[p] \in Digits
         /\ \/ d = e
            \/ /\ d + 2 <= e /\ text[d + 1] = "dot"
               /\ \A p \in (d + 2)..e : text[p] \in Digits}

LEMMA NumberEndsAre ==
  ASSUME NEW i \in Nat, NEW e \in i..Len(text), ~IsWordChar(i - 1), ~IsWordChar(e + 1),
         NEW d \in i..e, \A p \in i..d : text[p] \in Digits,
         d = e \/ (d + 2 <= e /\ text[d + 1] = "dot" /\ \A p \in (d + 2)..e : text[p] \in Digits)
  PROVE  e \in NumberEnds(i)
BY DEF NumberEnds

\* A number that is followed by a dot may get its fraction.
LEMMA NumberIsKept ==
  ASSUME NEW c, NEW lang, Grows(c, lang), NEW i \in 1..(Len(text) - 1)
  PROVE  /\ NumberLiteral(i) = {} => NumberLiteral(i)' = {}
         /\ NumberLiteral(i) # {} => text[i] \in Digits
         /\ \A e \in NumberLiteral(i) : e < Len(text) =>
              /\ NumberLiteral(i)' # {}
              /\ \A f \in NumberLiteral(i)' :
                   f = e \/ (f = Len(text) + 1 /\ e = Len(text) - 1)
<1>. DEFINE n == Len(text)
            S == NumberEnds(i)
            U == NumberEnds(i)'
<1>1. /\ n \in Nat /\ Len(text') = n + 1 /\ i \in Nat /\ i >= 1 /\ i < n
      /\ \A p \in 1..n : text'[p] = text[p]
  BY TextGrows
<1>2. NumberLiteral(i) = Greatest(S) /\ NumberLiteral(i)' = Greatest(U)
  BY DEF NumberLiteral, NumberEnds
<1>3. S \in SUBSET (i..n) /\ U \in SUBSET (i..(n + 1))
  BY <1>1 DEF NumberEnds
<1>4. Digits \subseteq InWords /\ "dot" \notin InWords
  BY HighlightAssumption DEF InWords
<1>5. IsWordChar(i - 1)' <=> IsWordChar(i - 1)
  BY <1>1, WordCharIsKept
<1>6. ASSUME NEW e \in i..(n - 1) PROVE e \in S <=> e \in U
  <2>1. IsWordChar(e + 1)' <=> IsWordChar(e + 1)
    BY <1>1, WordCharIsKept
  <2>2. \A p \in i..e : text'[p] = text[p]
    BY <1>1
  <2>3. \A d \in i..e :
          /\ (\A p \in i..d : text'[p] \in Digits) <=> (\A p \in i..d : text[p] \in Digits)
          /\ d + 2 <= e => text'[d + 1] = text[d + 1]
          /\ (\A p \in (d + 2)..e : text'[p] \in Digits) <=> (\A p \in (d + 2)..e : text[p] \in Digits)
    BY <1>1, <2>2
  <2>4. e \in i..Len(text) /\ e \in i..Len(text')
    BY <1>1
  <2>. QED  BY <1>5, <2>1, <2>3, <2>4 DEF NumberEnds
<1>7. n \in U => n \in S
  <2>. SUFFICES ASSUME n \in U PROVE n \in S
    OBVIOUS
  <2>1. PICK e : e = n
    OBVIOUS
  <2>2. /\ ~IsWordChar(i - 1)'
        /\ \E d \in i..e :
         /\ \A p \in i..d : text'[p] \in Digits
         /\ \/ d = e
            \/ /\ d + 2 <= e /\ text'[d + 1] = "dot"
               /\ \A p \in (d + 2)..e : text'[p] \in Digits
    BY <2>1 DEF NumberEnds
  <2>3. PICK d \in i..e :
         /\ \A p \in i..d : text'[p] \in Digits
         /\ \/ d = e
            \/ /\ d + 2 <= e /\ text'[d + 1] = "dot"
               /\ \A p \in (d + 2)..e : text'[p] \in Digits
    BY <2>2
  <2>4. /\ \A p \in i..d : text[p] \in Digits
        /\ \/ d = e
           \/ /\ d + 2 <= e /\ text[d + 1] = "dot"
              /\ \A p \in (d + 2)..e : text[p] \in Digits
    BY <1>1, <2>1, <2>3
  <2>5. e \in i..Len(text) /\ ~IsWordChar(e + 1) /\ ~IsWordChar(i - 1)
    BY <1>1, <1>5, <2>1, <2>2, WordCharIsKept
  <2>. QED  BY <1>1, <2>1, <2>4, <2>5, NumberEndsAre
<1>8. n + 1 \in U => n \in S \/ n - 1 \in S
  <2>. SUFFICES ASSUME n + 1 \in U PROVE n \in S \/ n - 1 \in S
    OBVIOUS
  <2>1. PICK e : e = n + 1
    OBVIOUS
  <2>2. /\ ~IsWordChar(i - 1)'
        /\ \E d \in i..e :
         /\ \A p \in i..d : text'[p] \in Digits
         /\ \/ d = e
            \/ /\ d + 2 <= e /\ text'[d + 1] = "dot"
               /\ \A p \in (d + 2)..e : text'[p] \in Digits
    BY <2>1 DEF NumberEnds
  <2>3. PICK d \in i..e :
         /\ \A p \in i..d : text'[p] \in Digits
         /\ \/ d = e
            \/ /\ d + 2 <= e /\ text'[d + 1] = "dot"
               /\ \A p \in (d + 2)..e : text'[p] \in Digits
    BY <2>2
  <2>4. ~IsWordChar(i - 1) /\ ~IsWordChar(n + 1)
    BY <1>5, <2>2, WordCharIsKept
  <2>5. \A p \in i..n : p <= d => text[p] \in Digits
    BY <1>1, <2>1, <2>3
  <2>6. CASE d = e
    <3>1. n \in i..n /\ \A p \in i..n : text[p] \in Digits
      BY <1>1, <2>1, <2>5, <2>6
    <3>. QED  BY <1>1, <2>4, <3>1, NumberEndsAre
  <2>7. CASE d + 2 <= n /\ text'[d + 1] = "dot" /\ \A p \in (d + 2)..e : text'[p] \in Digits
    <3>1. d \in i..n /\ n \in i..n /\ text[d + 1] = "dot"
      BY <1>1, <2>1, <2>3, <2>7
    <3>2. \A p \in (d + 2)..n : text[p] \in Digits
      BY <1>1, <2>1, <2>3, <2>7
    <3>3. \A p \in i..d : text[p] \in Digits
      BY <1>1, <2>5, <3>1
    <3>. QED  BY <1>1, <2>4, <2>7, <3>1, <3>2, <3>3, NumberEndsAre
  <2>8. CASE d + 1 = n /\ text'[d + 1] = "dot"
    <3>1. text[n] = "dot" /\ d = n - 1 /\ d \in i..n /\ d \in i..d
      BY <1>1, <2>1, <2>3, <2>8
    <3>2. ~IsWordChar(d + 1)
      BY <1>4, <2>8, <3>1 DEF IsWordChar
    <3>3. \A p \in i..d : text[p] \in Digits
      BY <1>1, <2>5, <3>1
    <3>4. d \in S
      BY <1>1, <2>4, <3>1, <3>2, <3>3, NumberEndsAre
    <3>. QED  BY <3>1, <3>4
  <2>. QED  BY <1>1, <2>1, <2>3, <2>6, <2>7, <2>8
<1>9. S \in SUBSET Int /\ U \in SUBSET Int
  BY <1>1, <1>3
<1>10. Greatest(S) = {} => Greatest(U) = {}
  <2>. SUFFICES ASSUME S = {} PROVE Greatest(U) = {}
    <3>1. Greatest(S) = {} => S = {}
      <4>. HIDE DEF S
      <4>1. i \in Int /\ n \in Int
        BY <1>1
      <4>. QED  BY <1>3, <4>1, GreatestExists
    <3>. QED  BY <3>1
  <2>1. U = {}
    <3>. HIDE DEF S, U
    <3>. QED  BY <1>1, <1>3, <1>6, <1>7, <1>8
  <2>. QED  BY <2>1 DEF Greatest
<1>11. Greatest(S) # {} => text[i] \in Digits
  BY <1>1 DEF Greatest, NumberEnds
<1>12. ASSUME NEW e \in Greatest(S), e < n
       PROVE  Greatest(U) # {} /\ \A f \in Greatest(U) : f = e \/ (f = n + 1 /\ e = n - 1)
  <2>. HIDE DEF S, U
  <2>1. e \in S /\ e \in i..(n - 1) /\ \A d \in S : d <= e
    BY <1>1, <1>3, <1>12 DEF Greatest
  <2>2. e \in U
    BY <1>6, <2>1
  <2>3. Greatest(U) # {}
    <3>1. i \in Int /\ n + 1 \in Int /\ U # {}
      BY <1>1, <2>2
    <3>. QED  BY <1>3, <3>1, GreatestExists
  <2>4. ASSUME NEW f \in Greatest(U) PROVE f = e \/ (f = n + 1 /\ e = n - 1)
    <3>1. f \in U /\ e <= f /\ f \in i..(n + 1)
      BY <1>3, <2>2, <2>4 DEF Greatest
    <3>2. n \notin S
      BY <1>1, <2>1
    <3>3. CASE f <= n - 1
      BY <1>1, <1>6, <2>1, <3>1, <3>3
    <3>4. CASE f = n
      BY <1>7, <3>1, <3>2, <3>4
    <3>5. CASE f = n + 1
      <4>1. n - 1 \in S
        BY <1>8, <3>1, <3>2, <3>5
      <4>. QED  BY <1>1, <2>1, <3>5, <4>1
    <3>. QED  BY <1>1, <3>1, <3>3, <3>4, <3>5
  <2>. QED  BY <2>3, <2>4
<1>. QED  BY <1>2, <1>10, <1>11, <1>12

\* The first alternative that matches, one after another.
MatchIsFirst(i) ==
  /\ BlockComment(i) # {} => Match(i) = BlockComment(i)
  /\ BlockComment(i) = {} =>
       /\ LineComment(i) # {} => Match(i) = LineComment(i)
       /\ LineComment(i) = {} =>
            /\ StringLiteral(i) # {} => Match(i) = StringLiteral(i)
            /\ StringLiteral(i) = {} =>
                 /\ NumberLiteral(i) # {} => Match(i) = NumberLiteral(i)
                 /\ NumberLiteral(i) = {} => Match(i) = Word(i)

LEMMA FirstMatches == \A i : MatchIsFirst(i)
<1>. SUFFICES ASSUME NEW i PROVE MatchIsFirst(i)
  OBVIOUS
<1>. DEFINE parts == <<BlockComment(i), LineComment(i), StringLiteral(i),
                       NumberLiteral(i), Word(i)>>
            N == i..Len(text)
<1>1. BlockComment(i) \subseteq N
  BY DEF BlockComment, Least
<1>2. LineComment(i) \subseteq N
  BY DEF LineComment, Greatest
<1>3. StringLiteral(i) \subseteq N
  BY DEF StringLiteral, Least
<1>4. NumberLiteral(i) \subseteq N
  BY DEF NumberLiteral, Greatest
<1>5. Word(i) \subseteq N
  BY DEF Word, Greatest
<1>6. /\ DOMAIN parts = 1..5
      /\ parts[1] = BlockComment(i) /\ parts[2] = LineComment(i)
      /\ parts[3] = StringLiteral(i) /\ parts[4] = NumberLiteral(i) /\ parts[5] = Word(i)
  OBVIOUS
<1>7. \A e : e \in Match(i) <=>
        /\ e \in N
        /\ \E k \in 1..5 : e \in parts[k] /\ \A j \in 1..(k - 1) : parts[j] = {}
  BY <1>6 DEF Match
<1>. HIDE DEF N, parts
<1>8. \A e : e \in Match(i) <=>
        \/ e \in parts[1]
        \/ e \in parts[2] /\ parts[1] = {}
        \/ e \in parts[3] /\ parts[1] = {} /\ parts[2] = {}
        \/ e \in parts[4] /\ parts[1] = {} /\ parts[2] = {} /\ parts[3] = {}
        \/ e \in parts[5] /\ parts[1] = {} /\ parts[2] = {} /\ parts[3] = {} /\ parts[4] = {}
  <2>1. \A e, k : k \in 1..5 => (e \in parts[k] => e \in N)
    BY <1>1, <1>2, <1>3, <1>4, <1>5, <1>6
  <2>. QED  BY <1>7, <2>1
<1>. QED  BY <1>6, <1>8 DEF MatchIsFirst

LEMMA FirstMatchesNext == \A i : MatchIsFirst(i)'
<1>1. (\A i : MatchIsFirst(i))'
  BY FirstMatches, PTL
<1>. QED  BY <1>1

\* No sign begins with a character of a word.
LEMMA DigitsAreNumbers ==
  ASSUME NEW c, NEW lang, Grows(c, lang), NEW i \in 1..Len(text), text[i] \in Digits
  PROVE  \A e : classify(i, e) = "number" /\ classify(i, e)' = "number"
<1>1. text'[i] = text[i] /\ IsLanguage(lang) /\ text[i] \in InWords
  BY TextGrows DEF InWords
<1>2. ASSUME NEW word, IsSign(word) PROVE ~At(i, word) /\ ~At(i, word)'
  <2>1. 1 \in DOMAIN word /\ word[1] \notin InWords
    BY <1>2 DEF IsSign
  <2>2. i + 1 - 1 = i
    BY TextGrows
  <2>. QED  BY <1>1, <2>1, <2>2 DEF At
<1>3. /\ ~At(i, lang.lineComment) /\ ~At(i, lang.lineComment)'
      /\ lang.blockComment # None => ~At(i, lang.blockComment[1]) /\ ~At(i, lang.blockComment[1])'
  BY <1>1, <1>2 DEF IsLanguage
<1>4. text[i] \notin lang.stringChars
  BY <1>1 DEF IsLanguage
<1>. QED  BY <1>1, <1>3, <1>4 DEF classify, Grows

LEMMA ClassIsKept ==
  ASSUME NEW c, NEW lang, Grows(c, lang), NEW i \in 1..(Len(text) - 1), NEW e \in i..Len(text)
  PROVE  classify(i, e)' = classify(i, e)
<1>1. Len(text) \in Nat /\ IsLanguage(lang) /\ text'[i] = text[i]
  BY TextGrows
<1>2. /\ At(i, lang.lineComment)' <=> At(i, lang.lineComment)
      /\ lang.blockComment # None => (At(i, lang.blockComment[1])' <=> At(i, lang.blockComment[1]))
  BY <1>1, SignIsKept DEF IsLanguage
<1>3. LookedUp(i, e)' = LookedUp(i, e)
  <2>1. \A k \in 1..(e - i + 1) : i + k - 1 \in 1..Len(text)
    BY <1>1
  <2>2. \A k \in 1..(e - i + 1) : text'[i + k - 1] = text[i + k - 1]
    BY <2>1, TextGrows
  <2>. QED  BY <2>2 DEF LookedUp, Grows
<1>. QED  BY <1>1, <1>2, <1>3 DEF classify, Grows

\* A match in front of the last character stays what it is, but for a number
\* that gets its fraction; where there was none, only a string appears that
\* ended in the middle of an escape.
LEMMA MatchIsKept ==
  ASSUME NEW c, NEW lang, Grows(c, lang), NEW i \in 1..(Len(text) - 1)
  PROVE  /\ \A e \in Match(i) : e < Len(text) =>
              /\ Match(i)' # {}
              /\ \A f \in Match(i)' :
                   /\ classify(i, f)' = classify(i, e)
                   /\ f = e \/ (f = Len(text) + 1 /\ e = Len(text) - 1)
         /\ Match(i) = {} => \A f \in Match(i)' :
                               f = Len(text) + 1 /\ text[Len(text)] = "backslash"
<1>1. MatchIsFirst(i) /\ MatchIsFirst(i)'
  BY FirstMatches, FirstMatchesNext
<1>2. Len(text) \in Nat /\ text'[i] = text[i] /\ IsLanguage(lang) /\ i \in 1..Len(text)
  BY TextGrows
<1>3. Keeps(BlockComment(i), BlockComment(i)') /\ Keeps(LineComment(i), LineComment(i)')
  BY BlockCommentIsKept, LineCommentIsKept
<1>4. Keeps(Word(i), Word(i)')
  BY WordIsKept
<1>5. /\ text[i] \notin lang.stringChars => StringLiteral(i) = {} /\ StringLiteral(i)' = {}
      /\ \A e \in StringLiteral(i) : e < Len(text) => StringLiteral(i)' = {e}
      /\ StringLiteral(i) = {} => \A e \in StringLiteral(i)' :
                                  e = Len(text) + 1 /\ text[Len(text)] = "backslash"
  BY StringIsKept
<1>6. /\ NumberLiteral(i) = {} => NumberLiteral(i)' = {}
      /\ NumberLiteral(i) # {} => text[i] \in Digits
      /\ \A e \in NumberLiteral(i) : e < Len(text) =>
           /\ NumberLiteral(i)' # {}
           /\ \A f \in NumberLiteral(i)' :
                f = e \/ (f = Len(text) + 1 /\ e = Len(text) - 1)
  BY NumberIsKept
<1>7. /\ text[i] \in Digits => StringLiteral(i)' = {}
      /\ Word(i) # {} => StringLiteral(i)' = {}
  <2>1. Word(i) # {} => text[i] \in Letters
    BY DEF Word
  <2>2. text[i] \in Digits \cup Letters => text[i] \notin lang.stringChars
    BY <1>2 DEF IsLanguage, InWords
  <2>. QED  BY <1>5, <2>1, <2>2
<1>8. ASSUME NEW e \in Match(i), e < Len(text)
      PROVE  \/ Match(i)' = {e}
             \/ /\ text[i] \in Digits /\ Match(i)' # {}
                /\ \A f \in Match(i)' : f = e \/ (f = Len(text) + 1 /\ e = Len(text) - 1)
  <2>1. CASE BlockComment(i) # {}
    BY <1>1, <1>3, <1>8, <2>1 DEF MatchIsFirst, Keeps
  <2>2. CASE BlockComment(i) = {} /\ LineComment(i) # {}
    BY <1>1, <1>3, <1>8, <2>2 DEF MatchIsFirst, Keeps
  <2>3. CASE BlockComment(i) = {} /\ LineComment(i) = {}
    <3>1. BlockComment(i)' = {} /\ LineComment(i)' = {}
      BY <1>3, <2>3 DEF Keeps
    <3>2. CASE StringLiteral(i) # {}
      <4>1. StringLiteral(i)' = {e}
        BY <1>1, <1>5, <1>8, <2>3, <3>2 DEF MatchIsFirst
      <4>. QED  BY <1>1, <3>1, <4>1 DEF MatchIsFirst
    <3>3. CASE StringLiteral(i) = {} /\ NumberLiteral(i) # {}
      <4>1. StringLiteral(i)' = {} /\ e \in NumberLiteral(i) /\ text[i] \in Digits
        BY <1>1, <1>6, <1>7, <1>8, <2>3, <3>3 DEF MatchIsFirst
      <4>2. NumberLiteral(i)' # {}
        BY <1>6, <1>8, <4>1
      <4>3. Match(i)' = NumberLiteral(i)'
        BY <1>1, <3>1, <4>1, <4>2 DEF MatchIsFirst
      <4>. QED  BY <1>6, <1>8, <4>1, <4>2, <4>3
    <3>4. CASE StringLiteral(i) = {} /\ NumberLiteral(i) = {}
      <4>1. e \in Word(i)
        BY <1>1, <1>8, <2>3, <3>4 DEF MatchIsFirst
      <4>2. StringLiteral(i)' = {} /\ NumberLiteral(i)' = {} /\ Word(i)' = {e}
        BY <1>4, <1>6, <1>7, <1>8, <3>4, <4>1 DEF Keeps
      <4>. QED  BY <1>1, <3>1, <4>2 DEF MatchIsFirst
    <3>. QED  BY <3>2, <3>3, <3>4
  <2>. QED  BY <2>1, <2>2, <2>3
<1>9. ASSUME NEW e \in Match(i), e < Len(text), NEW f \in Match(i)'
      PROVE  classify(i, f)' = classify(i, e)
  <2>1. CASE f = e
    <3>1. e \in i..Len(text)
      BY DEF Match
    <3>. QED  BY <2>1, <3>1, ClassIsKept
  <2>2. CASE f # e
    <3>1. text[i] \in Digits
      BY <1>8, <1>9, <2>2
    <3>. QED  BY <1>2, <3>1, DigitsAreNumbers
  <2>. QED  BY <2>1, <2>2
<1>10. ASSUME Match(i) = {}, NEW f \in Match(i)'
       PROVE  f = Len(text) + 1 /\ text[Len(text)] = "backslash"
  <2>1. /\ BlockComment(i) = {} /\ LineComment(i) = {} /\ StringLiteral(i) = {}
        /\ NumberLiteral(i) = {} /\ Word(i) = {}
    BY <1>1, <1>10 DEF MatchIsFirst
  <2>2. /\ BlockComment(i)' = {} /\ LineComment(i)' = {}
        /\ NumberLiteral(i)' = {} /\ Word(i)' = {}
    BY <1>3, <1>4, <1>6, <2>1 DEF Keeps
  <2>3. f \in StringLiteral(i)'
    BY <1>1, <1>10, <2>2 DEF MatchIsFirst
  <2>. QED  BY <1>5, <2>1, <2>3
<1>. QED  BY <1>8, <1>9, <1>10

-----------------------------------------------------------------------------
(* Tokens that follow one another.                                            *)

LEMMA TokensAreOrdered ==
  ASSUME NEW ts \in Seq(Tokens), Consecutive(ts)
  PROVE  \A j, k \in DOMAIN ts : j < k => ts[j].to < ts[k].from
<1>. DEFINE T == {k \in 0..Len(ts) : \A j \in 1..(k - 1) : ts[j].to < ts[k].from}
<1>1. /\ DOMAIN ts = 1..Len(ts) /\ Len(ts) \in Nat
      /\ \A k \in 1..Len(ts) : ts[k].from \in Nat /\ ts[k].to \in Nat /\ ts[k].from <= ts[k].to
  BY DEF Tokens
<1>2. \A k \in 2..Len(ts) : ts[k].from = ts[k - 1].to + 1
  <2>1. ASSUME NEW k \in 2..Len(ts) PROVE ts[k].from = ts[k - 1].to + 1
    <3>1. k \in DOMAIN ts /\ k # 1
      BY <1>1
    <3>. QED  BY <3>1 DEF Consecutive
  <2>. QED  BY <2>1
<1>3. 0 \in T
  BY <1>1
<1>4. ASSUME NEW k \in 0..(Len(ts) - 1), k \in T PROVE k + 1 \in T
  <2>1. ASSUME NEW j \in 1..k PROVE ts[j].to < ts[k + 1].from
    <3>1. k \in 1..Len(ts) /\ k + 1 \in 2..Len(ts) /\ (k + 1) - 1 = k
      BY <1>1
    <3>2. ts[k + 1].from = ts[k].to + 1
      BY <1>2, <3>1
    <3>3. CASE j = k
      BY <1>1, <3>1, <3>2, <3>3
    <3>4. CASE j # k
      <4>1. ts[j].to < ts[k].from /\ j \in 1..Len(ts)
        BY <1>1, <1>4, <3>4
      <4>. QED  BY <1>1, <3>1, <3>2, <4>1
    <3>. QED  BY <3>3, <3>4
  <2>. QED  BY <1>1, <2>1
<1>5. \A k \in 0..Len(ts) : k \in T
  <2>. HIDE DEF T
  <2>. QED  BY <1>1, <1>3, <1>4, RangeSetInduction
<1>. QED  BY <1>1, <1>5

LEMMA TokensCover ==
  ASSUME NEW ts \in Seq(Tokens), Consecutive(ts), NEW p \in 1..EndOf(ts)
  PROVE  \E k \in DOMAIN ts : p \in ts[k].from..ts[k].to
<1>. DEFINE T == {k \in 0..Len(ts) : k > 0 /\ p <= ts[k].to =>
                    \E j \in DOMAIN ts : p \in ts[j].from..ts[j].to}
<1>1. /\ DOMAIN ts = 1..Len(ts) /\ Len(ts) \in Nat
      /\ \A k \in 1..Len(ts) : ts[k].from \in Nat /\ ts[k].to \in Nat /\ ts[k].from <= ts[k].to
  BY DEF Tokens
<1>2. /\ \A k \in 2..Len(ts) : ts[k].from = ts[k - 1].to + 1
      /\ Len(ts) >= 1 => ts[1].from = 1
  <2>1. ASSUME NEW k \in 2..Len(ts) PROVE ts[k].from = ts[k - 1].to + 1
    <3>1. k \in DOMAIN ts /\ k # 1
      BY <1>1
    <3>. QED  BY <3>1 DEF Consecutive
  <2>2. Len(ts) >= 1 => 1 \in DOMAIN ts
    BY <1>1
  <2>. QED  BY <2>1, <2>2 DEF Consecutive
<1>3. 0 \in T
  BY <1>1
<1>4. Len(ts) >= 1 /\ p \in Nat /\ p >= 1 /\ p <= ts[Len(ts)].to
  BY <1>1 DEF EndOf
<1>5. ASSUME NEW k \in 0..(Len(ts) - 1), k \in T PROVE k + 1 \in T
  <2>1. SUFFICES ASSUME p <= ts[k + 1].to, ~(p \in ts[k + 1].from..ts[k + 1].to)
                 PROVE  \E j \in DOMAIN ts : p \in ts[j].from..ts[j].to
    BY <1>1
  <2>2. k + 1 \in 1..Len(ts) /\ p < ts[k + 1].from
    BY <1>1, <1>4, <2>1
  <2>3. k # 0
    BY <1>2, <1>4, <2>2
  <2>4. p <= ts[k].to
    BY <1>1, <1>2, <1>4, <2>2, <2>3
  <2>. QED  BY <1>5, <2>3, <2>4
<1>6. \A k \in 0..Len(ts) : k \in T
  <2>. HIDE DEF T
  <2>. QED  BY <1>1, <1>3, <1>5, RangeSetInduction
<1>. QED  BY <1>1, <1>4, <1>6

LEMMA TokenIsOne ==
  ASSUME NEW ts \in Seq(Tokens), Consecutive(ts), NEW j \in DOMAIN ts, NEW k \in DOMAIN ts,
         NEW p \in ts[j].from..ts[j].to, p \in ts[k].from..ts[k].to
  PROVE  j = k
<1>1. ts[j] \in Tokens /\ ts[k] \in Tokens /\ j \in Int /\ k \in Int
  OBVIOUS
<1>2. ts[j].to \in Nat /\ ts[k].to \in Nat /\ ts[j].from \in Nat /\ ts[k].from \in Nat
  BY <1>1 DEF Tokens
<1>3. (j < k => ts[j].to < ts[k].from) /\ (k < j => ts[k].to < ts[j].from)
  BY TokensAreOrdered
<1>. QED  BY <1>1, <1>2, <1>3

LEMMA TypeOfToken ==
  ASSUME NEW ts \in Seq(Tokens), Consecutive(ts), NEW k \in DOMAIN ts,
         NEW p \in ts[k].from..ts[k].to
  PROVE  TypeAt(ts, p) = ts[k].type
<1>. DEFINE j == CHOOSE j \in DOMAIN ts : p \in ts[j].from..ts[j].to
<1>1. j \in DOMAIN ts /\ p \in ts[j].from..ts[j].to
  OBVIOUS
<1>2. TypeAt(ts, p) = ts[j].type
  BY DEF TypeAt
<1>. HIDE DEF j
<1>. QED  BY <1>1, <1>2, TokenIsOne

-----------------------------------------------------------------------------
(* What the tokens say of the text they are made from, and what those of the  *)
(* text without its last character still say.                                 *)

IsMatch(t) == t.to \in Match(t.from) /\ t.type = classify(t.from, t.to)
IsGap(t)   == t.type = "plain" /\ \A p \in t.from..t.to : Match(p) = {}

Scanned(ts) == \A k \in DOMAIN ts : IsMatch(ts[k]) \/ IsGap(ts[k])

IsExtended(t) ==
  /\ Match(t.from) # {}
  /\ \A e \in Match(t.from) :
       /\ classify(t.from, e) = t.type
       /\ e = t.to \/ (e = Len(text) /\ t.to = Len(text) - 2)

StaysGap(t) ==
  /\ t.type = "plain"
  /\ \A p \in t.from..t.to : \A e \in Match(p) :
       e = Len(text) /\ text[Len(text) - 1] = "backslash"

Remembered(ts) == \A k \in 1..(Len(ts) - 1) : IsExtended(ts[k]) \/ StaysGap(ts[k])

\* The invariant behind ColoursStay.
ColourInv ==
  /\ Scanned(tokens)
  /\ Remembered(shown)
  /\ Consecutive(shown)
  /\ EndOf(shown) = IF text = <<>> THEN 0 ELSE Len(text) - 1

\* A match depends on nothing but the text and the language.
LEMMA SameMatch ==
  ASSUME UNCHANGED <<language, text>>
  PROVE  \A i : Match(i)' = Match(i)
<1>. SUFFICES ASSUME NEW i PROVE Match(i)' = Match(i)
  OBVIOUS
<1>0. language' = language /\ text' = text
  OBVIOUS
<1>1. BlockComment(i)' = BlockComment(i)
  BY <1>0 DEF BlockComment, Least, At
<1>2. LineComment(i)' = LineComment(i)
  BY <1>0 DEF LineComment, Greatest, At
<1>3. Reached(i)' = Reached(i)
  BY <1>0 DEF Reached
<1>4. StringLiteral(i)' = StringLiteral(i)
  BY <1>0, <1>3 DEF StringLiteral, Least
<1>5. NumberLiteral(i)' = NumberLiteral(i)
  BY <1>0 DEF NumberLiteral, Greatest, IsWordChar
<1>6. Word(i)' = Word(i)
  BY <1>0 DEF Word, Greatest, IsWordChar
<1>. QED  BY <1>0, <1>1, <1>2, <1>4, <1>5, <1>6 DEF Match

LEMMA SameClass ==
  ASSUME UNCHANGED <<language, text>>
  PROVE  \A i, e : classify(i, e)' = classify(i, e)
<1>0. language' = language /\ text' = text
  OBVIOUS
<1>. QED  BY <1>0 DEF classify, At, LookedUp

LEMMA ScannedSame ==
  ASSUME UNCHANGED <<language, text>>, NEW ts, Scanned(ts)
  PROVE  Scanned(ts)'
BY SameMatch, SameClass DEF Scanned, IsMatch, IsGap

LEMMA RememberedSame ==
  ASSUME UNCHANGED <<language, text, shown>>, Remembered(shown)
  PROVE  Remembered(shown)'
<1>1. text' = text /\ shown' = shown
  OBVIOUS
<1>. QED  BY <1>1, SameMatch, SameClass DEF Remembered, IsExtended, StaysGap

LEMMA RevealColours ==
  ASSUME ScanInv, ColourInv, NEW c \in Alphabet, Reveal(c)
  PROVE  ColourInv'
<1>1. PICK lang : lang = language
  OBVIOUS
<1>2. PICK ts : ts = tokens
  OBVIOUS
<1>3. Grows(c, lang)
  BY <1>1 DEF Grows, Reveal, ScanInv, HighlightTypeOK
<1>4. /\ Len(text) \in Nat /\ Len(text') = Len(text) + 1
      /\ \A p \in 1..Len(text) : text'[p] = text[p]
  BY <1>3, TextGrows
<1>5. ts \in Seq(Tokens) /\ Consecutive(ts) /\ EndOf(ts) = Len(text) /\ Scanned(ts)
  BY <1>2 DEF ScanInv, ColourInv, HighlightTypeOK, NothingIsLost, Reveal
<1>6. ASSUME NEW k \in 1..(Len(ts) - 1)
      PROVE  IsExtended(ts[k])' \/ StaysGap(ts[k])'
  <2>1. k \in DOMAIN ts /\ Len(ts) \in DOMAIN ts /\ k < Len(ts) /\ ts # <<>>
    BY <1>5
  <2>2. /\ ts[k].from \in Nat /\ ts[k].to \in Nat /\ ts[k].from <= ts[k].to
        /\ ts[Len(ts)].from \in Nat /\ ts[Len(ts)].from <= ts[Len(ts)].to
        /\ ts[Len(ts)].to \in Nat
    BY <1>5, <2>1 DEF Tokens
  <2>3. ts[k].to < ts[Len(ts)].from /\ ts[Len(ts)].to = Len(text)
    BY <1>5, <2>1, TokensAreOrdered DEF EndOf
  <2>4. 1 <= ts[k].from
    <3>1. CASE k = 1
      BY <1>5, <2>1, <3>1 DEF Consecutive
    <3>2. CASE k # 1
      <4>1. k - 1 \in DOMAIN ts /\ k - 1 < k /\ ts[k - 1] \in Tokens
        BY <1>5, <3>2
      <4>2. ts[k - 1].to < ts[k].from
        BY <1>5, <2>1, <4>1, TokensAreOrdered
      <4>3. ts[k - 1].to \in Nat
        BY <4>1 DEF Tokens
      <4>. QED  BY <2>2, <4>2, <4>3
    <3>. QED  BY <3>1, <3>2
  <2>5. PICK i : i = ts[k].from
    OBVIOUS
  <2>6. PICK e : e = ts[k].to
    OBVIOUS
  <2>7. \A p \in i..e : p \in 1..(Len(text) - 1)
    BY <1>4, <2>2, <2>3, <2>4, <2>5, <2>6
  <2>8. i \in 1..(Len(text) - 1) /\ e < Len(text) /\ e \in Nat
    BY <1>4, <2>2, <2>3, <2>4, <2>5, <2>6
  <2>9. CASE IsMatch(ts[k])
    <3>1. e \in Match(i) /\ ts[k].type = classify(i, e)
      BY <2>5, <2>6, <2>9 DEF IsMatch
    <3>2. /\ Match(i)' # {}
          /\ \A f \in Match(i)' :
               /\ classify(i, f)' = classify(i, e)
               /\ f = e \/ (f = Len(text) + 1 /\ e = Len(text) - 1)
      BY <1>3, <2>8, <3>1, MatchIsKept
    <3>3. e = Len(text) - 1 => e = Len(text') - 2
      BY <1>4, <2>8
    <3>4. \A f \in Match(i)' :
               /\ classify(i, f)' = ts[k].type
               /\ f = ts[k].to \/ (f = Len(text') /\ ts[k].to = Len(text') - 2)
      BY <1>4, <2>6, <3>1, <3>2, <3>3
    <3>. QED  BY <2>5, <3>2, <3>4 DEF IsExtended
  <2>10. CASE IsGap(ts[k])
    <3>1. ASSUME NEW p \in i..e, NEW f \in Match(p)'
          PROVE  f = Len(text') /\ text'[Len(text') - 1] = "backslash"
      <4>1. p \in 1..(Len(text) - 1) /\ Match(p) = {}
        BY <2>5, <2>6, <2>7, <2>10 DEF IsGap
      <4>2. f = Len(text) + 1 /\ text[Len(text)] = "backslash"
        BY <1>3, <4>1, MatchIsKept
      <4>3. Len(text') - 1 = Len(text) /\ Len(text) \in 1..Len(text)
        BY <1>4, <4>1
      <4>. QED  BY <1>4, <4>2, <4>3
    <3>. QED  BY <2>5, <2>6, <2>10, <3>1 DEF StaysGap, IsGap
  <2>. QED  BY <1>5, <2>1, <2>9, <2>10 DEF Scanned
<1>7. Remembered(shown)'
  <2>1. shown' = ts
    BY <1>2 DEF Reveal
  <2>. QED  BY <1>6, <2>1 DEF Remembered
<1>8. Scanned(tokens)'
  BY DEF Reveal, Scanned
<1>9. Consecutive(shown)' /\ EndOf(shown)' = IF text' = <<>> THEN 0 ELSE Len(text') - 1
  <2>1. shown' = ts /\ text' # <<>> /\ Len(text') - 1 = Len(text)
    BY <1>2, <1>4 DEF Reveal
  <2>. QED  BY <1>5, <2>1 DEF Consecutive, EndOf
<1>. QED  BY <1>7, <1>8, <1>9 DEF ColourInv

\* A piece in front of the next match, and the match.
LEMMA ScannedGap ==
  ASSUME NEW ts \in Seq(Tokens), Scanned(ts), NEW a \in Nat, NEW b \in Int,
         \A p \in a..b : Match(p) = {}
  PROVE  Scanned(ts \o Plain(a, b))
<1>1. CASE a > b
  <2>1. Plain(a, b) = <<>> /\ ts \o <<>> = ts
    BY <1>1 DEF Plain
  <2>. QED  BY <2>1
<1>2. CASE a <= b
  <2>. DEFINE t == [type |-> "plain", from |-> a, to |-> b]
  <2>1. Plain(a, b) = <<t>> /\ IsGap(t)
    BY <1>2 DEF Plain, IsGap
  <2>2. \A k \in 1..(Len(ts) + 1) : (ts \o <<t>>)[k] = IF k <= Len(ts) THEN ts[k] ELSE t
    OBVIOUS
  <2>3. DOMAIN (ts \o <<t>>) = 1..(Len(ts) + 1) /\ DOMAIN ts = 1..Len(ts) /\ Len(ts) \in Nat
    OBVIOUS
  <2>. HIDE DEF t
  <2>. QED  BY <2>1, <2>2, <2>3 DEF Scanned
<1>. QED  BY <1>1, <1>2

LEMMA ScannedMatch ==
  ASSUME NEW ts \in Seq(Tokens), Scanned(ts), NEW t, IsMatch(t)
  PROVE  Scanned(Append(ts, t))
<1>1. \A k \in 1..(Len(ts) + 1) : Append(ts, t)[k] = IF k <= Len(ts) THEN ts[k] ELSE t
  OBVIOUS
<1>2. DOMAIN Append(ts, t) = 1..(Len(ts) + 1) /\ DOMAIN ts = 1..Len(ts) /\ Len(ts) \in Nat
  OBVIOUS
<1>. QED  BY <1>1, <1>2 DEF Scanned

\* What the text keeps while it is scanned.
LEMMA ColoursKept ==
  ASSUME ColourInv, UNCHANGED <<language, text, shown>>, NEW ts, ts = tokens', Scanned(ts)
  PROVE  ColourInv'
<1>1. Scanned(ts)' /\ Remembered(shown)'
  BY ScannedSame, RememberedSame DEF ColourInv
<1>2. Scanned(tokens)'
  BY <1>1 DEF Scanned
<1>3. /\ Consecutive(shown)'
      /\ EndOf(shown)' = IF text' = <<>> THEN 0 ELSE Len(text') - 1
  BY DEF ColourInv, Consecutive, EndOf
<1>. QED  BY <1>1, <1>2, <1>3 DEF ColourInv

LEMMA MatchColours ==
  ASSUME ScanInv, ColourInv, PushMatch
  PROVE  ColourInv'
<1>1. PICK i \in Least(Found) : \E e \in Match(i) :
        tokens' = Append(tokens \o Plain(lastEnd + 1, i - 1),
                         [type |-> classify(i, e), from |-> i, to |-> e])
  BY DEF PushMatch
<1>2. PICK e \in Match(i) :
        tokens' = Append(tokens \o Plain(lastEnd + 1, i - 1),
                         [type |-> classify(i, e), from |-> i, to |-> e])
  BY <1>1
<1>. DEFINE t  == [type |-> classify(i, e), from |-> i, to |-> e]
            us == tokens \o Plain(lastEnd + 1, i - 1)
<1>3. /\ lastEnd \in Nat /\ lastEnd <= Len(text) /\ Len(text) \in Nat /\ tokens \in Seq(Tokens)
      /\ Scanned(tokens) /\ Consecutive(tokens) /\ EndOf(tokens) = lastEnd
  BY DEF ScanInv, ColourInv, HighlightTypeOK, NothingIsLost, PushMatch
<1>4. i \in (lastEnd + 1)..Len(text) /\ \A p \in Found : i <= p
  BY DEF Least, Found
<1>5. \A p \in (lastEnd + 1)..(i - 1) : Match(p) = {}
  BY <1>3, <1>4 DEF Found
<1>6. lastEnd + 1 \in Nat /\ i - 1 \in Nat /\ i - 1 >= EndOf(tokens)
  BY <1>3, <1>4
<1>7. us \in Seq(Tokens)
  BY <1>3, <1>6, GapFollows
<1>8. Scanned(us)
  BY <1>3, <1>5, <1>6, ScannedGap
<1>9. Scanned(Append(us, t))
  <2>1. IsMatch(t)
    BY DEF IsMatch
  <2>. HIDE DEF us, t
  <2>. QED  BY <1>7, <1>8, <2>1, ScannedMatch
<1>10. PICK ts : ts = tokens'
  OBVIOUS
<1>11. Scanned(ts)
  BY <1>2, <1>9, <1>10
<1>. QED  BY <1>10, <1>11, ColoursKept DEF PushMatch

LEMMA RestColours ==
  ASSUME ScanInv, ColourInv, PushRest
  PROVE  ColourInv'
<1>1. /\ lastEnd \in Nat /\ Len(text) \in Nat /\ tokens \in Seq(Tokens) /\ Scanned(tokens)
  BY DEF ScanInv, ColourInv, HighlightTypeOK
<1>2. \A p \in (lastEnd + 1)..Len(text) : Match(p) = {}
  BY DEF PushRest, Found
<1>3. Scanned(tokens \o Plain(lastEnd + 1, Len(text)))
  <2>1. lastEnd + 1 \in Nat /\ Len(text) \in Int
    BY <1>1
  <2>. QED  BY <1>1, <1>2, <2>1, ScannedGap
<1>4. PICK ts : ts = tokens'
  OBVIOUS
<1>5. Scanned(ts)
  BY <1>3, <1>4 DEF PushRest
<1>. QED  BY <1>4, <1>5, ColoursKept DEF PushRest

LEMMA ColourStep == ScanInv /\ ColourInv /\ [HighlightNext]_highlightVars => ColourInv'
<1>. SUFFICES ASSUME ScanInv, ColourInv, [HighlightNext]_highlightVars PROVE ColourInv'
  OBVIOUS
<1>1. CASE \E c \in Alphabet : Reveal(c)
  BY <1>1, RevealColours
<1>2. CASE PushMatch
  BY <1>2, MatchColours
<1>3. CASE PushRest
  BY <1>3, RestColours
<1>4. CASE Clear
  <2>1. text' = <<>> /\ tokens' = <<>> /\ shown' = <<>>
    BY <1>4 DEF Clear
  <2>. QED  BY <2>1 DEF ColourInv, Scanned, Remembered, Consecutive, EndOf
<1>5. CASE UNCHANGED highlightVars
  <2>1. PICK ts : ts = tokens'
    OBVIOUS
  <2>. QED  BY <1>5, <2>1, ColoursKept DEF highlightVars, ColourInv
<1>. QED  BY <1>1, <1>2, <1>3, <1>4, <1>5 DEF HighlightNext

LEMMA ColourInit == HighlightInit => ColourInv
  BY DEF HighlightInit, ColourInv, Scanned, Remembered, Consecutive, EndOf

\* Every token of the scanner is what it finds at that place in the text, and
\* those of the text before say what is left of that one character later.
THEOREM ScannedInvariant == HighlightSpec => [](ScanInv /\ ColourInv)
  BY HighlightInitInv, HighlightStepInv, ColourInit, ColourStep, PTL DEF HighlightSpec

-----------------------------------------------------------------------------
(* The tokens of a text beside those of the text without its last character.  *)

LEMMA TokensBegin ==
  ASSUME NEW ts \in Seq(Tokens), Consecutive(ts), NEW j \in DOMAIN ts
  PROVE  /\ ts[j].from \in Nat /\ ts[j].to \in Nat /\ 1 <= ts[j].from /\ ts[j].from <= ts[j].to
         /\ j < Len(ts) => ts[j].to < ts[Len(ts)].from
<1>1. /\ DOMAIN ts = 1..Len(ts) /\ Len(ts) \in Nat
      /\ \A k \in DOMAIN ts : ts[k].from \in Nat /\ ts[k].to \in Nat /\ ts[k].from <= ts[k].to
  BY DEF Tokens
<1>2. 1 \in DOMAIN ts /\ Len(ts) \in DOMAIN ts
  BY <1>1
<1>3. ts[1].from = 1
  BY <1>2 DEF Consecutive
<1>4. 1 < j => ts[1].to < ts[j].from
  BY <1>2, TokensAreOrdered
<1>5. j < Len(ts) => ts[j].to < ts[Len(ts)].from
  BY <1>2, TokensAreOrdered
<1>. QED  BY <1>1, <1>2, <1>3, <1>4, <1>5

\* The next character is of the same token, or begins the next.
LEMMA NextToken ==
  ASSUME NEW ts \in Seq(Tokens), Consecutive(ts), NEW p \in Nat,
         NEW i \in DOMAIN ts, p \in ts[i].from..ts[i].to,
         NEW j \in DOMAIN ts, p + 1 \in ts[j].from..ts[j].to
  PROVE  i = j \/ (p = ts[i].to /\ p + 1 = ts[j].from)
<1>1. /\ ts[i].from \in Nat /\ ts[i].to \in Nat /\ ts[j].from \in Nat /\ ts[j].to \in Nat
  BY TokensBegin
<1>2. CASE p + 1 = ts[j].from
  <2>1. p + 1 \in ts[i].from..ts[i].to \/ p = ts[i].to
    BY <1>1
  <2>. QED  BY <1>2, <2>1, TokenIsOne
<1>3. CASE p + 1 # ts[j].from
  <2>1. p \in ts[j].from..ts[j].to
    BY <1>1, <1>3
  <2>. QED  BY <2>1, TokenIsOne
<1>. QED  BY <1>2, <1>3

Torn(p) == text[Len(text) - 1] = "backslash" /\ p >= tokens[Len(tokens)].from

\* Neither goes on behind p as a match, or both do, and it is the same match.
AlikeIn(p, t, s) ==
  /\ p \in t.from..t.to /\ p \in s.from..s.to
  /\ t.type = s.type
  /\ \/ (t.to = p \/ IsGap(t)) /\ (s.to = p \/ StaysGap(s))
     \/ /\ t.from = s.from
        /\ t.to = s.to \/ (t.to = Len(text) /\ s.to = Len(text) - 2)

Alike(p) == \E j \in DOMAIN tokens : \E k \in 1..(Len(shown) - 1) :
              AlikeIn(p, tokens[j], shown[k])

LEMMA NextIsAlike ==
  ASSUME ScanInv, ColourInv, ~scanning, Len(text) > 1, NEW p \in Nat,
         p + 1 < shown[Len(shown)].from, p = 0 \/ Torn(p) \/ Alike(p)
  PROVE  Torn(p + 1) \/ Alike(p + 1)
<1>. DEFINE n == Len(text)
            m == Len(shown)
            L == shown[m].from
<1>1. PICK q : q = p + 1
  OBVIOUS
<1>2. /\ n \in Nat /\ tokens \in Seq(Tokens) /\ shown \in Seq(Tokens)
      /\ Consecutive(tokens) /\ Consecutive(shown)
      /\ EndOf(tokens) = n /\ EndOf(shown) = n - 1
      /\ Scanned(tokens) /\ Remembered(shown)
  BY DEF ScanInv, ColourInv, HighlightTypeOK, NothingIsLost
<1>3. /\ tokens # <<>> /\ shown # <<>> /\ n = tokens[Len(tokens)].to /\ n - 1 = shown[m].to
      /\ Len(tokens) \in DOMAIN tokens /\ m \in DOMAIN shown /\ m \in Nat
      /\ DOMAIN shown = 1..m
  BY <1>2 DEF EndOf
<1>4. L \in Nat /\ L <= n - 1 /\ tokens[Len(tokens)].from \in Nat
  BY <1>2, <1>3, TokensBegin
<1>5. q \in Nat /\ q < L /\ 1 <= q /\ q <= n - 2 /\ p <= n - 3 /\ q - 1 = p
  BY <1>1, <1>2, <1>4
<1>. HIDE DEF n, m, L
<1>6. PICK j \in DOMAIN tokens : q \in tokens[j].from..tokens[j].to
  <2>1. q \in 1..EndOf(tokens)
    BY <1>2, <1>5
  <2>. QED  BY <1>2, <2>1, TokensCover
<1>7. PICK k \in DOMAIN shown : q \in shown[k].from..shown[k].to
  <2>1. q \in 1..EndOf(shown)
    BY <1>2, <1>5
  <2>. QED  BY <1>2, <2>1, TokensCover
<1>. DEFINE t == tokens[j]
            s == shown[k]
<1>8. /\ t.from \in Nat /\ t.to \in Nat /\ 1 <= t.from
      /\ s.from \in Nat /\ s.to \in Nat /\ 1 <= s.from
  BY <1>2, TokensBegin
<1>9. k \in 1..(m - 1)
  <2>1. k # m
    BY <1>5, <1>7, <1>8 DEF L
  <2>. QED  BY <1>3, <2>1
<1>10. (IsMatch(t) \/ IsGap(t)) /\ (IsExtended(s) \/ StaysGap(s))
  BY <1>2, <1>9 DEF Scanned, Remembered, m
<1>11. t.to <= n
  <2>1. Len(tokens) \in Nat /\ j \in Nat /\ j <= Len(tokens)
    BY <1>2
  <2>2. j < Len(tokens) => t.to < tokens[Len(tokens)].from
    BY <1>2, TokensBegin
  <2>3. tokens[Len(tokens)].from <= tokens[Len(tokens)].to
    BY <1>2, <1>3, TokensBegin
  <2>4. CASE j = Len(tokens)
    BY <1>2, <1>3, <2>4
  <2>5. CASE j < Len(tokens)
    <3>1. tokens[Len(tokens)].to = n /\ n \in Nat
      BY <1>2, <1>3
    <3>. QED  BY <1>4, <1>8, <2>2, <2>3, <2>5, <3>1
  <2>. QED  BY <2>1, <2>4, <2>5
<1>. HIDE DEF t, s
<1>12. ASSUME Torn(p) PROVE Torn(q)
  BY <1>4, <1>5, <1>12 DEF Torn
<1>13. ASSUME q = t.from \/ IsGap(t), q = s.from \/ StaysGap(s)
       PROVE  Torn(q) \/ AlikeIn(q, t, s)
  <2>0. q \in t.from..t.to /\ q \in s.from..s.to
    BY <1>6, <1>7 DEF t, s
  <2>1. CASE IsGap(t) /\ StaysGap(s)
    BY <2>0, <2>1 DEF AlikeIn, IsGap, StaysGap
  <2>2. CASE IsGap(t) /\ IsExtended(s) /\ q = s.from
    BY <2>0, <2>2 DEF IsGap, IsExtended
  <2>3. CASE IsMatch(t) /\ q = t.from /\ StaysGap(s)
    <3>1. t.to = Len(text) /\ text[Len(text) - 1] = "backslash"
      BY <2>0, <2>3 DEF IsMatch, StaysGap
    <3>2. j = Len(tokens)
      <4>1. Len(tokens) \in DOMAIN tokens
        BY <1>3
      <4>2. tokens[Len(tokens)].to \in tokens[Len(tokens)].from..tokens[Len(tokens)].to
        BY <1>2, <4>1, TokensBegin
      <4>3. t.to \in tokens[j].from..tokens[j].to /\ t.to = tokens[Len(tokens)].to
        <5>1. tokens[j].from <= tokens[j].to /\ tokens[j].to \in Nat /\ tokens[j].from \in Nat
          BY <1>2, TokensBegin
        <5>. QED  BY <1>3, <3>1, <5>1 DEF t, n
      <4>. QED  BY <1>2, <4>1, <4>2, <4>3, TokenIsOne
    <3>. QED  BY <1>5, <2>3, <3>1, <3>2 DEF Torn, t
  <2>4. CASE IsMatch(t) /\ q = t.from /\ IsExtended(s) /\ q = s.from
    BY <2>0, <2>4 DEF IsMatch, IsExtended, AlikeIn
  <2>. QED  BY <1>10, <1>13, <2>1, <2>2, <2>3, <2>4
<1>14. CASE p = 0
  <2>1. q = t.from /\ q = s.from
    BY <1>1, <1>6, <1>7, <1>8, <1>14 DEF t, s
  <2>. QED  BY <1>1, <1>9, <1>13, <2>1 DEF Alike, t, s, m
<1>15. CASE Alike(p)
  <2>1. PICK j0 \in DOMAIN tokens, k0 \in 1..(Len(shown) - 1) :
             AlikeIn(p, tokens[j0], shown[k0])
    BY <1>15 DEF Alike
  <2>2. k0 \in DOMAIN shown
    BY <1>3 DEF m
  <2>3. j0 = j \/ (p = tokens[j0].to /\ q = t.from)
    BY <1>1, <1>2, <1>6, <2>1, NextToken DEF AlikeIn, t
  <2>4. k0 = k \/ (p = shown[k0].to /\ q = s.from)
    BY <1>1, <1>2, <1>7, <2>1, <2>2, NextToken DEF AlikeIn, s
  <2>5. (j0 = j => tokens[j0].to # p) /\ (k0 = k => shown[k0].to # p)
    BY <1>1, <1>6, <1>7, <1>8 DEF t, s
  <2>6. CASE /\ tokens[j0].to = p \/ IsGap(tokens[j0])
             /\ shown[k0].to = p \/ StaysGap(shown[k0])
    <3>1. q = t.from \/ IsGap(t)
      BY <2>3, <2>5, <2>6 DEF t
    <3>2. q = s.from \/ StaysGap(s)
      BY <2>4, <2>5, <2>6 DEF s
    <3>. QED  BY <1>1, <1>9, <1>13, <3>1, <3>2 DEF Alike, t, s, m
  <2>7. CASE /\ tokens[j0].from = shown[k0].from
             /\ tokens[j0].to = shown[k0].to \/ (tokens[j0].to = n /\ shown[k0].to = n - 2)
    <3>1. CASE j0 = j /\ k0 = k
      <4>1. AlikeIn(q, t, s)
        BY <1>6, <1>7, <2>1, <2>7, <3>1 DEF AlikeIn, t, s, n
      <4>. QED  BY <1>1, <1>9, <4>1 DEF Alike, t, s, m
    <3>2. CASE j0 # j /\ k0 # k
      <4>1. q = t.from /\ q = s.from
        BY <2>3, <2>4, <3>2
      <4>. QED  BY <1>1, <1>9, <1>13, <4>1 DEF Alike, t, s, m
    <3>3. CASE j0 = j /\ k0 # k
      <4>1. p = n - 2
        BY <2>4, <2>5, <2>7, <3>3
      <4>. QED  BY <1>2, <1>5, <4>1
    <3>4. CASE j0 # j /\ k0 = k
      <4>1. p = n
        BY <2>3, <2>5, <2>7, <3>4
      <4>. QED  BY <1>2, <1>5, <4>1
    <3>. QED  BY <3>1, <3>2, <3>3, <3>4
  <2>. QED  BY <2>1, <2>6, <2>7 DEF AlikeIn, n
<1>. QED  BY <1>1, <1>12, <1>14, <1>15

LEMMA ColoursAreAlike ==
  ASSUME ScanInv, ColourInv
  PROVE  ColoursStay
<1>. SUFFICES ASSUME ~scanning, Len(text) > 1, NEW i \in 1..(shown[Len(shown)].from - 1)
              PROVE  \/ text[Len(text) - 1] = "backslash" /\ i >= tokens[Len(tokens)].from
                     \/ TypeAt(tokens, i) = TypeAt(shown, i)
  BY DEF ColoursStay
<1>. DEFINE L == shown[Len(shown)].from
            T == {p \in 0..(L - 1) : p = 0 \/ Torn(p) \/ Alike(p)}
<1>1. /\ tokens \in Seq(Tokens) /\ shown \in Seq(Tokens) /\ Len(text) \in Nat
      /\ Consecutive(tokens) /\ Consecutive(shown) /\ EndOf(shown) = Len(text) - 1
  BY DEF ScanInv, ColourInv, HighlightTypeOK, NothingIsLost
<1>2. Len(shown) \in DOMAIN shown
  BY <1>1 DEF EndOf
<1>3. L \in Nat /\ 1 <= L
  BY <1>1, <1>2, TokensBegin
<1>. HIDE DEF L
<1>4. 0 \in T
  BY <1>3
<1>5. ASSUME NEW p \in 0..(L - 1 - 1), p \in T PROVE p + 1 \in T
  <2>1. p \in Nat /\ p + 1 < L /\ p + 1 \in 0..(L - 1)
    BY <1>3
  <2>2. Torn(p + 1) \/ Alike(p + 1)
    BY <1>5, <2>1, NextIsAlike DEF L
  <2>. QED  BY <2>1, <2>2
<1>6. \A p \in 0..(L - 1) : p \in T
  <2>1. L - 1 \in Nat
    BY <1>3
  <2>. HIDE DEF T
  <2>. QED  BY <1>4, <1>5, <2>1, RangeSetInduction
<1>7. i \in 0..(L - 1) /\ i # 0
  BY <1>3 DEF L
<1>8. Torn(i) \/ Alike(i)
  BY <1>6, <1>7
<1>9. CASE Alike(i)
  <2>1. PICK j \in DOMAIN tokens, k \in 1..(Len(shown) - 1) : AlikeIn(i, tokens[j], shown[k])
    BY <1>9 DEF Alike
  <2>2. k \in DOMAIN shown
    BY <1>1
  <2>3. TypeAt(tokens, i) = tokens[j].type /\ TypeAt(shown, i) = shown[k].type
    BY <1>1, <2>1, <2>2, TypeOfToken DEF AlikeIn
  <2>. QED  BY <2>1, <2>3 DEF AlikeIn
<1>. QED  BY <1>8, <1>9 DEF Torn

\* What was coloured keeps its colour while the typing goes on: only the last
\* token, or a string that a half escape had taken apart, is coloured anew,
\* whatever the language, the text and the places where the typing pauses.
THEOREM ColoursAlwaysStay == HighlightSpec => []ColoursStay
<1>1. ScanInv /\ ColourInv => ColoursStay
  BY ColoursAreAlike
<1>. QED  BY <1>1, ScannedInvariant, PTL

-----------------------------------------------------------------------------
(* Where a string is read pair by pair, as the scanner does, and where the     *)
(* backslashes in front of a character are counted.                            *)

\* The m backslashes in front of p are all that there are behind since.
RunOf(p, since, m) ==
  /\ \A q \in (p - m)..(p - 1) : text[q] = "backslash"
  /\ p - m - 1 = since \/ text[p - m - 1] # "backslash"

LEMMA OneRun ==
  ASSUME NEW s \in Nat, NEW p \in Nat, NEW m \in 0..(p - s - 1), NEW k \in 0..(p - s - 1),
         RunOf(p, s, m), RunOf(p, s, k)
  PROVE  m = k
<1>1. ASSUME NEW a \in 0..(p - s - 1), NEW b \in 0..(p - s - 1), RunOf(p, s, a), RunOf(p, s, b)
      PROVE  ~(a < b)
  <2>. SUFFICES ASSUME a < b PROVE FALSE
    OBVIOUS
  <2>1. p - a - 1 \in (p - b)..(p - 1) /\ p - a - 1 # s
    BY <1>1
  <2>. QED  BY <1>1, <2>1 DEF RunOf
<1>2. ~(m < k) /\ ~(k < m)
  BY <1>1
<1>. QED  BY <1>2

LEMMA LongerRun ==
  ASSUME NEW s \in Nat, NEW p \in Nat, p > s
  PROVE  /\ text[p] # "backslash" => RunOf(p + 1, s, 0)
         /\ \A m \in 0..(p - s - 1) : text[p] = "backslash" =>
              (RunOf(p, s, m) <=> RunOf(p + 1, s, m + 1))
<1>1. RunOf(p + 1, s, 0) <=> (p = s \/ text[p] # "backslash")
  <2>1. (p + 1) - 0 = p + 1 /\ (p + 1) - 1 = p /\ (p + 1)..p = {}
    OBVIOUS
  <2>. QED  BY <2>1 DEF RunOf
<1>2. ASSUME NEW m \in 0..(p - s - 1), text[p] = "backslash"
      PROVE  RunOf(p, s, m) <=> RunOf(p + 1, s, m + 1)
  <2>1. (p + 1) - (m + 1) = p - m /\ (p + 1) - 1 = p
    OBVIOUS
  <2>2. \A q \in (p - m)..p : q \in (p - m)..(p - 1) \/ q = p
    OBVIOUS
  <2>3. \A q \in (p - m)..(p - 1) : q \in (p - m)..p
    OBVIOUS
  <2>. QED  BY <1>2, <2>1, <2>2, <2>3 DEF RunOf
<1>. QED  BY <1>1, <1>2

LEMMA RunExists ==
  ASSUME NEW s \in Nat, NEW p \in Nat, p > s
  PROVE  \E m \in 0..(p - s - 1) : RunOf(p, s, m)
<1>. DEFINE T == {k \in Nat : \E m \in 0..k : RunOf(s + 1 + k, s, m)}
<1>1. 0 \in T
  <2>1. (s + 1 + 0) - 0 - 1 = s /\ (s + 1 + 0 - 0)..(s + 1 + 0 - 1) = {} /\ 0 \in 0..0
    OBVIOUS
  <2>. QED  BY <2>1 DEF RunOf
<1>2. ASSUME NEW k \in Nat, k \in T PROVE k + 1 \in T
  <2>1. PICK m \in 0..k : RunOf(s + 1 + k, s, m)
    BY <1>2
  <2>2. /\ s + 1 + k \in Nat /\ s + 1 + k > s /\ s + 1 + (k + 1) = (s + 1 + k) + 1
        /\ (s + 1 + k) - s - 1 = k /\ m + 1 \in 0..(k + 1) /\ 0 \in 0..(k + 1)
    OBVIOUS
  <2>3. RunOf((s + 1 + k) + 1, s, 0) \/ RunOf((s + 1 + k) + 1, s, m + 1)
    BY <2>1, <2>2, LongerRun
  <2>. QED  BY <2>2, <2>3
<1>3. \A k \in Nat : k \in T
  <2>. HIDE DEF T
  <2>. QED  BY <1>1, <1>2, NatSetInduction
<1>4. p - s - 1 \in Nat /\ s + 1 + (p - s - 1) = p
  OBVIOUS
<1>5. p - s - 1 \in T
  BY <1>3, <1>4
<1>. QED  BY <1>4, <1>5

LEMMA EscapedByRun ==
  ASSUME NEW s \in Nat, NEW p \in Nat
  PROVE  Escaped(p, s) <=> \E m \in 0..(p - s - 1) : m % 2 = 1 /\ RunOf(p, s, m)
BY DEF Escaped, RunOf

LEMMA FirstIsNotEscaped ==
  ASSUME NEW s \in Nat
  PROVE  ~Escaped(s + 1, s)
BY DEF Escaped

LEMMA EscapedSteps ==
  ASSUME NEW s \in Nat, NEW p \in Nat, p > s
  PROVE  Escaped(p + 1, s) <=> text[p] = "backslash" /\ ~Escaped(p, s)
<1>1. PICK m \in 0..(p - s - 1) : RunOf(p, s, m)
  BY RunExists
<1>2. Escaped(p, s) <=> m % 2 = 1
  BY <1>1, EscapedByRun, OneRun
<1>3. CASE text[p] # "backslash"
  <2>1. RunOf(p + 1, s, 0) /\ 0 \in 0..((p + 1) - s - 1) /\ p + 1 \in Nat
    BY <1>3, LongerRun
  <2>2. 0 % 2 = 0
    OBVIOUS
  <2>3. ~Escaped(p + 1, s)
    <3>1. \A k \in 0..((p + 1) - s - 1) : RunOf(p + 1, s, k) => k = 0
      BY <2>1, OneRun
    <3>. QED  BY <2>1, <2>2, <3>1, EscapedByRun
  <2>. QED  BY <1>3, <2>3
<1>4. CASE text[p] = "backslash"
  <2>1. RunOf(p + 1, s, m + 1) /\ m + 1 \in 0..((p + 1) - s - 1) /\ p + 1 \in Nat
    BY <1>1, <1>4, LongerRun
  <2>2. \A k \in 0..((p + 1) - s - 1) : RunOf(p + 1, s, k) => k = m + 1
    BY <2>1, OneRun
  <2>3. Escaped(p + 1, s) <=> (m + 1) % 2 = 1
    BY <2>1, <2>2, EscapedByRun
  <2>4. (m + 1) % 2 = 1 <=> ~(m % 2 = 1)
    OBVIOUS
  <2>. QED  BY <1>2, <1>4, <2>3, <2>4
<1>. QED  BY <1>3, <1>4

\* Where every escape is whole the two agree.
LEMMA ReachedIsNotEscaped ==
  ASSUME EscapesAreWhole, text \in Seq(Alphabet), NEW i \in DOMAIN text
  PROVE  \A p \in (i + 1)..(Len(text) + 1) : p \in Reached(i) <=> ~Escaped(p, i)
<1>. DEFINE n == Len(text)
            T == {k \in 0..(n - i) : \A p \in (i + 1)..(i + 1 + k) : p \in Reached(i) <=> ~Escaped(p, i)}
<1>1. n \in Nat /\ i \in 1..n /\ i \in Nat /\ DOMAIN text = 1..n
  OBVIOUS
<1>2. \A p \in (i + 1)..(n + 1) : p \in Reached(i) <=> ReachedByStep(i, p)
  BY <1>1, ReachedSteps DEF ReachedIsByStep
<1>3. i + 1 \in Reached(i) /\ ~Escaped(i + 1, i)
  <2>1. i + 1 \in (i + 1)..(n + 1) /\ ReachedByStep(i, i + 1)
    BY <1>1 DEF ReachedByStep
  <2>2. i + 1 \in Reached(i)
    BY <1>2, <2>1
  <2>. QED  BY <1>1, <2>2, FirstIsNotEscaped
<1>4. 0 \in T
  BY <1>1, <1>3
<1>. HIDE DEF n
<1>5. ASSUME NEW k \in 0..(n - i - 1), k \in T PROVE k + 1 \in T
  <2>. DEFINE p == i + 1 + k
  <2>1. /\ p \in (i + 1)..n /\ p + 1 \in (i + 1)..(n + 1) /\ p \in Nat /\ p > i /\ p \in 1..n
        /\ (p + 1) - 1 = p /\ (p + 1) - 2 = p - 1 /\ p + 1 # i + 1 /\ p + 1 > i + 1
        /\ (p + 1 > i + 2 <=> p > i + 1)
    BY <1>1
  <2>2. p > i + 1 => p - 1 \in (i + 1)..(i + 1 + k) /\ p - 1 \in Nat /\ p - 1 > i /\ p - 1 \in 1..n
                     /\ (p - 1) + 1 = p
    BY <1>1, <2>1
  <2>3. p \in (i + 1)..(i + 1 + k) /\ (p = i + 1 \/ p > i + 1)
    BY <1>1
  <2>. HIDE DEF p
  <2>4. p \in Reached(i) <=> ~Escaped(p, i)
    BY <1>5, <2>3
  <2>5. p > i + 1 => (p - 1 \in Reached(i) <=> ~Escaped(p - 1, i))
    BY <1>5, <2>2
  <2>6. Escaped(p + 1, i) <=> text[p] = "backslash" /\ ~Escaped(p, i)
    BY <1>1, <2>1, EscapedSteps
  <2>7. p > i + 1 => (Escaped(p, i) <=> text[p - 1] = "backslash" /\ ~Escaped(p - 1, i))
    <3>. SUFFICES ASSUME p > i + 1
                  PROVE  Escaped(p, i) <=> text[p - 1] = "backslash" /\ ~Escaped(p - 1, i)
      OBVIOUS
    <3>1. Escaped((p - 1) + 1, i) <=> text[p - 1] = "backslash" /\ ~Escaped(p - 1, i)
      BY <1>1, <2>2, EscapedSteps
    <3>. QED  BY <2>2, <3>1
  <2>8. p + 1 \in Reached(i) <=>
          \/ p \in Reached(i) /\ text[p] # "backslash"
          \/ p > i + 1 /\ p - 1 \in Reached(i) /\ text[p - 1] = "backslash" /\ text[p] # "newline"
    BY <1>2, <2>1 DEF ReachedByStep
  <2>9. p > i + 1 /\ text[p - 1] = "backslash" => text[p] # "newline"
    BY <1>1, <2>2 DEF EscapesAreWhole
  <2>10. p = i + 1 => p \in Reached(i)
    BY <1>3
  <2>11. "backslash" # "newline"
    OBVIOUS
  <2>12. p + 1 \in Reached(i) <=> ~Escaped(p + 1, i)
    BY <2>3, <2>4, <2>5, <2>6, <2>7, <2>8, <2>9, <2>10
  <2>13. \A q \in (i + 1)..(i + 1 + (k + 1)) : q \in (i + 1)..(i + 1 + k) \/ q = p + 1
    BY <1>1 DEF p
  <2>14. k + 1 \in 0..(n - i)
    BY <1>1
  <2>. QED  BY <1>5, <2>12, <2>13, <2>14
<1>6. \A k \in 0..(n - i) : k \in T
  <2>1. n - i \in Nat
    BY <1>1
  <2>. HIDE DEF T
  <2>. QED  BY <1>4, <1>5, <2>1, RangeSetInduction
<1>7. n - i \in 0..(n - i) /\ i + 1 + (n - i) = n + 1
  BY <1>1
<1>8. n - i \in T
  BY <1>6, <1>7
<1>. QED  BY <1>7, <1>8 DEF n

\* No text that can be scanned ends in the middle of an escape.
LEMMA EndIsReached ==
  ASSUME EscapesAreWhole, text \in Seq(Alphabet), NEW i \in DOMAIN text
  PROVE  Len(text) + 1 \in Reached(i)
<1>1. Len(text) \in Nat /\ i \in 1..Len(text) /\ DOMAIN text = 1..Len(text) /\ i \in Nat
  OBVIOUS
<1>2. CASE i = Len(text)
  <2>1. i + 1 \in (i + 1)..(Len(text) + 1)
    BY <1>1
  <2>2. i + 1 \in Reached(i)
    BY <1>1, <2>1, FirstIsNotEscaped, ReachedIsNotEscaped
  <2>. QED  BY <1>2, <2>2
<1>3. CASE i # Len(text)
  <2>1. Len(text) > i /\ Len(text) \in DOMAIN text
    BY <1>1, <1>3
  <2>2. text[Len(text)] # "backslash"
    BY <2>1 DEF EscapesAreWhole
  <2>3. ~Escaped(Len(text) + 1, i)
    BY <1>1, <2>1, <2>2, EscapedSteps
  <2>. QED  BY <1>1, <2>3, ReachedIsNotEscaped
<1>. QED  BY <1>2, <1>3

-----------------------------------------------------------------------------
(* The automaton of Region beside the alternatives of the regular expression. *)

Kinds   == {"block", "line", "string", "code"}
Regions == [kind : Kinds, since : Nat]

Begun(i) == [kind |-> Opening(i), since |-> i]

FollowsRegions(r) ==
  /\ r \in [Nat -> Regions]
  /\ \A i \in Nat : r[i] = IF i > 1 /\ ~EndsAfter(i - 1, r[i - 1]) THEN r[i - 1] ELSE Begun(i)

LEMMA BegunIsRegion == \A i \in Nat : Begun(i) \in Regions
  BY DEF Begun, Regions, Kinds, Opening

LEMMA RegionSteps ==
  \E r : FollowsRegions(r) /\ Region = [i \in DOMAIN text |-> r[i].kind]
<1>. DEFINE next(i, b) == IF i > 1 /\ ~EndsAfter(i - 1, b) THEN b ELSE Begun(i)
            step == [x \in (Nat \ {0}) \X Regions |-> next(x[1], x[2])]
            Goes(f) == f = [i \in Nat |-> IF i > 1 /\ ~EndsAfter(i - 1, f[i - 1]) THEN f[i - 1]
                                          ELSE [kind |-> Opening(i), since |-> i]]
            region == CHOOSE f : Goes(f)
<1>1. step \in [(Nat \ {0}) \X Regions -> Regions] /\ Begun(0) \in Regions
  BY BegunIsRegion
<1>2. PICK f \in [Nat -> Regions] : StepwiseAlways(f, Begun(0), step)
  <2>. HIDE DEF step
  <2>. QED  BY <1>1, StepwiseAlwaysFunction
<1>3. \A i \in Nat : f[i] = IF i > 1 /\ ~EndsAfter(i - 1, f[i - 1]) THEN f[i - 1] ELSE Begun(i)
  <2>. SUFFICES ASSUME NEW i \in Nat
                PROVE  f[i] = IF i > 1 /\ ~EndsAfter(i - 1, f[i - 1]) THEN f[i - 1] ELSE Begun(i)
    OBVIOUS
  <2>1. f[i] = IF i = 0 THEN Begun(0) ELSE step[<<i, f[i - 1]>>]
    <3>. HIDE DEF step
    <3>. QED  BY <1>2 DEF StepwiseAlways
  <2>2. CASE i = 0
    BY <2>1, <2>2
  <2>3. CASE i # 0
    <3>1. <<i, f[i - 1]>> \in (Nat \ {0}) \X Regions
      BY <2>3
    <3>2. step[<<i, f[i - 1]>>] = next(i, f[i - 1])
      <4>. HIDE DEF next
      <4>. QED  BY <3>1
    <3>. QED  BY <2>1, <2>3, <3>2
  <2>. QED  BY <2>2, <2>3
<1>4. Goes(f)
  <2>1. f = [i \in Nat |-> f[i]]
    OBVIOUS
  <2>. QED  BY <1>3, <2>1 DEF Begun
<1>5. Goes(region)
  <2>. HIDE DEF Goes
  <2>. QED  BY <1>4
<1>6. Region = [i \in DOMAIN text |-> region[i].kind]
  BY DEF Region
<1>. HIDE DEF region
<1>7. \A i \in Nat : region[i] = IF i > 1 /\ ~EndsAfter(i - 1, region[i - 1]) THEN region[i - 1]
                                 ELSE Begun(i)
  BY <1>5 DEF Begun
<1>8. \A i \in Nat : region[i] \in Regions
  <2>. DEFINE T == {i \in Nat : region[i] \in Regions}
  <2>1. 0 \in T
    BY <1>7, BegunIsRegion
  <2>2. ASSUME NEW i \in Nat, i \in T PROVE i + 1 \in T
    <3>1. i + 1 \in Nat /\ (i + 1) - 1 = i
      OBVIOUS
    <3>. QED  BY <1>7, <2>2, <3>1, BegunIsRegion
  <2>3. \A i \in Nat : i \in T
    <3>. HIDE DEF T
    <3>. QED  BY <2>1, <2>2, NatSetInduction
  <2>. QED  BY <2>3
<1>9. region \in [Nat -> Regions]
  BY <1>5, <1>8
<1>. QED  BY <1>6, <1>7, <1>9 DEF FollowsRegions

\* A text that is scanned to its end, with whole escapes.
Whole == text \in Seq(Alphabet) /\ language \in Languages /\ EscapesAreWhole

LEMMA WholeText ==
  ASSUME Whole
  PROVE  /\ Len(text) \in Nat /\ DOMAIN text = 1..Len(text)
         /\ IsLanguage(language)
         /\ \A i \in DOMAIN text : i \in Nat /\ i >= 1 /\ i <= Len(text)
  BY HighlightAssumption DEF Whole

\* The match at i takes what the automaton reads from i in its region.
Follows(i, e) ==
  /\ \A p \in i..(e - 1) : ~EndsAfter(p, Begun(i))
  /\ e < Len(text) => EndsAfter(e, Begun(i))

LEMMA BlockFollows ==
  ASSUME Whole, NEW i \in DOMAIN text, Opening(i) = "block"
  PROVE  /\ Match(i) # {}
         /\ \A e \in Match(i) : Follows(i, e) /\ classify(i, e) = "comment"
<1>. DEFINE opening == language.blockComment[1]
            closing == language.blockComment[2]
            n == Len(text)
            S == BlockEnds(i, opening, closing)
<1>1. /\ language.blockComment # None /\ At(i, opening) /\ IsSign(opening) /\ IsSign(closing)
      /\ n \in Nat /\ i \in Nat /\ i <= n
  BY WholeText DEF Opening, IsLanguage
<1>2. BlockComment(i) = Least(S)
  BY <1>1 DEF BlockComment, BlockEnds
<1>3. S \in SUBSET (i..n) /\ n \in S
  <2>1. Len(text) \in i..Len(text)
    BY <1>1
  <2>. QED  BY <2>1 DEF BlockEnds
<1>4. Least(S) # {}
  <2>1. i \in Int /\ n \in Int /\ S # {}
    BY <1>1, <1>3
  <2>. HIDE DEF S, n
  <2>. QED  BY <1>3, <2>1, LeastExists
<1>5. Match(i) = Least(S)
  BY <1>2, <1>4, FirstMatches DEF MatchIsFirst
<1>6. \A p : EndsAfter(p, Begun(i)) <=>
         /\ p - Len(closing) - Len(opening) + 1 >= i
         /\ At(p - Len(closing) + 1, closing)
  <2>1. Begun(i).kind = "block" /\ Begun(i).since = i
    BY DEF Begun
  <2>. QED  BY <2>1 DEF EndsAfter
<1>7. Len(closing) \in Nat /\ Len(opening) \in Nat
  BY <1>1 DEF IsSign
<1>8. \A p \in i..n : p - Len(closing) - Len(opening) + 1 >= i
                      <=> p >= i + Len(opening) + Len(closing) - 1
  <2>. SUFFICES ASSUME NEW p \in i..n
                PROVE  p - Len(closing) - Len(opening) + 1 >= i
                       <=> p >= i + Len(opening) + Len(closing) - 1
    OBVIOUS
  <2>1. PICK a \in Nat : a = Len(closing)
    BY <1>7
  <2>2. PICK b \in Nat : b = Len(opening)
    BY <1>7
  <2>3. p \in Int /\ i \in Int
    BY <1>1
  <2>4. p - a - b + 1 >= i <=> p >= i + b + a - 1
    BY <2>3
  <2>. QED  BY <2>1, <2>2, <2>4
<1>9. \A p \in i..n : p \in S <=> p = n \/ EndsAfter(p, Begun(i))
  BY <1>6, <1>8 DEF BlockEnds
<1>10. ASSUME NEW e \in Match(i) PROVE Follows(i, e)
  <2>. HIDE DEF S, n
  <2>1. e \in S /\ e \in i..n /\ \A p \in S : e <= p
    BY <1>3, <1>5 DEF Least
  <2>2. \A p \in i..(e - 1) : p \in i..n /\ p # n /\ p \notin S
    BY <1>1, <2>1
  <2>. QED  BY <1>1, <1>9, <2>1, <2>2 DEF Follows, n
<1>11. \A e : classify(i, e) = "comment"
  BY <1>1 DEF classify
<1>. QED  BY <1>4, <1>5, <1>10, <1>11

LEMMA LineFollows ==
  ASSUME Whole, NEW i \in DOMAIN text, Opening(i) = "line"
  PROVE  /\ Match(i) # {}
         /\ \A e \in Match(i) : Follows(i, e) /\ classify(i, e) = "comment"
<1>. DEFINE sign == language.lineComment
            n == Len(text)
            S == LineEnds(i, sign)
<1>1. /\ At(i, sign) /\ IsSign(sign) /\ n \in Nat /\ i \in Nat /\ i <= n
      /\ language.blockComment = None \/ ~At(i, language.blockComment[1])
  BY WholeText DEF Opening, IsLanguage
<1>2. /\ Len(sign) \in Nat /\ Len(sign) >= 1 /\ DOMAIN sign = 1..Len(sign)
      /\ i + Len(sign) - 1 <= n
      /\ \A k \in 1..Len(sign) : text[i + k - 1] # "newline"
  BY <1>1 DEF IsSign, At
<1>3. BlockComment(i) = {} /\ LineComment(i) = Greatest(S)
  BY <1>1 DEF BlockComment, LineComment, LineEnds
<1>4. S \in SUBSET (i..n) /\ Greatest(S) # {}
  <2>1. i + Len(sign) - 1 \in i..n /\ (i + Len(sign))..(i + Len(sign) - 1) = {}
    BY <1>1, <1>2
  <2>2. i + Len(sign) - 1 \in S /\ S \in SUBSET (i..n) /\ i \in Int /\ n \in Int
    BY <1>1, <1>2, <2>1 DEF LineEnds
  <2>. HIDE DEF S, n
  <2>. QED  BY <2>2, GreatestExists
<1>5. Match(i) = Greatest(S)
  BY <1>3, <1>4, FirstMatches DEF MatchIsFirst
<1>6. \A p : EndsAfter(p, Begun(i)) <=> p < n /\ text[p + 1] = "newline"
  <2>1. Begun(i).kind = "line"
    BY DEF Begun
  <2>. QED  BY <2>1 DEF EndsAfter
<1>7. \A p \in i..(i + Len(sign) - 1) : text[p] # "newline"
  <2>. SUFFICES ASSUME NEW p \in i..(i + Len(sign) - 1) PROVE text[p] # "newline"
    OBVIOUS
  <2>1. p - i + 1 \in 1..Len(sign) /\ i + (p - i + 1) - 1 = p
    BY <1>1, <1>2
  <2>. QED  BY <1>2, <2>1
<1>8. ASSUME NEW e \in Match(i) PROVE Follows(i, e)
  <2>1. /\ e \in i..n /\ e >= i + Len(sign) - 1
        /\ \A p \in (i + Len(sign))..e : text[p] # "newline"
        /\ \A d \in S : d <= e
    BY <1>5 DEF Greatest, LineEnds
  <2>2. ASSUME NEW p \in i..(e - 1) PROVE text[p + 1] # "newline"
    <3>1. p + 1 \in i..(i + Len(sign) - 1) \/ p + 1 \in (i + Len(sign))..e
      BY <1>1, <1>2, <2>1
    <3>. QED  BY <1>7, <2>1, <3>1
  <2>3. ASSUME e < n PROVE text[e + 1] = "newline"
    <3>. SUFFICES ASSUME text[e + 1] # "newline" PROVE FALSE
      OBVIOUS
    <3>1. e + 1 \in i..n /\ e + 1 >= i + Len(sign) - 1
      BY <1>1, <1>2, <2>1, <2>3
    <3>2. \A p \in (i + Len(sign))..(e + 1) : p \in (i + Len(sign))..e \/ p = e + 1
      BY <1>1, <1>2, <2>1
    <3>3. e + 1 \in S
      BY <2>1, <3>1, <3>2 DEF LineEnds
    <3>. QED  BY <1>1, <2>1, <3>3
  <2>. QED  BY <1>6, <2>2, <2>3 DEF Follows
<1>9. \A e : classify(i, e) = "comment"
  BY <1>1 DEF classify
<1>. QED  BY <1>4, <1>5, <1>8, <1>9

LEMMA StringFollows ==
  ASSUME Whole, NEW i \in DOMAIN text, Opening(i) = "string"
  PROVE  /\ Match(i) # {}
         /\ \A e \in Match(i) : Follows(i, e) /\ classify(i, e) = "string"
<1>. DEFINE n == Len(text)
            S == StringEnds(i)
<1>1. /\ ~At(i, language.lineComment) /\ text[i] \in language.stringChars
      /\ n \in Nat /\ i \in Nat /\ i <= n /\ i >= 1
      /\ language.blockComment = None \/ ~At(i, language.blockComment[1])
  BY WholeText DEF Opening
<1>2. BlockComment(i) = {} /\ LineComment(i) = {} /\ StringLiteral(i) = Least(S)
  BY <1>1 DEF BlockComment, LineComment, StringLiteral, StringEnds
<1>3. \A p \in (i + 1)..(n + 1) : p \in Reached(i) <=> ~Escaped(p, i)
  BY ReachedIsNotEscaped DEF Whole
<1>4. n + 1 \in Reached(i)
  BY EndIsReached DEF Whole
<1>5. S \in SUBSET (i..n) /\ n \in S
  BY <1>1, <1>4 DEF StringEnds
<1>6. Least(S) # {}
  <2>1. i \in Int /\ n \in Int /\ S # {}
    BY <1>1, <1>5
  <2>. HIDE DEF S, n
  <2>. QED  BY <1>5, <2>1, LeastExists
<1>7. Match(i) = Least(S)
  BY <1>2, <1>6, FirstMatches DEF MatchIsFirst
<1>8. \A p : EndsAfter(p, Begun(i)) <=> p > i /\ text[p] = text[i] /\ ~Escaped(p, i)
  <2>1. Begun(i).kind = "string" /\ Begun(i).since = i
    BY DEF Begun
  <2>. QED  BY <2>1 DEF EndsAfter
<1>9. \A p \in i..n : p \in S <=> p = n \/ EndsAfter(p, Begun(i))
  <2>. SUFFICES ASSUME NEW p \in i..n PROVE p \in S <=> p = n \/ EndsAfter(p, Begun(i))
    OBVIOUS
  <2>1. i \notin Reached(i)
    BY <1>1 DEF Reached
  <2>2. p \in S <=> p = n \/ (p \in Reached(i) /\ text[p] = text[i])
    BY <1>4 DEF StringEnds
  <2>3. p # i => p \in (i + 1)..(n + 1) /\ p > i
    BY <1>1
  <2>4. p = i => ~(p > i)
    BY <1>1
  <2>. HIDE DEF S, n
  <2>. QED  BY <1>3, <1>8, <2>1, <2>2, <2>3, <2>4
<1>10. ASSUME NEW e \in Match(i) PROVE Follows(i, e)
  <2>. HIDE DEF S, n
  <2>1. e \in S /\ e \in i..n /\ \A p \in S : e <= p
    BY <1>5, <1>7 DEF Least
  <2>2. \A p \in i..(e - 1) : p \in i..n /\ p # n /\ p \notin S
    BY <1>1, <2>1
  <2>. QED  BY <1>1, <1>9, <2>1, <2>2 DEF Follows, n
<1>11. \A e : classify(i, e) = "string"
  <2>1. text[i] \notin Digits
    BY <1>1, WholeText DEF IsLanguage, InWords
  <2>. QED  BY <1>1, <2>1 DEF classify
<1>. QED  BY <1>6, <1>7, <1>10, <1>11

LEMMA WordsAreCode ==
  ASSUME Whole, NEW p \in DOMAIN text, text[p] \in InWords \cup {"dot"}
  PROVE  Opening(p) = "code"
<1>1. IsLanguage(language) /\ p \in Nat
  BY WholeText
<1>2. ASSUME NEW word, IsSign(word) PROVE ~At(p, word)
  <2>1. 1 \in DOMAIN word /\ word[1] \notin InWords \cup {"dot"} /\ p + 1 - 1 = p
    BY <1>1, <1>2 DEF IsSign
  <2>. QED  BY <2>1 DEF At
<1>. QED  BY <1>1, <1>2 DEF Opening, IsLanguage

LEMMA CodeFollows ==
  ASSUME Whole, NEW i \in DOMAIN text, Opening(i) = "code", NEW e \in Match(i)
  PROVE  /\ classify(i, e) \notin {"comment", "string"}
         /\ \A p \in i..e : Opening(p) = "code"
<1>1. /\ ~At(i, language.lineComment) /\ text[i] \notin language.stringChars
      /\ language.blockComment = None \/ ~At(i, language.blockComment[1])
  BY DEF Opening
<1>2. classify(i, e) \notin {"comment", "string"}
  BY <1>1 DEF classify
<1>3. BlockComment(i) = {} /\ LineComment(i) = {} /\ StringLiteral(i) = {}
  BY <1>1 DEF BlockComment, LineComment, StringLiteral
<1>4. e \in NumberEnds(i) \/ e \in {d \in i..Len(text) : \A p \in i..d : IsWordChar(p)}
  <2>1. e \in NumberLiteral(i) \/ e \in Word(i)
    BY <1>3, FirstMatches DEF MatchIsFirst
  <2>2. NumberLiteral(i) \subseteq NumberEnds(i)
    BY DEF NumberLiteral, NumberEnds, Greatest
  <2>3. Word(i) \subseteq {d \in i..Len(text) : \A p \in i..d : IsWordChar(p)}
    BY DEF Word, Greatest
  <2>. QED  BY <2>1, <2>2, <2>3
<1>5. Len(text) \in Nat /\ i \in Nat /\ i >= 1 /\ DOMAIN text = 1..Len(text) /\ e \in i..Len(text)
  BY WholeText DEF Match
<1>6. ASSUME NEW p \in i..e PROVE text[p] \in InWords \cup {"dot"}
  <2>1. CASE e \in NumberEnds(i)
    <3>1. PICK d \in i..e :
            /\ \A q \in i..d : text[q] \in Digits
            /\ \/ d = e
               \/ /\ d + 2 <= e /\ text[d + 1] = "dot"
                  /\ \A q \in (d + 2)..e : text[q] \in Digits
      BY <2>1 DEF NumberEnds
    <3>2. p \in i..d \/ (d # e /\ (p = d + 1 \/ p \in (d + 2)..e))
      BY <1>5
    <3>. QED  BY <3>1, <3>2 DEF InWords
  <2>2. CASE \A q \in i..e : IsWordChar(q)
    BY <2>2 DEF IsWordChar
  <2>. QED  BY <1>4, <2>1, <2>2
<1>7. ASSUME NEW p \in i..e PROVE Opening(p) = "code"
  <2>1. p \in DOMAIN text
    BY <1>5
  <2>. QED  BY <1>6, <2>1, WordsAreCode
<1>. QED  BY <1>2, <1>7

\* What a token says of the regions of its characters.
IsCode(t) ==
  t.type \notin {"comment", "string"} /\ \A p \in t.from..t.to : Opening(p) = "code"

IsRegion(t) ==
  /\ Opening(t.from) # "code" /\ Follows(t.from, t.to)
  /\ t.type = IF Opening(t.from) = "string" THEN "string" ELSE "comment"

LEMMA TokenKinds ==
  ASSUME Whole, NEW t, \A p \in t.from..t.to : p \in DOMAIN text, t.from \in DOMAIN text,
         IsMatch(t) \/ IsGap(t)
  PROVE  IsCode(t) \/ IsRegion(t)
<1>1. \A p : Opening(p) \in Kinds
  BY DEF Opening, Kinds
<1>2. CASE IsMatch(t)
  <2>1. CASE Opening(t.from) = "code"
    BY <1>2, <2>1, CodeFollows DEF IsMatch, IsCode
  <2>2. CASE Opening(t.from) # "code"
    BY <1>1, <1>2, <2>2, BlockFollows, LineFollows, StringFollows DEF IsMatch, IsRegion, Kinds
  <2>. QED  BY <2>1, <2>2
<1>3. CASE IsGap(t)
  <2>1. \A p \in DOMAIN text : Match(p) = {} => Opening(p) = "code"
    BY <1>1, BlockFollows, LineFollows, StringFollows DEF Kinds
  <2>. QED  BY <1>3, <2>1 DEF IsGap, IsCode
<1>. QED  BY <1>2, <1>3

AgreeIn(t, p, region) ==
  /\ p \in t.from..t.to
  /\ \/ IsCode(t) /\ region.kind = "code"
     \/ IsRegion(t) /\ region = Begun(t.from)

LEMMA RegionsFollow ==
  ASSUME ScanInv, ColourInv, ~scanning, Whole, NEW r, FollowsRegions(r)
  PROVE  \A p \in DOMAIN text : \E j \in DOMAIN tokens : AgreeIn(tokens[j], p, r[p])
<1>. DEFINE n == Len(text)
            T == {k \in 0..(n - 1) : \E j \in DOMAIN tokens : AgreeIn(tokens[j], k + 1, r[k + 1])}
<1>1. /\ n \in Nat /\ DOMAIN text = 1..n /\ tokens \in Seq(Tokens)
      /\ Consecutive(tokens) /\ EndOf(tokens) = n /\ Scanned(tokens)
  BY WholeText DEF ScanInv, ColourInv, HighlightTypeOK, NothingIsLost
<1>2. ASSUME NEW j \in DOMAIN tokens
      PROVE  /\ tokens[j].from \in Nat /\ tokens[j].to \in Nat
             /\ 1 <= tokens[j].from /\ tokens[j].from <= tokens[j].to /\ tokens[j].to <= n
  <2>1. /\ tokens[j].from \in Nat /\ tokens[j].to \in Nat
        /\ 1 <= tokens[j].from /\ tokens[j].from <= tokens[j].to
        /\ j < Len(tokens) => tokens[j].to < tokens[Len(tokens)].from
    BY <1>1, TokensBegin
  <2>2. Len(tokens) \in DOMAIN tokens /\ (j < Len(tokens) \/ j = Len(tokens)) /\ tokens # <<>>
    BY <1>1
  <2>3. /\ tokens[Len(tokens)].from \in Nat /\ tokens[Len(tokens)].from <= tokens[Len(tokens)].to
        /\ tokens[Len(tokens)].to = n
    BY <1>1, <2>2, TokensBegin DEF EndOf
  <2>. HIDE DEF n
  <2>. QED  BY <1>1, <2>1, <2>2, <2>3
<1>3. ASSUME NEW j \in DOMAIN tokens PROVE IsCode(tokens[j]) \/ IsRegion(tokens[j])
  <2>1. \A p \in tokens[j].from..tokens[j].to : p \in DOMAIN text
    BY <1>1, <1>2
  <2>2. tokens[j].from \in DOMAIN text
    BY <1>1, <1>2
  <2>3. IsMatch(tokens[j]) \/ IsGap(tokens[j])
    BY <1>1 DEF Scanned
  <2>. QED  BY <2>1, <2>2, <2>3, TokenKinds
<1>4. ASSUME NEW j \in DOMAIN tokens, r[tokens[j].from] = Begun(tokens[j].from)
      PROVE  AgreeIn(tokens[j], tokens[j].from, r[tokens[j].from])
  <2>1. tokens[j].from \in tokens[j].from..tokens[j].to
    BY <1>2
  <2>2. Begun(tokens[j].from).kind = Opening(tokens[j].from)
    BY DEF Begun
  <2>. QED  BY <1>3, <1>4, <2>1, <2>2 DEF AgreeIn, IsCode
<1>5. n > 0 => 0 \in T
  <2>. SUFFICES ASSUME n > 0 PROVE 0 \in T
    OBVIOUS
  <2>1. 1 \in 1..EndOf(tokens) /\ 0 \in 0..(n - 1)
    BY <1>1
  <2>2. PICK j \in DOMAIN tokens : 1 \in tokens[j].from..tokens[j].to
    BY <1>1, <2>1, TokensCover
  <2>3. tokens[j].from = 1
    BY <1>2, <2>2
  <2>4. r[1] = Begun(1)
    BY DEF FollowsRegions
  <2>5. AgreeIn(tokens[j], 1, r[1])
    BY <1>4, <2>3, <2>4
  <2>. QED  BY <2>1, <2>5
<1>6. ASSUME NEW k \in 0..(n - 1 - 1), k \in T PROVE k + 1 \in T
  <2>1. PICK p : p = k + 1
    OBVIOUS
  <2>2. /\ p \in Nat /\ p >= 1 /\ p < n /\ p + 1 \in 1..n /\ k + 1 \in 0..(n - 1)
        /\ (k + 1) + 1 = p + 1 /\ (p + 1) - 1 = p /\ p + 1 > 1 /\ p + 1 \in Nat
    BY <1>1, <2>1
  <2>3. PICK i \in DOMAIN tokens : AgreeIn(tokens[i], p, r[p])
    BY <1>6, <2>1
  <2>4. PICK j \in DOMAIN tokens : p + 1 \in tokens[j].from..tokens[j].to
    BY <1>1, <2>2, TokensCover
  <2>5. i = j \/ (p = tokens[i].to /\ p + 1 = tokens[j].from)
    BY <1>1, <2>2, <2>3, <2>4, NextToken DEF AgreeIn
  <2>6. r[p + 1] = IF ~EndsAfter(p, r[p]) THEN r[p] ELSE Begun(p + 1)
    BY <2>2 DEF FollowsRegions
  <2>7. CASE i = j
    <3>1. CASE IsCode(tokens[i]) /\ r[p].kind = "code"
      <4>1. r[p + 1] = Begun(p + 1)
        BY <2>6, <3>1 DEF EndsAfter
      <4>2. r[p + 1].kind = "code"
        BY <2>4, <2>7, <3>1, <4>1 DEF Begun, IsCode
      <4>. QED  BY <2>2, <2>4, <2>7, <3>1, <4>2 DEF AgreeIn
    <3>2. CASE IsRegion(tokens[i]) /\ r[p] = Begun(tokens[i].from)
      <4>1. p \in tokens[i].from..(tokens[i].to - 1)
        BY <1>2, <2>2, <2>3, <2>4, <2>7 DEF AgreeIn
      <4>2. ~EndsAfter(p, r[p])
        BY <3>2, <4>1 DEF IsRegion, Follows
      <4>3. r[p + 1] = r[p]
        BY <2>6, <4>2
      <4>. QED  BY <2>2, <2>4, <2>7, <3>2, <4>3 DEF AgreeIn
    <3>. QED  BY <2>3, <3>1, <3>2 DEF AgreeIn
  <2>8. CASE p = tokens[i].to /\ p + 1 = tokens[j].from
    <3>1. EndsAfter(p, r[p])
      <4>1. CASE r[p].kind = "code"
        BY <4>1 DEF EndsAfter
      <4>2. CASE IsRegion(tokens[i]) /\ r[p] = Begun(tokens[i].from)
        BY <2>2, <2>8, <4>2 DEF IsRegion, Follows
      <4>. QED  BY <2>3, <4>1, <4>2 DEF AgreeIn
    <3>2. r[p + 1] = Begun(p + 1)
      BY <2>6, <3>1
    <3>3. AgreeIn(tokens[j], p + 1, r[p + 1])
      BY <1>4, <2>8, <3>2
    <3>. QED  BY <2>2, <3>3
  <2>. QED  BY <2>5, <2>7, <2>8
<1>7. ASSUME NEW p \in DOMAIN text
      PROVE  \E j \in DOMAIN tokens : AgreeIn(tokens[j], p, r[p])
  <2>1. n > 0 /\ n - 1 \in Nat /\ p - 1 \in 0..(n - 1) /\ (p - 1) + 1 = p
    BY <1>1
  <2>2. \A k \in 0..(n - 1) : k \in T
    <3>1. 0 \in T /\ \A k \in 0..(n - 1 - 1) : k \in T => k + 1 \in T
      BY <1>5, <1>6, <2>1
    <3>. HIDE DEF T
    <3>. QED  BY <2>1, <3>1, RangeSetInduction
  <2>3. p - 1 \in T
    BY <2>1, <2>2
  <2>. QED  BY <2>1, <2>3
<1>. QED  BY <1>7

LEMMA RegionsAreTokens ==
  ASSUME ScanInv, ColourInv
  PROVE  RegionsAreTrue
<1>. SUFFICES ASSUME ~scanning, EscapesAreWhole, NEW i \in DOMAIN text
              PROVE  /\ (TypeAt(tokens, i) = "comment") = (Region[i] \in {"line", "block"})
                     /\ (TypeAt(tokens, i) = "string") = (Region[i] = "string")
  BY DEF RegionsAreTrue
<1>1. Whole
  BY DEF Whole, ScanInv, HighlightTypeOK
<1>2. PICK r : FollowsRegions(r) /\ Region = [p \in DOMAIN text |-> r[p].kind]
  BY RegionSteps
<1>3. PICK j \in DOMAIN tokens : AgreeIn(tokens[j], i, r[i])
  BY <1>1, <1>2, RegionsFollow
<1>. DEFINE t == tokens[j]
<1>4. TypeAt(tokens, i) = t.type
  BY <1>3, TypeOfToken DEF AgreeIn, ScanInv, HighlightTypeOK, NothingIsLost
<1>5. Region[i] = r[i].kind
  BY <1>2
<1>6. CASE IsCode(t) /\ r[i].kind = "code"
  BY <1>4, <1>5, <1>6 DEF IsCode
<1>7. CASE IsRegion(t) /\ r[i] = Begun(t.from)
  <2>1. r[i].kind = Opening(t.from)
    BY <1>7 DEF Begun
  <2>2. Opening(t.from) \in Kinds \ {"code"}
    BY <1>7 DEF Opening, Kinds, IsRegion
  <2>. QED  BY <1>4, <1>5, <1>7, <2>1, <2>2 DEF IsRegion, Kinds
<1>. QED  BY <1>3, <1>6, <1>7 DEF AgreeIn

\* What is coloured as a comment or a string is one and nothing else is, in
\* every text whose escapes are whole: the scanner agrees with an automaton that
\* reads the text once, for every language.
THEOREM RegionsAreAlwaysTrue == HighlightSpec => []RegionsAreTrue
<1>1. ScanInv /\ ColourInv => RegionsAreTrue
  BY RegionsAreTokens
<1>. QED  BY <1>1, ScannedInvariant, PTL
=============================================================================
