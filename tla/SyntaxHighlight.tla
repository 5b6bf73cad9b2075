-------------------------- MODULE SyntaxHighlight --------------------------
(***************************************************************************)
(* SyntaxHighlight.js: the revealed part of a source, scanned from its      *)
(* beginning into coloured tokens each time it grows.                       *)
(*                                                                          *)
(* A text is a sequence of characters, and a token says which characters it *)
(* takes: [type, from, to].  Characters that the scanner tells apart are    *)
(* letters (the underscore is one), digits, the dot, the backslash, the     *)
(* newline and those of the comments and strings of a language.  An         *)
(* alternative of the regular expression is the set of the positions where  *)
(* its match ends, which holds one position or none.                        *)
(*                                                                          *)
(* A key reveals or rewinds several characters; here the text grows by one  *)
(* at a time, which passes every text that the overlay has scanned.         *)
(***************************************************************************)
EXTENDS Integers, Sequences, FiniteSets

CONSTANTS
  Languages,    \* LANGUAGES: keywords, lineComment, blockComment, ...
  Letters, Digits,
  LowerCase,    \* LowerCase[c]: what toLowerCase makes of a letter
  Alphabet,     \* characters that the sources hold
  Inherited,    \* words that every object has as properties
  MaxLength,    \* bound on the length of the revealed text
  None          \* null

\* Signs are of one or two characters, that words, numbers and newlines have not.
InWords == Letters \cup Digits

IsSign(word) ==
  /\ Len(word) \in Nat /\ Len(word) >= 1 /\ Len(word) <= 2
  /\ DOMAIN word = 1..Len(word)
  /\ \A k \in DOMAIN word : word[k] \notin InWords \cup {"dot", "newline"}

IsLanguage(l) ==
  /\ IsSign(l.lineComment)
  /\ l.blockComment # None => IsSign(l.blockComment[1]) /\ IsSign(l.blockComment[2])
  /\ l.stringChars \cap (InWords \cup {"dot"}) = {}

ASSUME HighlightAssumption ==
  /\ MaxLength \in Nat
  /\ {"dot", "newline", "backslash"} \cap InWords = {}
  /\ \A l \in Languages : IsLanguage(l)

VARIABLES
  language,   \* the configuration of the language of the selected source
  text,       \* what is revealed
  tokens, lastEnd,
  scanning,   \* is tokenize still in its loop?
  shown       \* history: the tokens of the text without its last character

highlightVars == <<language, text, tokens, lastEnd, scanning, shown>>

Least(S)    == {e \in S : \A d \in S : e <= d}
Greatest(S) == {e \in S : \A d \in S : d <= e}

\* text.indexOf(word) at the position i
At(i, word) ==
  /\ i + Len(word) - 1 <= Len(text)
  /\ \A k \in DOMAIN word : text[i + k - 1] = word[k]

IsWordChar(i) == i \in DOMAIN text /\ text[i] \in InWords

-----------------------------------------------------------------------------
(* The alternatives of the regular expression, at the position i *)

\* A comment that is not closed goes to the end of the text.
BlockComment(i) ==
  IF language.blockComment = None \/ ~At(i, language.blockComment[1]) THEN {}
  ELSE LET opening == language.blockComment[1]
           closing == language.blockComment[2]
       IN Least({e \in i..Len(text) :
                   \/ e = Len(text)
                   \/ /\ e >= i + Len(opening) + Len(closing) - 1
                      /\ At(e - Len(closing) + 1, closing)})

LineComment(i) ==
  IF ~At(i, language.lineComment) THEN {}
  ELSE Greatest({e \in i..Len(text) :
                   /\ e >= i + Len(language.lineComment) - 1
                   /\ \A p \in (i + Len(language.lineComment))..e :
                        text[p] # "newline"})

\* Faulty: the backslash is a character like any other.
Reached_NoEscapes(i) == (i + 1)..(Len(text) + 1)

\* Where a string that opens at i may be read up to, character by character or
\* pair by pair.  The dot of \\. takes no newline.
Reached(i) ==
  LET at[p \in Nat] ==
        \/ p = i + 1
        \/ p > i + 1 /\ at[p - 1] /\ text[p - 1] # "backslash"
        \/ p > i + 2 /\ at[p - 2] /\ text[p - 2] = "backslash"
             /\ text[p - 1] # "newline"
  IN {p \in (i + 1)..(Len(text) + 1) : at[p]}

\* Faulty: a string that is not closed is none.
StringLiteral_Closed(i) ==
  IF text[i] \notin language.stringChars THEN {}
  ELSE Least({e \in i..Len(text) : e \in Reached(i) /\ text[e] = text[i]})

\* A string that is not closed goes to the end of the text, unless the text
\* ends in the middle of an escape.
StringLiteral(i) ==
  IF text[i] \notin language.stringChars THEN {}
  ELSE Least({e \in i..Len(text) :
                \/ e = Len(text) /\ e + 1 \in Reached(i)
                \/ e \in Reached(i) /\ text[e] = text[i]})

\* \b before and behind; the fraction is taken if the \b behind it is there.
NumberLiteral(i) ==
  Greatest({e \in i..Len(text) :
    /\ ~IsWordChar(i - 1) /\ ~IsWordChar(e + 1)
    /\ \E d \in i..e :
         /\ \A p \in i..d : text[p] \in Digits
         /\ \/ d = e
            \/ /\ d + 2 <= e /\ text[d + 1] = "dot"
               /\ \A p \in (d + 2)..e : text[p] \in Digits})

Word(i) ==
  IF text[i] \notin Letters THEN {}
  ELSE Greatest({e \in i..Len(text) : \A p \in i..e : IsWordChar(p)})

\* The first alternative that matches.
Match(i) ==
  LET parts == <<BlockComment(i), LineComment(i), StringLiteral(i),
                 NumberLiteral(i), Word(i)>>
  IN {e \in i..Len(text) :
        \E k \in DOMAIN parts : e \in parts[k] /\ \A j \in 1..(k - 1) : parts[j] = {}}

-----------------------------------------------------------------------------
(* tokenize *)

LookedUp(i, e) ==
  [k \in 1..(e - i + 1) |-> IF language.caseInsensitive
                            THEN LowerCase[text[i + k - 1]] ELSE text[i + k - 1]]

\* The keywords are properties of an object, which inherits some more.
classify(i, e) ==
  IF \/ language.blockComment # None /\ At(i, language.blockComment[1])
     \/ At(i, language.lineComment)
  THEN "comment"
  ELSE CASE text[i] \in language.stringChars -> "string"
         [] text[i] \in Digits               -> "number"
         [] OTHER -> IF LookedUp(i, e) \in language.keywords \cup Inherited
                     THEN "keyword" ELSE "plain"

Plain(from, to) ==
  IF from <= to THEN <<[type |-> "plain", from |-> from, to |-> to]>> ELSE <<>>

\* Where the scanner finds its next match; its lastIndex is always lastEnd,
\* because no match is empty.
Found == {i \in (lastEnd + 1)..Len(text) : Match(i) # {}}

HighlightInit ==
  /\ language \in Languages
  /\ text = <<>> /\ tokens = <<>> /\ lastEnd = 0 /\ scanning = FALSE
  /\ shown = <<>>

\* An empty text, of this source or another, is not scanned.
Clear ==
  /\ ~scanning
  /\ language' \in Languages
  /\ text' = <<>> /\ tokens' = <<>> /\ lastEnd' = 0 /\ shown' = <<>>
  /\ UNCHANGED scanning

\* One more character is revealed, and all are scanned again.
Reveal(c) ==
  /\ ~scanning
  /\ Len(text) < MaxLength
  /\ text' = Append(text, c)
  /\ shown' = tokens
  /\ tokens' = <<>>
  /\ lastEnd' = 0
  /\ scanning' = TRUE
  /\ UNCHANGED language

\* Faulty: what lies between two matches is dropped.
PushMatch_DropsGap ==
  /\ scanning
  /\ \E i \in Least(Found) : \E e \in Match(i) :
       /\ tokens' = Append(tokens, [type |-> classify(i, e), from |-> i, to |-> e])
       /\ lastEnd' = e
  /\ UNCHANGED <<language, text, scanning, shown>>

PushMatch ==
  /\ scanning
  /\ \E i \in Least(Found) : \E e \in Match(i) :
       /\ tokens' = Append(tokens \o Plain(lastEnd + 1, i - 1),
                           [type |-> classify(i, e), from |-> i, to |-> e])
       /\ lastEnd' = e
  /\ UNCHANGED <<language, text, scanning, shown>>

PushRest ==
  /\ scanning
  /\ Found = {}
  /\ tokens' = tokens \o Plain(lastEnd + 1, Len(text))
  /\ scanning' = FALSE
  /\ UNCHANGED <<language, text, lastEnd, shown>>

HighlightNext ==
  \/ \E c \in Alphabet : Reveal(c)
  \/ PushMatch \/ PushRest
  \/ Clear

HighlightSpec == HighlightInit /\ [][HighlightNext]_highlightVars

-----------------------------------------------------------------------------
(* Properties *)

Types  == {"keyword", "string", "comment", "number", "plain"}
Tokens == {t \in [type : Types, from : Nat, to : Nat] : t.from <= t.to}

HighlightTypeOK ==
  /\ language \in Languages
  /\ text \in Seq(Alphabet)
  /\ tokens \in Seq(Tokens)
  /\ lastEnd \in 0..Len(text)
  /\ scanning \in BOOLEAN
  /\ shown \in Seq(Tokens)

Consecutive(ts) ==
  \A k \in DOMAIN ts : ts[k].from = IF k = 1 THEN 1 ELSE ts[k - 1].to + 1

EndOf(ts) == IF ts = <<>> THEN 0 ELSE ts[Len(ts)].to

\* Nothing that was typed is lost, shown twice or out of order: at every moment
\* of the scan the tokens are the text up to lastEnd, cut into pieces, and in
\* the end they are the whole text.
NothingIsLost ==
  /\ Consecutive(tokens)
  /\ EndOf(tokens) = IF scanning THEN lastEnd ELSE Len(text)

TypeAt(ts, i) ==
  LET k == CHOOSE k \in DOMAIN ts : i \in ts[k].from..ts[k].to IN ts[k].type

\* The characters in front of the last token keep their colour when one more
\* is revealed.  Only the second half of an escape recolours what is before it,
\* because at a backslash in its end the scanner takes a string for none; but
\* then, too, nothing in front of that string, which is the last token now.
ColoursStay ==
  ~scanning /\ Len(text) > 1 =>
    \A i \in 1..(shown[Len(shown)].from - 1) :
      \/ text[Len(text) - 1] = "backslash" /\ i >= tokens[Len(tokens)].from
      \/ TypeAt(tokens, i) = TypeAt(shown, i)

\* A reference for comments and strings: an automaton that reads the text once,
\* character by character.  Region[i] is what the character i belongs to and
\* where that began.
Opening(i) ==
  IF language.blockComment # None /\ At(i, language.blockComment[1]) THEN "block"
  ELSE IF At(i, language.lineComment) THEN "line"
  ELSE IF text[i] \in language.stringChars THEN "string"
  ELSE "code"

Escaped(i, since) ==
  \E n \in 0..(i - since - 1) :
    /\ n % 2 = 1
    /\ \A p \in (i - n)..(i - 1) : text[p] = "backslash"
    /\ i - n - 1 = since \/ text[i - n - 1] # "backslash"

EndsAfter(i, region) ==
  \/ region.kind = "code"
  \/ region.kind = "line" /\ i < Len(text) /\ text[i + 1] = "newline"
  \/ /\ region.kind = "block"
     /\ LET closing == language.blockComment[2] IN
          /\ i - Len(closing) - Len(language.blockComment[1]) + 1 >= region.since
          /\ At(i - Len(closing) + 1, closing)
  \/ /\ region.kind = "string" /\ i > region.since
     /\ text[i] = text[region.since] /\ ~Escaped(i, region.since)

Region ==
  LET region[i \in Nat] ==
        IF i > 1 /\ ~EndsAfter(i - 1, region[i - 1]) THEN region[i - 1]
        ELSE [kind |-> Opening(i), since |-> i]
  IN [i \in DOMAIN text |-> region[i].kind]

\* Every escape has its second half, and that is no newline.
EscapesAreWhole ==
  \A i \in DOMAIN text :
    text[i] = "backslash" => i < Len(text) /\ text[i + 1] # "newline"

\* What is coloured as a comment or a string is one, and nothing else is: no
\* quote inside a comment, no comment sign inside a string and no half of an
\* opening sign leads the scanner astray, wherever the typing has stopped.
RegionsAreTrue ==
  ~scanning /\ EscapesAreWhole =>
    \A i \in DOMAIN text :
      /\ (TypeAt(tokens, i) = "comment") = (Region[i] \in {"line", "block"})
      /\ (TypeAt(tokens, i) = "string") = (Region[i] = "string")
=============================================================================
