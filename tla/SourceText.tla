------------------------------ MODULE SourceText ------------------------------
(***************************************************************************)
(* prepareSource and preview of HackerTyperModel.js: what the service makes *)
(* of the text of a file, and what the panel shows of that.                 *)
(*                                                                          *)
(* A text is a sequence of characters.  "opener" stands for //, # and --,   *)
(* "spdx" for SPDX-License-Identifier: and "colons" for two colons.  Files  *)
(* are read from their beginning, so that each state is one file; what a    *)
(* reader would keep who reads along is in the history variables.           *)
(***************************************************************************)
EXTENDS Naturals, FiniteSets, SequencesExt

CONSTANTS
  MaxLength,     \* bound on the length of a file
  LineCounts,    \* of preview; 5 in Service.qml
  Limits         \* characterLimit of preview; 360 in Service.qml

Blank == {"space", "bom", "cr", "lf"}
Characters == Blank \cup {"opener", "spdx", "colons", "code"}

ASSUME TextAssumption ==
  /\ MaxLength \in Nat
  /\ LineCounts \subseteq Nat /\ Limits \subseteq Nat

VARIABLES
  raw,          \* FileView.text()
  kept,         \* history: the lines a reader would have kept, and
  line          \* history: the line under way

textVars == <<raw, kept, line>>

-----------------------------------------------------------------------------
(* prepareSource *)

\* The members of a set of positions, in their order.
Nth(positions, k) ==
  CHOOSE i \in positions : Cardinality({j \in positions : j < i}) = k - 1

Picked(text, positions) ==
  [k \in 1..Cardinality(positions) |-> text[Nth(positions, k)]]

WithoutMark(text) ==
  IF text # <<>> /\ text[1] = "bom" THEN Tail(text) ELSE text

\* Faulty: /\r/g, which makes two lines of one.
LineFeeds_CrOnly(text) ==
  [i \in DOMAIN text |-> IF text[i] = "cr" THEN "lf" ELSE text[i]]

\* /\r\n?/g becomes \n.
LineFeeds(text) ==
  LET left == {i \in DOMAIN text :
                 ~(i > 1 /\ text[i] = "lf" /\ text[i - 1] = "cr")}
      ends(c) == IF c = "cr" THEN "lf" ELSE c
  IN [k \in 1..Cardinality(left) |-> ends(Picked(text, left)[k])]

\* split("\n"), and join("\n").
Lines(text) ==
  LET cuts == {0, Len(text) + 1} \cup {i \in DOMAIN text : text[i] = "lf"}
  IN [k \in 1..(Cardinality(cuts) - 1) |->
        SubSeq(text, Nth(cuts, k) + 1, Nth(cuts, k + 1) - 1)]

Joined(lines) ==
  IF lines = <<>> THEN <<>>
  ELSE Tail(FlattenSeq([k \in DOMAIN lines |-> <<"lf">> \o lines[k]]))

Inked(text) == {i \in DOMAIN text : text[i] \notin Blank}

TrimEnd(text) ==
  IF Inked(text) = {} THEN <<>>
  ELSE SubSeq(text, 1, CHOOSE i \in Inked(text) : \A j \in Inked(text) : j <= i)

Trim(text) ==
  IF Inked(text) = {} THEN <<>>
  ELSE TrimEnd(SubSeq(text, CHOOSE i \in Inked(text) : \A j \in Inked(text) : i <= j,
                      Len(text)))

\* The two regular expressions on the trimmed line: any blanks before the
\* license, one space before the colons.
Hidden(l) ==
  LET trimmed == Trim(l) IN
  \/ \E n \in DOMAIN trimmed :
       /\ n > 1 /\ trimmed[1] = "opener" /\ trimmed[n] = "spdx"
       /\ \A i \in 2..(n - 1) : trimmed[i] \in Blank
  \/ IsPrefix(<<"opener", "space", "colons">>, trimmed)

\* Hidden lines go, then the blank lines that are first by then.
Prepared(lines) ==
  LET shown == {k \in DOMAIN lines : ~Hidden(lines[k])} IN
  Picked(lines, {k \in shown : \E j \in shown : j <= k /\ Trim(lines[j]) # <<>>})

prepareSource(text) == Joined(Prepared(Lines(LineFeeds(WithoutMark(text)))))

-----------------------------------------------------------------------------
(* preview *)

AtLeast(n, m) == IF m < n THEN n ELSE m

\* What preview cuts its text from.
Excerpt(text, lineCount) ==
  LET lines == Lines(text)
      count == AtLeast(1, lineCount)
  IN Trim(Joined(SubSeq(lines, 1, IF Len(lines) < count THEN Len(lines) ELSE count)))

\* Faulty: no room is left for the ellipsis.
preview_Full(text, lineCount, characterLimit) ==
  LET out == Excerpt(text, lineCount)
      limit == AtLeast(1, characterLimit)
  IN IF Len(out) <= limit THEN out
     ELSE TrimEnd(SubSeq(out, 1, limit)) \o <<"ellipsis">>

\* At least one character stays before the ellipsis.
preview(text, lineCount, characterLimit) ==
  LET out == Excerpt(text, lineCount)
      limit == AtLeast(1, characterLimit)
  IN IF Len(out) <= limit THEN out
     ELSE TrimEnd(SubSeq(out, 1, AtLeast(1, limit - 1))) \o <<"ellipsis">>

-----------------------------------------------------------------------------
(* The files, and a reader *)

\* A header, said of the line as it is.
Header(l) ==
  \E i, j \in DOMAIN l :
    /\ i < j /\ l[i] = "opener" /\ \A h \in 1..(i - 1) : l[h] \in Blank
    /\ \/ l[j] = "spdx" /\ \A h \in (i + 1)..(j - 1) : l[h] \in Blank
       \/ l[j] = "colons" /\ j = i + 2 /\ l[i + 1] = "space"

\* Is there reason to keep the line behind those kept before?
Keeps(lines, l) == ~Header(l) /\ (lines # <<>> \/ Inked(l) # {})

LinesRead == IF Keeps(kept, line) THEN Append(kept, line) ELSE kept

TextInit == raw = <<>> /\ kept = <<>> /\ line = <<>>

\* The file is one character longer.
Grow(c) ==
  /\ Len(raw) < MaxLength
  /\ raw' = Append(raw, c)

\* The end of a line, unless it is the second character of one.
EndsLine(c) ==
  /\ c \in {"cr", "lf"}
  /\ ~(c = "lf" /\ raw # <<>> /\ Last(raw) = "cr")

GrowLine(c) ==
  /\ Grow(c)
  /\ c \notin {"cr", "lf"} /\ ~(c = "bom" /\ raw = <<>>)
  /\ line' = Append(line, c)
  /\ UNCHANGED kept

GrowEnd(c) ==
  /\ Grow(c)
  /\ EndsLine(c)
  /\ kept' = LinesRead
  /\ line' = <<>>

\* A mark at the beginning, or the second character of the end of a line.
GrowUnseen(c) ==
  /\ Grow(c)
  /\ \/ c = "bom" /\ raw = <<>>
     \/ c = "lf" /\ ~EndsLine(c)
  /\ UNCHANGED <<kept, line>>

\* Another file is read.
ReadOther ==
  /\ Len(raw) = MaxLength
  /\ raw' = <<>> /\ kept' = <<>> /\ line' = <<>>

TextNext ==
  \/ \E c \in Characters : GrowLine(c) \/ GrowEnd(c) \/ GrowUnseen(c)
  \/ ReadOther

TextSpec == TextInit /\ [][TextNext]_textVars

-----------------------------------------------------------------------------
(* Properties *)

\* The prepared text has the lines that a reader keeps who goes through the
\* file character by character: all but headers and leading blanks, in order,
\* whatever ends them and wherever the file stops.
PreparedIsVisible == prepareSource(raw) = Joined(LinesRead)

\* A preview that fits its limit is all of the first lines, and one that does
\* not is cut to fit, never to the ellipsis alone, with no blank before it.  A
\* limit of 1 is exceeded: a character and the ellipsis are two.
PreviewIsHonest ==
  \A count \in LineCounts, limit \in Limits :
    LET text  == prepareSource(raw)
        shown == preview(text, count, limit)
        all   == Excerpt(text, count)
    IN \/ shown = all /\ Len(all) <= AtLeast(1, limit)
       \/ /\ Len(all) > AtLeast(1, limit)
          /\ Len(shown) \in 2..AtLeast(2, limit)
          /\ Last(shown) = "ellipsis"
          /\ IsPrefix(Front(shown), all)
          /\ Last(Front(shown)) \notin Blank
=============================================================================
