---------------------------- MODULE TypingModel ----------------------------
(***************************************************************************)
(* The pure functions of HackerTyperModel.js that the stateful components   *)
(* call.  A catalogue entry is identified with its id: the other fields of  *)
(* an entry (name, language, file) are functions of the id.                 *)
(***************************************************************************)
EXTENDS Integers, Sequences

CONSTANT None    \* JavaScript's null or "", where the code tests for either

AtLeast(bound, n) == IF n < bound THEN bound ELSE n
AtMost(bound, n)  == IF n > bound THEN bound ELSE n

Clamp(value, minimum, maximum) == AtLeast(minimum, AtMost(maximum, value))

\* Faulty: no clamping.
Advance_Unclamped(index, amount, length) == index + amount

Advance(index, amount, length) ==
  Clamp(index + AtLeast(1, amount), 0, AtLeast(0, length))

\* Faulty: a step of one character.
Retreat_One(index, amount, length) == Clamp(index - 1, 0, length)

Retreat(index, amount, length) ==
  Clamp(index - AtLeast(1, amount), 0, AtLeast(0, length))

\* The entry with the id, the first entry when there is none, null when the
\* list is empty.
SourceById(list, id) ==
  IF \E i \in DOMAIN list : list[i] = id THEN id
  ELSE IF list # <<>> THEN list[1] ELSE None

\* sourceText.substr(0, progress): the number of characters on the screen.
Shown(progress, length) == AtMost(length, progress)
=============================================================================
