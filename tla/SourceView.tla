----------------------------- MODULE SourceView -----------------------------
(***************************************************************************)
(* What the panel and the overlay may rely on of the service: a choice and  *)
(* a view of it.  The view of a new choice starts empty, and is filled by   *)
(* the text or by an error of that choice, never of an earlier one.  The    *)
(* service may read a choice again, which replaces a view by another one    *)
(* but never empties it.                                                    *)
(***************************************************************************)
CONSTANTS
  Choices,
  First      \* the choice, one of Choices, before anybody chose

VARIABLES
  chosen,     \* what was chosen last
  text,       \* the choices whose text is in view: none or the chosen one
  error       \* the choices whose error is in view: none or the chosen one

vars == <<chosen, text, error>>

Init == chosen = First /\ text = {} /\ error = {}

Choose(c) ==
  /\ c # chosen
  /\ chosen' = c
  /\ text' = {}
  /\ error' = {}

Fill(c) ==
  /\ c = chosen
  /\ \/ text' = {c} /\ error' = {}
     \/ text' = {} /\ error' = {c}
  /\ UNCHANGED chosen

Next == \E c \in Choices : Choose(c) \/ Fill(c)

\* An empty view that is left alone is filled.
FillEmpty(c) == text = {} /\ error = {} /\ Fill(c)

Spec == Init /\ [][Next]_vars /\ \A c \in Choices : WF_vars(FillEmpty(c))
=============================================================================
