----------------------------- MODULE MCSourceText -----------------------------
(***************************************************************************)
(* Every file of up to five characters: a mark, a hidden line and what is   *)
(* behind it, both ends of a line of two characters, and a text that is     *)
(* longer than the greatest limit by two.                                   *)
(***************************************************************************)
EXTENDS SourceText

Counts == {0, 1, 2}
SmallLimits == {0, 1, 2, 3}
=============================================================================
