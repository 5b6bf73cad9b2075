--------------------------- MODULE MCHackerTyper ---------------------------
(***************************************************************************)
(* Two screens and one source, or one screen and two sources: panels launch  *)
(* and choose against each other and against the command line.              *)
(***************************************************************************)
EXTENDS HackerTyper, TLC

CONSTANTS kernel, ruby, home, left, right

OneSource  == <<kernel>>
TwoSources == <<kernel, ruby>>
Initial    == kernel
NoIds      == {}
OneDir     == {home}
Home       == home
OneScreen  == {left}
TwoScreens == {left, right}
Lengths    == [path \in Paths |-> 4]
NoKeys     == {}

\* The two panels keep their service; the one alone may lose it.
NoLosers   == {}

\* Bound of both runs: the overlay has its service before the first
\* launch.  MCOverlay has the sessions that begin without it.
ServiceFirst == asked > 0 => service

\* The screens are alike, and the run with two of them checks no liveness.
ScreenSymmetry == Permutations(TwoScreens)
=============================================================================
