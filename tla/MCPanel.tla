------------------------------ MODULE MCPanel ------------------------------
(***************************************************************************)
(* Two panels and two sources: the panels choose against each other, the    *)
(* command line and late summons, and each may lose the service and get it  *)
(* back while the other chooses.                                            *)
(***************************************************************************)
EXTENDS Panel, TLC

CONSTANTS kernel, ruby, home, left, right

MCCatalog     == <<kernel, ruby>>
MCInitialId   == kernel
MCUnknownIds  == {}
MCDirs        == {home}
MCHomeDir     == home
MCScreenNames == {left, right}

\* The screens are alike.
ScreenSymmetry == Permutations(MCScreenNames)
=============================================================================
