------------------------ MODULE MCCommandCoordinator ------------------------
(***************************************************************************)
(* Two nodes, of which one can run both commands and the other only one.    *)
(* A third object replaces a node under its id while the two that were      *)
(* there before still run dispatches.  A call that has ended is used again, *)
(* so that two suffice for a dispatch that comes after two that overlapped. *)
(***************************************************************************)
EXTENDS CommandCoordinator

CONSTANTS align, route, o1, o2, o3, k1, k2

MCNodeIds  == {1, 2}
MCObjects  == {o1, o2, o3}
MCCommands == {align, route}
MCCapable  == [c \in MCCommands |-> IF c = align THEN {1, 2} ELSE {1}]
MCCalls    == {k1, k2}
=============================================================================
