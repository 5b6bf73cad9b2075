------------------------- MODULE MCTaskOrchestrator -------------------------
(***************************************************************************)
(* Two workers that take each other's tasks, of two kinds and priorities.   *)
(* A worker has room for one task.  The one report is of a task too few,    *)
(* which heartbeat clamps.                                                  *)
(***************************************************************************)
EXTENDS TaskOrchestrator, TLC

CONSTANTS render, index, blue, green

TwoKinds      == {render, index}
TwoWorkers    == {blue, green}
BothQueues    == {[queues |-> <<render, index>>, capacity |-> 1]}
TwoPriorities == {0, 8}
OneReport     == {-1}

\* Workers are alike, and no liveness is checked.
WorkerSymmetry == Permutations(TwoWorkers)
=============================================================================
