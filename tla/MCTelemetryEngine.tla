------------------------- MODULE MCTelemetryEngine -------------------------
(***************************************************************************)
(* Two workers that race for a ring of two, filled by two publishers.       *)
(***************************************************************************)
EXTENDS TelemetryEngine

CONSTANTS p1, p2, w1, w2

TwoPublishers == {p1, p2}
TwoWorkers    == {w1, w2}
=============================================================================
