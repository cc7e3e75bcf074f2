--------------------------- MODULE MCMetricsWorker ---------------------------
(* Small instances of MetricsWorker.                                       *)
EXTENDS MetricsWorker

CONSTANTS p1, p2
=============================================================================
