--------------------------- MODULE MCDccBroadcast ---------------------------
(* Instances of DccBroadcast for TLC.  No symmetry: the run checks          *)
(* liveness.                                                               *)
EXTENDS DccBroadcast

AllFaults == FaultKind
=============================================================================
