--------------------------- MODULE MCUsageRecorder ---------------------------
(* Small instances of UsageRecorder for TLC.                               *)
EXTENDS UsageRecorder

=============================================================================
