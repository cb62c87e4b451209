------------------------- MODULE MCCoverageRecorder -------------------------
(* A small instance of CoverageRecorder for TLC.                           *)
EXTENDS CoverageRecorder

=============================================================================
