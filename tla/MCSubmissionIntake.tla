------------------------- MODULE MCSubmissionIntake -------------------------
(* A small instance of SubmissionIntake for TLC.                           *)
EXTENDS SubmissionIntake, TLC

IntakeSymmetry == Permutations(Requests) \cup Permutations(Clients)

=============================================================================
