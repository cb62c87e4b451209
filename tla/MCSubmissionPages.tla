------------------------- MODULE MCSubmissionPages -------------------------
(* Small tables for paging: pages of one and of two rows.                  *)
EXTENDS SubmissionPages

=============================================================================
