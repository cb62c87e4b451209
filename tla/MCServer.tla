------------------------------ MODULE MCServer ------------------------------
(* Small instances of Server for TLC.                                      *)
EXTENDS Server, TLC

\* Of the run of one invariant; the liveness properties need all states.
ServerSymmetry == Permutations(Subs) \cup Permutations(Handlers)

=============================================================================
