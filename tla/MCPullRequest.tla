---------------------------- MODULE MCPullRequest ----------------------------
(* Small instances of PullRequest for TLC.                                 *)
EXTENDS PullRequest, TLC

PRSymmetry == Permutations(Subs) \cup Permutations(Runners)

=============================================================================
