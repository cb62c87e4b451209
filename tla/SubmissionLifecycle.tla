------------------------- MODULE SubmissionLifecycle -------------------------
(***************************************************************************)
(* The life of a submission row, as the moderator and the SubmissionStore  *)
(* contract (api/pkg/atlas/submission.go) see it: created pending, approved*)
(* or rejected exactly once, and from then on only its promotion result    *)
(* may change, and only if it was approved.                                *)
(***************************************************************************)
CONSTANT Subs

VARIABLES
    status,   \* the status column; "absent" before the row exists
    row       \* promotion_pr_url / promotion_error: which of them is set

lvars == <<status, row>>

LInit ==
    /\ status = [s \in Subs |-> "absent"]
    /\ row = [s \in Subs |-> "none"]

Become(s, from, to) ==
    /\ status[s] = from
    /\ status' = [status EXCEPT ![s] = to]
    /\ UNCHANGED row

Record(s, result) ==
    /\ status[s] = "approved"
    /\ row' = [row EXCEPT ![s] = result]
    /\ UNCHANGED status

LNext == \E s \in Subs :
    \/ Become(s, "absent", "pending")
    \/ Become(s, "pending", "approved")
    \/ Become(s, "pending", "rejected")
    \/ \E result \in {"pr", "error"} : Record(s, result)

LSpec == LInit /\ [][LNext]_lvars

=============================================================================
