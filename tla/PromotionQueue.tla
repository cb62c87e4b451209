--------------------------- MODULE PromotionQueue ---------------------------
(***************************************************************************)
(* What the promotion worker promises the approve handler and the          *)
(* operator, without channels, locks or goroutines: a submission offered   *)
(* before the queue closes is accepted or refused; an accepted one is      *)
(* attempted at most once, or reported to the operator as dropped; nothing *)
(* is accepted once the queue is closing.                                  *)
(***************************************************************************)
CONSTANT Subs

VARIABLES
    job,      \* new, refused, accepted, reported or attempted
    closing   \* Stop has begun

qvars == <<job, closing>>

QInit ==
    /\ job = [s \in Subs |-> "new"]
    /\ closing = FALSE

\* Move(s, from, to): submission s, in one of the states from, goes to state to.
Move(s, from, to) ==
    /\ job[s] \in from
    /\ job' = [job EXCEPT ![s] = to]
    /\ UNCHANGED closing

Accept(s) == ~closing /\ Move(s, {"new"}, "accepted")
Refuse(s) == Move(s, {"new"}, "refused")
Report(s) == Move(s, {"accepted"}, "reported")

\* A job can be reported while its attempt is still running, and the
\* attempt may finish after all.
Attempt(s) == Move(s, {"accepted", "reported"}, "attempted")

Close ==
    /\ closing' = TRUE
    /\ UNCHANGED job

QNext ==
    \/ \E s \in Subs : Accept(s) \/ Refuse(s) \/ Attempt(s) \/ Report(s)
    \/ Close

QSpec == QInit /\ [][QNext]_qvars

=============================================================================
