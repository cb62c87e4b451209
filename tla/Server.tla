------------------------------- MODULE Server -------------------------------
(***************************************************************************)
(* The server process around the promotion worker: the create, approve and *)
(* reject handlers on the submission store, the worker started by runServe *)
(* and the shutdown sequence of awaitShutdown (api/cmd/server/serve.go),   *)
(* up to the store's Close and the end of the process.  The retry-pr       *)
(* command, a process of its own on the same database, repairs rows.       *)
(*                                                                         *)
(* A store call that fails and changes nothing is no step of the model.    *)
(***************************************************************************)
EXTENDS PromotionWorker

CONSTANT Main       \* the goroutine of runServe, the only caller of Stop

VARIABLES
    status, row,    \* the submissions table, as in SubmissionLifecycle
    req, rsub,      \* approve handlers: where each is, and its submission
    http,           \* the HTTP server
    sd,             \* awaitShutdown and what runServe does after it
    cause,          \* why the process is ending
    told            \* submissions whose failure was logged or answered 500

tableVars == <<status, row>>
reqVars   == <<req, rsub>>
mainVars  == <<http, sd, cause>>
svars     == <<wvars, tableVars, reqVars, mainVars, told>>

Alive  == sd # "exited"
DbOpen == sd \notin {"dbclosed", "exited"}

\* srv.Shutdown lets requests on accepted connections through until it has
\* seen every connection idle.
Accepting == Alive /\ http # "drained"

\* How runServe sets the worker up: it alone calls Stop, and the context it
\* gives to Run is never canceled.
ServerConfig == Stoppers = {Main} /\ ~Cancelable

ServerInit ==
    /\ ServerConfig
    /\ WorkerInit
    /\ status = [s \in Subs |-> "absent"]
    /\ row = [s \in Subs |-> "none"]
    /\ req = [h \in Handlers |-> "idle"]
    /\ rsub = [h \in Handlers |-> NoSub]
    /\ http = "serving" /\ sd = "running" /\ cause = "none"
    /\ told = {}

-----------------------------------------------------------------------------
(* Handlers.                                                               *)

CreateStore(s) ==
    /\ Accepting /\ DbOpen
    /\ status[s] = "absent"
    /\ status' = [status EXCEPT ![s] = "pending"]
    /\ UNCHANGED <<wvars, row, reqVars, mainVars, told>>

\* Mutant: UPDATE ... WHERE public_id = ? without the status test.
RejectStoreAny(s) ==
    /\ Accepting /\ DbOpen
    /\ status[s] # "absent"
    /\ status' = [status EXCEPT ![s] = "rejected"]
    /\ UNCHANGED <<wvars, row, reqVars, mainVars, told>>

\* UPDATE ... WHERE status = 'pending'; any other row is answered 404 or 409.
RejectStore(s) ==
    /\ Accepting /\ DbOpen
    /\ status[s] = "pending"
    /\ status' = [status EXCEPT ![s] = "rejected"]
    /\ UNCHANGED <<wvars, row, reqVars, mainVars, told>>

\* Mutant: the approval is not conditional on the row being pending.
ApproveStoreAny(h, s) ==
    /\ Accepting /\ DbOpen
    /\ req[h] = "idle"
    /\ status[s] \in {"pending", "approved"}
    /\ status' = [status EXCEPT ![s] = "approved"]
    /\ req' = [req EXCEPT ![h] = "approved"]
    /\ rsub' = [rsub EXCEPT ![h] = s]
    /\ UNCHANGED <<wvars, row, mainVars, told>>

\* The UPDATE commits; the handler may still get an error (its context
\* ends before the row is scanned), answer 500 and enqueue nothing.
ApproveStore(h, s) ==
    /\ Accepting /\ DbOpen
    /\ req[h] = "idle"
    /\ status[s] = "pending"
    /\ status' = [status EXCEPT ![s] = "approved"]
    /\ \/ /\ req' = [req EXCEPT ![h] = "approved"]
          /\ rsub' = [rsub EXCEPT ![h] = s]
          /\ UNCHANGED told
       \/ /\ told' = told \cup {s}
          /\ UNCHANGED reqVars
    /\ UNCHANGED <<wvars, row, mainVars>>

\* enqueuePromotion calls Enqueue.
HandOver(h) ==
    /\ Alive
    /\ req[h] = "approved"
    /\ EnqueueCall(h, rsub[h])
    /\ req' = [req EXCEPT ![h] = "enqueue"]
    /\ UNCHANGED <<tableVars, rsub, mainVars, told>>

Answer(h) ==
    /\ req' = [req EXCEPT ![h] = "idle"]
    /\ rsub' = [rsub EXCEPT ![h] = NoSub]
    /\ UNCHANGED <<wvars, status, mainVars>>

Respond(h) ==
    /\ Alive
    /\ req[h] = "enqueue" /\ hpc[h] = "idle"
    /\ verdict[rsub[h]] = "queued"
    /\ Answer(h)
    /\ UNCHANGED <<row, told>>

\* Mutant: an enqueue error is returned to the caller and not recorded.
AttachErrorMissing(h) ==
    /\ Alive
    /\ req[h] = "enqueue" /\ hpc[h] = "idle"
    /\ verdict[rsub[h]] # "queued"
    /\ Answer(h)
    /\ UNCHANGED <<row, told>>

\* An enqueue error goes to promotion_error; if that fails too it is logged.
AttachError(h) ==
    /\ Alive
    /\ req[h] = "enqueue" /\ hpc[h] = "idle"
    /\ verdict[rsub[h]] # "queued"
    /\ Answer(h)
    /\ \/ /\ DbOpen
          /\ row' = [row EXCEPT ![rsub[h]] = "error"]
          /\ UNCHANGED told
       \/ /\ told' = told \cup {rsub[h]}
          /\ UNCHANGED row

-----------------------------------------------------------------------------
(* The worker's goroutine, with AttachPromotionResult as PersistResult.    *)

PersistingProcess(result) ==
    /\ Process(result)
    /\ IF result = "unrecorded"
       THEN UNCHANGED row
       ELSE DbOpen /\ row' = [row EXCEPT ![cur] = result]
    /\ UNCHANGED <<status, reqVars, mainVars, told>>

ServerRunStep ==
    /\ Alive
    /\ \/ /\ RunReceive \/ RunExit \/ TrackInflight \/ ClearInflight
          /\ UNCHANGED <<tableVars, reqVars, mainVars, told>>
       \/ \E result \in Outcome \ {"none"} : PersistingProcess(result)

ServerEnqueueStep(h) ==
    /\ Alive
    /\ EnqueueStep(h)
    /\ UNCHANGED <<tableVars, reqVars, mainVars, told>>

-----------------------------------------------------------------------------
(* awaitShutdown.                                                          *)

Signal ==
    /\ sd = "running"
    /\ sd' = "http" /\ http' = "draining" /\ cause' = "signal"
    /\ UNCHANGED <<wvars, tableVars, reqVars, told>>

\* srv.Shutdown returns when every handler is done, or at httpTimeout.
HTTPShutdown ==
    /\ sd = "http"
    /\ sd' = "stop"
    /\ \/ (\A h \in Handlers : req[h] = "idle") /\ http' = "drained"
       \/ http' = "timedout"
    /\ UNCHANGED <<wvars, cause, tableVars, reqVars, told>>

CallStop ==
    /\ sd = "stop"
    /\ StopCall(Main)
    /\ sd' = "stopping"
    /\ UNCHANGED <<tableVars, reqVars, http, cause, told>>

ServerStopStep ==
    /\ Alive
    /\ StopStep(Main)
    /\ UNCHANGED <<tableVars, reqVars, mainVars, told>>

\* Mutant: main goes on only after a clean drain.
StopReturnedClean ==
    /\ sd = "stopping"
    /\ spc[Main] = "clean"
    /\ sd' = "returned"
    /\ UNCHANGED <<wvars, tableVars, reqVars, http, cause, told>>

\* The dropped IDs are logged, the recorders are waited for, and
\* awaitShutdown returns.
StopReturned ==
    /\ sd = "stopping"
    /\ spc[Main] \in {"clean", "timeout"}
    /\ sd' = "returned"
    /\ UNCHANGED <<wvars, tableVars, reqVars, http, cause, told>>

\* The listener fails: awaitShutdown returns at once.
ListenerError ==
    /\ sd = "running"
    /\ sd' = "returned" /\ cause' = "listener"
    /\ UNCHANGED <<wvars, tableVars, reqVars, http, told>>

\* The deferred closeSubs.
CloseStore ==
    /\ sd = "returned"
    /\ sd' = "dbclosed"
    /\ UNCHANGED <<wvars, tableVars, reqVars, http, cause, told>>

\* main returns.
Exit ==
    /\ sd = "dbclosed"
    /\ sd' = "exited"
    /\ UNCHANGED <<wvars, tableVars, reqVars, http, cause, told>>

\* The process is killed: its memory is gone, the table and the log are not.
Kill ==
    /\ Alive
    /\ sd' = "exited" /\ cause' = "killed"
    /\ stopped' = FALSE /\ readers' = {} /\ writers' = {}
    /\ jobs' = <<>> /\ closed' = FALSE /\ inflight' = NoSub
    /\ hpc' = [h \in Handlers |-> "idle"] /\ hjob' = [h \in Handlers |-> NoSub]
    /\ rpc' = "select" /\ cur' = NoSub /\ draining' = FALSE
    /\ spc' = [st \in Stoppers |-> "idle"] /\ dropped' = [st \in Stoppers |-> {}]
    /\ verdict' = [s \in Subs |-> "none"] /\ outcome' = [s \in Subs |-> "none"]
    /\ req' = [h \in Handlers |-> "idle"] /\ rsub' = [h \in Handlers |-> NoSub]
    /\ http' = "serving"
    /\ UNCHANGED <<token, ctxVars, panicked, tableVars, told>>

-----------------------------------------------------------------------------
\* The retry-pr command: only for an approved row; it overwrites the result.
RetryPR(s, result) ==
    /\ status[s] = "approved"
    /\ row[s] # result           \* else nothing changes
    /\ row' = [row EXCEPT ![s] = result]
    /\ UNCHANGED <<wvars, status, reqVars, mainVars, told>>

HandlerStep(h) == HandOver(h) \/ ServerEnqueueStep(h) \/ Respond(h) \/ AttachError(h)

MainStep == HTTPShutdown \/ CallStop \/ ServerStopStep \/ StopReturned \/ CloseStore
            \/ Exit

ServerNext ==
    \/ \E s \in Subs : CreateStore(s) \/ RejectStore(s)
    \/ \E h \in Handlers, s \in Subs : ApproveStore(h, s)
    \/ \E h \in Handlers : HandlerStep(h)
    \/ ServerRunStep
    \/ Signal \/ ListenerError \/ MainStep \/ Kill
    \/ \E s \in Subs, result \in {"pr", "error"} : RetryPR(s, result)

ServerSpec == ServerInit /\ [][ServerNext]_svars

\* Runnable goroutines run and both shutdown phases have deadlines; nobody
\* has to send a request, a signal or a retry.
ServerFairness ==
    /\ \A h \in Handlers : WF_svars(HandlerStep(h))
    /\ WF_svars(ServerRunStep)
    /\ WF_svars(MainStep)

FairServerSpec == ServerSpec /\ ServerFairness

-----------------------------------------------------------------------------
\* How an approved submission without a result can be explained when the
\* process has ended after a signal.
Explained(s) ==
    \/ s \in told                                   \* answered 500, or logged
    \/ outcome[s] = "unrecorded"                    \* logged by process
    \/ s \in dropped[Main]                          \* logged by awaitShutdown
    \/ s = cur /\ spc[Main] = "timeout"             \* cut off in Run's hands
    \/ \E h \in Handlers : rsub[h] = s /\ http = "timedout"   \* cut off in its handler

\* An orderly shutdown loses no approval in silence: whatever the
\* interleaving of handlers, worker and main, an approved row ends with a
\* PR URL or an error, or its loss was reported or is due to a deadline.
NothingSilentlyLost ==
    sd = "exited" /\ cause = "signal"
        => \A s \in Subs : status[s] = "approved" /\ row[s] = "none" => Explained(s)

\* One approval, one job: two moderators approving at once, or a retried
\* request, never put a submission in the worker twice.
ApprovalEnqueuedOnce ==
    /\ ConsumedOnce
    /\ \A h \in Handlers : req[h] = "approved" => verdict[rsub[h]] = "none"
    /\ \A g, h \in Handlers : rsub[g] = rsub[h] /\ rsub[g] # NoSub => g = h

\* "awaitShutdown waits for ctx cancellation or a listener error, then tears
\* down in order [...] Every step runs even if an earlier one fails": when
\* runServe returns on its own, the worker was drained or its jobs reported,
\* but for the one job a deadline can leave in Run's hands.
TeardownOnEveryReturn ==
    sd = "exited" /\ cause # "killed" => Unaccounted \subseteq {cur}

\* A signal ends the process, whatever handlers, worker and lock are doing.
ShutdownTerminates == sd = "http" ~> sd = "exited"

\* An approval comes to an end: a PR URL or an error on its row, or a
\* failure answered or logged, unless the process ends first.  A row stays
\* approved, so there is always a later state where every approval so far
\* has come to its end.
ApprovalIsSettled ==
    []<>(\A s \in Subs :
            status[s] = "approved" => \/ row[s] # "none" \/ s \in told
                                      \/ outcome[s] = "unrecorded" \/ sd = "exited")

Lifecycle == INSTANCE SubmissionLifecycle

\* The handlers, the worker and retry-pr together keep the lifecycle: one
\* transition out of pending, and a promotion result on approved rows only.
ImplementsLifecycle == Lifecycle!LSpec

=============================================================================
