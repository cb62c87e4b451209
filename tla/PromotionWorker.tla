--------------------------- MODULE PromotionWorker ---------------------------
(***************************************************************************)
(* The asynchronous pull-request worker (api/internal/githubpr/worker.go): *)
(* HTTP handlers Enqueue approved submissions on a buffered channel, one   *)
(* goroutine (Run) consumes it, and Stop closes it on shutdown.  A step is *)
(* one shared-memory access or channel operation.                          *)
(*                                                                         *)
(* The GitHub conversation of one job is a single step here; PullRequest   *)
(* models it in detail.                                                    *)
(***************************************************************************)
EXTENDS Naturals, Sequences, Functions

CONSTANTS
    Subs,           \* submissions
    NoSub,          \* "no submission": a nil pointer, an idle goroutine
    Handlers,       \* goroutines that call Enqueue
    Stoppers,       \* goroutines that call Stop
    BufferSize,     \* Config.BufferSize
    Cancelable      \* whether the context given to Run can be canceled

ASSUME WorkerAssumption ==
    /\ NoSub \notin Subs
    /\ BufferSize \in Nat \ {0}
    /\ Cancelable \in BOOLEAN

VARIABLES
    token,      \* Config.Token is set
    stopped,    \* Worker.stopped
    readers,    \* Worker.mu: goroutines that hold the read lock
    writers,    \* Worker.mu: goroutines that hold the write lock
    jobs,       \* Worker.jobs: the buffered submissions, oldest first
    closed,     \* Worker.jobs is closed
    inflight,   \* Worker.inflight
    hpc, hjob,  \* Enqueue: where each handler is, and its argument
    rpc,        \* Run: where it is; "exited" is a closed Worker.done
    cur,        \* Run: the job received from the channel
    draining,   \* Run: in drainAndExit
    canceled,   \* Run's context is canceled
    spc,        \* Stop: where each stopper is
    dropped     \* Stop: droppedIDs

VARIABLES       \* observations, which no step reads
    verdict,    \* what Enqueue answered for each submission
    outcome,    \* what process did with each submission
    atCancel,   \* jobs in the buffer when the context was canceled
    panicked    \* a send on, or a second close of, the closed channel

lockVars  == <<stopped, readers, writers>>
chanVars  == <<jobs, closed>>
enqVars   == <<hpc, hjob, verdict>>
runVars   == <<rpc, cur, draining, inflight, outcome>>
stopVars  == <<spc, dropped>>
ctxVars   == <<canceled, atCancel>>
wvars     == <<token, lockVars, chanVars, enqVars, runVars, stopVars, ctxVars,
               panicked>>

Verdict == {"none", "queued", "disabled", "stopped", "full"}
Outcome == {"none", "pr", "error", "unrecorded"}

-----------------------------------------------------------------------------
WorkerInit ==
    /\ token \in BOOLEAN
    /\ stopped = FALSE
    /\ readers = {} /\ writers = {}
    /\ jobs = <<>> /\ closed = FALSE
    /\ inflight = NoSub
    /\ hpc = [h \in Handlers |-> "idle"]
    /\ hjob = [h \in Handlers |-> NoSub]
    /\ rpc = "select" /\ cur = NoSub /\ draining = FALSE
    /\ canceled = FALSE
    /\ spc = [st \in Stoppers |-> "idle"]
    /\ dropped = [st \in Stoppers |-> {}]
    /\ verdict = [s \in Subs |-> "none"]
    /\ outcome = [s \in Subs |-> "none"]
    /\ atCancel = {}
    /\ panicked = FALSE

-----------------------------------------------------------------------------
(* Enqueue: check the token, take the read lock, check stopped, try to     *)
(* send without blocking, and release the lock.                            *)

EnqueueCall(h, s) ==
    /\ hpc[h] = "idle"
    /\ \/ /\ ~token
          /\ verdict' = [verdict EXCEPT ![s] = "disabled"]
          /\ UNCHANGED <<hpc, hjob>>
       \/ /\ token
          /\ hpc' = [hpc EXCEPT ![h] = "rlock"]
          /\ hjob' = [hjob EXCEPT ![h] = s]
          /\ UNCHANGED verdict
    /\ UNCHANGED <<token, lockVars, chanVars, runVars, stopVars, ctxVars, panicked>>

\* Mutant: the send is not protected by the read lock.
EnqueueRLockMissing(h) ==
    /\ hpc[h] = "rlock"
    /\ hpc' = [hpc EXCEPT ![h] = "check"]
    /\ UNCHANGED <<token, lockVars, chanVars, hjob, verdict, runVars, stopVars,
                   ctxVars, panicked>>

EnqueueRLock(h) ==
    /\ hpc[h] = "rlock"
    /\ writers = {}
    /\ readers' = readers \cup {h}
    /\ hpc' = [hpc EXCEPT ![h] = "check"]
    /\ UNCHANGED <<token, stopped, writers, chanVars, hjob, verdict, runVars,
                   stopVars, ctxVars, panicked>>

EnqueueCheck(h) ==
    /\ hpc[h] = "check"
    /\ \/ /\ stopped
          /\ verdict' = [verdict EXCEPT ![hjob[h]] = "stopped"]
          /\ hpc' = [hpc EXCEPT ![h] = "runlock"]
       \/ /\ ~stopped
          /\ hpc' = [hpc EXCEPT ![h] = "send"]
          /\ UNCHANGED verdict
    /\ UNCHANGED <<token, lockVars, chanVars, hjob, runVars, stopVars, ctxVars, panicked>>

\* Mutant: the send that fills the buffer is answered ErrBufferFull.
EnqueueSendFullTooSoon(h) ==
    /\ hpc[h] = "send"
    /\ hpc' = [hpc EXCEPT ![h] = "runlock"]
    /\ Len(jobs) < BufferSize
    /\ jobs' = Append(jobs, hjob[h])
    /\ verdict' = [verdict EXCEPT ![hjob[h]] =
                      IF Len(jobs') = BufferSize THEN "full" ELSE "queued"]
    /\ UNCHANGED <<token, lockVars, closed, hjob, runVars, stopVars, ctxVars, panicked>>

\* A send on a closed channel panics; a full buffer takes the default case.
EnqueueSend(h) ==
    /\ hpc[h] = "send"
    /\ hpc' = [hpc EXCEPT ![h] = "runlock"]
    /\ panicked' = (panicked \/ closed)
    /\ \/ /\ Len(jobs) < BufferSize
          /\ jobs' = Append(jobs, hjob[h])
          /\ verdict' = [verdict EXCEPT ![hjob[h]] = "queued"]
       \/ /\ Len(jobs) >= BufferSize
          /\ verdict' = [verdict EXCEPT ![hjob[h]] = "full"]
          /\ UNCHANGED jobs
    /\ UNCHANGED <<token, lockVars, closed, hjob, runVars, stopVars, ctxVars>>

\* Mutant: the read lock is not released.
EnqueueRUnlockMissing(h) ==
    /\ hpc[h] = "runlock"
    /\ hpc' = [hpc EXCEPT ![h] = "idle"]
    /\ hjob' = [hjob EXCEPT ![h] = NoSub]
    /\ UNCHANGED <<token, lockVars, chanVars, verdict, runVars, stopVars, ctxVars, panicked>>

EnqueueRUnlock(h) ==
    /\ hpc[h] = "runlock"
    /\ readers' = readers \ {h}
    /\ hpc' = [hpc EXCEPT ![h] = "idle"]
    /\ hjob' = [hjob EXCEPT ![h] = NoSub]
    /\ UNCHANGED <<token, stopped, writers, chanVars, verdict, runVars, stopVars,
                   ctxVars, panicked>>

-----------------------------------------------------------------------------
(* Run and drainAndExit.  Both loops receive from the channel and call     *)
(* processTracked; they differ in what ends them.                          *)

RunReceive ==
    /\ rpc = "select"
    /\ jobs # <<>>
    /\ cur' = Head(jobs)
    /\ jobs' = Tail(jobs)
    /\ rpc' = "received"
    /\ UNCHANGED <<token, lockVars, closed, enqVars, draining, inflight, outcome,
                   stopVars, ctxVars, panicked>>

\* Mutant: a closed channel ends the loop, buffered jobs or not.
RunExitOnClose ==
    /\ rpc = "select"
    /\ closed \/ draining
    /\ rpc' = "exited"
    /\ UNCHANGED <<token, lockVars, chanVars, enqVars, cur, draining, inflight,
                   outcome, stopVars, ctxVars, panicked>>

\* Mutant: an empty channel ends the loop, closed or not.
RunExitWhenIdle ==
    /\ rpc = "select"
    /\ jobs = <<>>
    /\ rpc' = "exited"
    /\ UNCHANGED <<token, lockVars, chanVars, enqVars, cur, draining, inflight,
                   outcome, stopVars, ctxVars, panicked>>

\* Run's loop ends on a closed and empty channel, drainAndExit's on an empty one.
RunExit ==
    /\ rpc = "select"
    /\ jobs = <<>>
    /\ closed \/ draining
    /\ rpc' = "exited"
    /\ UNCHANGED <<token, lockVars, chanVars, enqVars, cur, draining, inflight,
                   outcome, stopVars, ctxVars, panicked>>

\* Mutant: cancellation returns from Run without draining.
RunCanceledNoDrain ==
    /\ rpc = "select"
    /\ canceled
    /\ rpc' = "exited"
    /\ UNCHANGED <<token, lockVars, chanVars, enqVars, draining, cur, inflight, outcome,
                   stopVars, ctxVars, panicked>>

\* With a job also ready, select may choose either case.
RunCanceled ==
    /\ rpc = "select"
    /\ ~draining
    /\ canceled
    /\ draining' = TRUE
    /\ UNCHANGED <<token, lockVars, chanVars, enqVars, rpc, cur, inflight, outcome,
                   stopVars, ctxVars, panicked>>

\* processTracked publishes the job only after Run has taken it off the channel.
TrackInflight ==
    /\ rpc = "received"
    /\ inflight' = cur
    /\ rpc' = "process"
    /\ UNCHANGED <<token, lockVars, chanVars, enqVars, cur, draining, outcome,
                   stopVars, ctxVars, panicked>>

\* Mutant: a job that failed goes back into the buffer.
ProcessRequeue(result) ==
    /\ rpc = "process"
    /\ outcome' = [outcome EXCEPT ![cur] = result]
    /\ jobs' = IF result = "error" /\ Len(jobs) < BufferSize THEN Append(jobs, cur) ELSE jobs
    /\ rpc' = "clear"
    /\ UNCHANGED <<token, lockVars, closed, enqVars, cur, draining, inflight,
                   stopVars, ctxVars, panicked>>

\* openPR succeeds or fails and PersistResult records that; a failed
\* PersistResult is only logged.
Process(result) ==
    /\ rpc = "process"
    /\ outcome' = [outcome EXCEPT ![cur] = result]
    /\ rpc' = "clear"
    /\ UNCHANGED <<token, lockVars, chanVars, enqVars, cur, draining, inflight,
                   stopVars, ctxVars, panicked>>

ClearInflight ==
    /\ rpc = "clear"
    /\ inflight' = NoSub
    /\ cur' = NoSub
    /\ rpc' = "select"
    /\ UNCHANGED <<token, lockVars, chanVars, enqVars, draining, outcome, stopVars,
                   ctxVars, panicked>>

\* The owner of Run's context cancels it.
Cancel ==
    /\ Cancelable
    /\ ~canceled
    /\ canceled' = TRUE
    /\ atCancel' = Range(jobs)
    /\ UNCHANGED <<token, lockVars, chanVars, enqVars, runVars, stopVars, panicked>>

-----------------------------------------------------------------------------
(* Stop: under the write lock, close the channel once; then wait for Run   *)
(* or for the deadline.  On the deadline, collect the in-flight job and    *)
(* whatever is still buffered.                                             *)

StopCall(st) ==
    /\ spc[st] = "idle"
    /\ spc' = [spc EXCEPT ![st] = "lock"]
    /\ UNCHANGED <<token, lockVars, chanVars, enqVars, runVars, dropped, ctxVars, panicked>>

StopLock(st) ==
    /\ spc[st] = "lock"
    /\ readers = {} /\ writers = {}
    /\ writers' = {st}
    /\ spc' = [spc EXCEPT ![st] = "close"]
    /\ UNCHANGED <<token, stopped, readers, chanVars, enqVars, runVars, dropped,
                   ctxVars, panicked>>

StopClose(st) ==
    /\ spc[st] = "close"
    /\ spc' = [spc EXCEPT ![st] = "unlock"]
    /\ \/ /\ ~stopped
          /\ stopped' = TRUE
          /\ closed' = TRUE
          /\ panicked' = (panicked \/ closed)
       \/ /\ stopped
          /\ UNCHANGED <<stopped, closed, panicked>>
    /\ UNCHANGED <<token, readers, writers, jobs, enqVars, runVars, dropped, ctxVars>>

StopUnlock(st) ==
    /\ spc[st] = "unlock"
    /\ writers' = writers \ {st}
    /\ spc' = [spc EXCEPT ![st] = "wait"]
    /\ UNCHANGED <<token, stopped, readers, chanVars, enqVars, runVars, dropped,
                   ctxVars, panicked>>

StopClean(st) ==
    /\ spc[st] = "wait"
    /\ rpc = "exited"
    /\ spc' = [spc EXCEPT ![st] = "clean"]
    /\ UNCHANGED <<token, lockVars, chanVars, enqVars, runVars, dropped, ctxVars, panicked>>

\* Stop's own deadline passes: load inflight.
StopDeadline(st) ==
    /\ spc[st] = "wait"
    /\ spc' = [spc EXCEPT ![st] = "collect"]
    /\ dropped' = [dropped EXCEPT ![st] = IF inflight = NoSub THEN @ ELSE @ \cup {inflight}]
    /\ UNCHANGED <<token, lockVars, chanVars, enqVars, runVars, ctxVars, panicked>>

\* One receive of the collecting loop, which competes with RunReceive.
StopCollect(st) ==
    /\ spc[st] = "collect"
    /\ jobs # <<>>
    /\ dropped' = [dropped EXCEPT ![st] = @ \cup {Head(jobs)}]
    /\ jobs' = Tail(jobs)
    /\ UNCHANGED <<token, lockVars, closed, enqVars, runVars, spc, ctxVars, panicked>>

\* Mutant: the deadline reports the in-flight job and leaves the buffer alone.
StopTimedOutNoCollect(st) ==
    /\ spc[st] = "collect"
    /\ spc' = [spc EXCEPT ![st] = "timeout"]
    /\ UNCHANGED <<token, lockVars, chanVars, enqVars, runVars, dropped, ctxVars, panicked>>

StopTimedOut(st) ==
    /\ spc[st] = "collect"
    /\ jobs = <<>>
    /\ spc' = [spc EXCEPT ![st] = "timeout"]
    /\ UNCHANGED <<token, lockVars, chanVars, enqVars, runVars, dropped, ctxVars, panicked>>

-----------------------------------------------------------------------------
EnqueueStep(h) ==
    EnqueueRLock(h) \/ EnqueueCheck(h) \/ EnqueueSend(h) \/ EnqueueRUnlock(h)

RunStep ==
    \/ RunReceive \/ RunExit \/ RunCanceled \/ TrackInflight \/ ClearInflight
    \/ \E result \in Outcome \ {"none"} : Process(result)

StopStep(st) ==
    \/ StopLock(st) \/ StopClose(st) \/ StopUnlock(st) \/ StopClean(st)
    \/ StopDeadline(st) \/ StopCollect(st) \/ StopTimedOut(st)

\* The store approves a submission at most once, so Enqueue is called at
\* most once for it.
Unused(s) == verdict[s] = "none" /\ \A h \in Handlers : hjob[h] # s

WorkerNext ==
    \/ \E h \in Handlers : EnqueueStep(h)
    \/ \E h \in Handlers, s \in Subs : Unused(s) /\ EnqueueCall(h, s)
    \/ RunStep
    \/ Cancel
    \/ \E st \in Stoppers : StopCall(st) \/ StopStep(st)

WorkerSpec == WorkerInit /\ [][WorkerNext]_wvars

\* The Go scheduler runs every runnable goroutine, openPR is bounded by
\* openPRTimeout, and Stop's context has a deadline.  Nothing makes anyone
\* call Enqueue or Stop, or cancel the context.
WorkerFairness ==
    /\ \A h \in Handlers : WF_wvars(EnqueueStep(h))
    /\ WF_wvars(RunStep)
    /\ \A st \in Stoppers : WF_wvars(StopStep(st))

FairWorkerSpec == WorkerSpec /\ WorkerFairness

-----------------------------------------------------------------------------
WorkerTypeOK ==
    /\ token \in BOOLEAN /\ stopped \in BOOLEAN /\ closed \in BOOLEAN
    /\ draining \in BOOLEAN /\ canceled \in BOOLEAN /\ panicked \in BOOLEAN
    /\ readers \in SUBSET Handlers /\ writers \in SUBSET Stoppers
    /\ jobs \in Seq(Subs) /\ Len(jobs) <= BufferSize
    /\ inflight \in Subs \cup {NoSub} /\ cur \in Subs \cup {NoSub}
    /\ hpc \in [Handlers -> {"idle", "rlock", "check", "send", "runlock"}]
    /\ hjob \in [Handlers -> Subs \cup {NoSub}]
    /\ rpc \in {"select", "received", "process", "clear", "exited"}
    /\ spc \in [Stoppers -> {"idle", "lock", "close", "unlock", "wait", "collect",
                             "clean", "timeout"}]
    /\ dropped \in [Stoppers -> SUBSET Subs]
    /\ verdict \in [Subs -> Verdict] /\ outcome \in [Subs -> Outcome]
    /\ atCancel \in SUBSET Subs

Reported == UNION {dropped[st] : st \in Stoppers}
Accepted == {s \in Subs : verdict[s] = "queued"}
Attempted == {s \in Subs : outcome[s] # "none"}

\* Accepted submissions that no row, and no list of dropped jobs, accounts for.
Unaccounted == Accepted \ (Attempted \cup Reported)

\* The read lock Enqueue holds across check and send, and the stopped flag
\* tested under the write lock, keep every send and close off a closed
\* channel ("Stop can't close jobs between the check and the send").
NoPanic == ~panicked

\* A submission is handed to at most one consumer: never twice in the
\* buffer, never buffered again once Run or Stop has taken it.
ConsumedOnce ==
    /\ \A i, j \in 1 .. Len(jobs) : jobs[i] = jobs[j] => i = j
    /\ \A i \in 1 .. Len(jobs) :
           jobs[i] # cur /\ jobs[i] \notin Attempted \cup Reported

\* Stop's nil return ("a clean drain") means that every accepted job was
\* attempted or reported.  The one exception is a job enqueued after a
\* canceled Run had gone, which "would sit in the buffer unread".
CleanStopIsComplete ==
    (\E st \in Stoppers : spc[st] = "clean")
        => Unaccounted \subseteq (IF canceled THEN Range(jobs) \ atCancel ELSE {})

\* The list of a Stop that timed out is best-effort, because Run keeps
\* consuming; what it can miss is at most the one job Run holds.
TimedOutStopMissesOnlyCur ==
    (\E st \in Stoppers : spc[st] = "timeout") => Unaccounted \subseteq {cur}

\* "Canceling ctx is a hard abort: [...] buffered jobs are attempted": Run
\* leaves none of them behind in the buffer when it returns.
CancelDrainsBuffer == rpc = "exited" => Range(jobs) \cap atCancel = {}

\* Enqueue returns "rather than blocking the caller", whoever holds or waits
\* for the lock.  Stop returns: Run drains the closed channel or the deadline
\* passes, and "receives on a closed channel stop at the buffered count".
CallsReturn ==
    /\ \A h \in Handlers : hpc[h] # "idle" ~> hpc[h] = "idle"
    /\ \A st \in Stoppers : spc[st] = "lock" ~> spc[st] \in {"clean", "timeout"}

\* An accepted job is eventually attempted or reported, unless Run's context
\* was canceled and Run was gone when the job arrived.
AcceptedIsSettled ==
    \A s \in Subs :
        s \in Accepted ~> \/ s \in Attempted \cup Reported
                          \/ rpc = "exited" /\ canceled

-----------------------------------------------------------------------------
(* Refinement: the worker implements PromotionQueue.                       *)

JobOf(s) ==
    IF s \in Attempted THEN "attempted"
    ELSE IF s \in Reported THEN "reported"
    ELSE IF verdict[s] = "none" THEN "new"
    ELSE IF verdict[s] = "queued" THEN "accepted" ELSE "refused"

Queue == INSTANCE PromotionQueue WITH
    job <- [s \in Subs |-> JobOf(s)],
    closing <- stopped

\* Every step of the worker is a step PromotionQueue allows: nothing is
\* accepted once Stop has begun, and no job is attempted twice.
ImplementsQueue == Queue!QSpec

=============================================================================
