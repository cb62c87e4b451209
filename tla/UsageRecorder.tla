---------------------------- MODULE UsageRecorder ----------------------------
(***************************************************************************)
(* The usage recorder (api/internal/usage/recorder.go): handlers bump      *)
(* counters in memory, a goroutine flushes them to the usage_daily table   *)
(* on a ticker and once more when its context is canceled, and main's Wait *)
(* flushes what came after that and joins the goroutine before the store   *)
(* is closed (awaitShutdown in api/cmd/server/serve.go).                   *)
(*                                                                         *)
(* Increment and the first half of Flush hold Recorder.mu, one step each;  *)
(* Flush's two store calls run outside it.                                 *)
(***************************************************************************)
EXTENDS Integers, FiniteSets

CONSTANTS
    Keys,             \* kind and key of a bucket
    KeepDays,         \* Recorder.keepDays; 0 disables pruning
    MaxBufferedKeys,  \* maxBufferedKeys
    StoreFails,       \* whether the database fails calls of its own accord
    MaxDay,           \* bound on the clock
    MaxEvents         \* bound on the number of Increment calls

ASSUME UsageAssumption ==
    /\ KeepDays \in Nat /\ MaxDay \in Nat \ {0} /\ MaxEvents \in Nat
    /\ MaxBufferedKeys \in Nat
    /\ StoreFails \in BOOLEAN

Days     == 1 .. MaxDay
Buckets  == Days \X Keys
Flushers == {"run", "main"}   \* run's goroutine, and main inside Wait
Empty    == [b \in Buckets |-> 0]

VARIABLES
    day,        \* the clock, in UTC days
    buf,        \* Recorder.buf; 0: no entry
    stored,     \* the usage_daily table; 0: no row
    fpc,        \* Flush: where each flusher is
    batch,      \* Flush: the counts it took from buf
    cutoff,     \* Flush: the prune cutoff, taken with the batch
    rpc,        \* run: "loop", "final" or "exited" (wg.Done)
    canceled,   \* the context given to Start
    http,       \* the HTTP server, whose handlers call Increment
    mpc,        \* main: "serving", "http", "wait", "join", "done", "closed"
    flushErr,   \* Wait: its own Flush failed
    result      \* what Wait returned

VARIABLES       \* observations, which no step reads
    events,     \* Increment calls so far
    counted,    \* events bucketed by Increment
    lost,       \* counts in batches the store did not commit
    pruned      \* counts in rows deleted by PruneUsage

storeVars == <<stored, pruned>>
mainVars  == <<http, mpc, flushErr, result>>
flushVars == <<fpc, batch, cutoff>>
obsVars   == <<events, counted>>
uvars     == <<day, buf, storeVars, flushVars, rpc, canceled, mainVars, obsVars, lost>>

UsageInit ==
    /\ day = 1
    /\ buf = Empty /\ stored = Empty
    /\ fpc = [p \in Flushers |-> "idle"]
    /\ batch = [p \in Flushers |-> Empty]
    /\ cutoff = [p \in Flushers |-> 0]
    /\ rpc = "loop" /\ canceled = FALSE
    /\ http = "serving" /\ mpc = "serving" /\ flushErr = FALSE /\ result = "none"
    /\ events = 0 /\ counted = Empty /\ lost = Empty /\ pruned = Empty

Plus(f, g) == [b \in Buckets |-> f[b] + g[b]]

-----------------------------------------------------------------------------
Midnight ==
    /\ day < MaxDay
    /\ day' = day + 1
    /\ UNCHANGED <<buf, storeVars, flushVars, rpc, canceled, mainVars, obsVars, lost>>

Held == {b \in Buckets : buf[b] > 0}

\* A new key is dropped when the buffer is at its cap.
Increment(k) ==
    /\ http # "drained" /\ events < MaxEvents
    /\ events' = events + 1
    /\ IF buf[<<day, k>>] = 0 /\ Cardinality(Held) >= MaxBufferedKeys
       THEN UNCHANGED <<buf, counted>>
       ELSE /\ buf' = [buf EXCEPT ![<<day, k>>] = @ + 1]
            /\ counted' = [counted EXCEPT ![<<day, k>>] = @ + 1]
    /\ UNCHANGED <<day, storeVars, flushVars, rpc, canceled, mainVars, lost>>

-----------------------------------------------------------------------------
(* Flush.                                                                  *)

\* Take the buffer; an empty one ends Flush at once.
Snapshot(p) ==
    /\ fpc[p] = "idle"
    /\ IF Held = {}
       THEN UNCHANGED <<buf, flushVars>>
       ELSE /\ fpc' = [fpc EXCEPT ![p] = "upsert"]
            /\ batch' = [batch EXCEPT ![p] = buf]
            /\ cutoff' = [cutoff EXCEPT ![p] = day - KeepDays]
            /\ buf' = Empty

\* A store call fails on a closed store and under the canceled context,
\* which run's ticker case goes on using; the timeouts of the final flush
\* and of Wait count as failures of the database.
CtxDone(p) == p = "run" /\ rpc = "loop" /\ canceled
CanFail(p) == StoreFails \/ mpc = "closed" \/ CtxDone(p)
CanWork(p) == mpc # "closed" /\ ~CtxDone(p)

Release(p) == batch' = [batch EXCEPT ![p] = Empty]

\* UpsertUsageCounts: one transaction.
UpsertOK(p) ==
    /\ fpc[p] = "upsert" /\ CanWork(p)
    /\ stored' = Plus(stored, batch[p])
    /\ Release(p)
    /\ fpc' = [fpc EXCEPT ![p] = IF KeepDays > 0 THEN "prune" ELSE "idle"]
    /\ UNCHANGED <<day, buf, pruned, cutoff, rpc, canceled, mainVars, obsVars, lost>>

\* Mutant: a failed batch goes back into the buffer.
UpsertFailsRequeue(p) ==
    /\ fpc[p] = "upsert" /\ CanFail(p)
    /\ \/ UNCHANGED stored
       \/ CanWork(p) /\ stored' = Plus(stored, batch[p])
    /\ buf' = Plus(buf, batch[p])
    /\ Release(p)
    /\ fpc' = [fpc EXCEPT ![p] = "idle"]
    /\ flushErr' = (flushErr \/ p = "main")
    /\ UNCHANGED <<day, pruned, cutoff, rpc, canceled, http, mpc, result, obsVars, lost>>

\* "A commit error doesn't prove the commit failed": the batch is dropped.
UpsertFails(p) ==
    /\ fpc[p] = "upsert" /\ CanFail(p)
    /\ \/ lost' = Plus(lost, batch[p]) /\ UNCHANGED stored
       \/ CanWork(p) /\ stored' = Plus(stored, batch[p]) /\ UNCHANGED lost
    /\ Release(p)
    /\ fpc' = [fpc EXCEPT ![p] = "idle"]
    /\ flushErr' = (flushErr \/ p = "main")
    /\ UNCHANGED <<day, buf, pruned, cutoff, rpc, canceled, http, mpc, result, obsVars>>

\* PruneUsage: DELETE ... WHERE day < cutoff.
PruneOK(p) ==
    /\ fpc[p] = "prune" /\ CanWork(p)
    /\ LET Old == {b \in Buckets : b[1] < cutoff[p]}
       IN  /\ stored' = [b \in Buckets |-> IF b \in Old THEN 0 ELSE stored[b]]
           /\ pruned' = [b \in Buckets |-> IF b \in Old THEN pruned[b] + stored[b] ELSE pruned[b]]
    /\ fpc' = [fpc EXCEPT ![p] = "idle"]
    /\ UNCHANGED <<day, buf, batch, cutoff, rpc, canceled, mainVars, obsVars, lost>>

PruneFails(p) ==
    /\ fpc[p] = "prune" /\ CanFail(p)
    /\ fpc' = [fpc EXCEPT ![p] = "idle"]
    /\ UNCHANGED <<day, buf, storeVars, batch, cutoff, rpc, canceled, mainVars, obsVars, lost>>

FlushStep(p) == UpsertOK(p) \/ UpsertFails(p) \/ PruneOK(p) \/ PruneFails(p)

-----------------------------------------------------------------------------
(* run.  With the ticker and ctx.Done both ready, select may choose either.*)

RunTick ==
    /\ rpc = "loop" /\ fpc["run"] = "idle"
    /\ Held # {}
    /\ Snapshot("run")
    /\ UNCHANGED <<day, storeVars, rpc, canceled, mainVars, obsVars, lost>>

RunFinal ==
    /\ rpc = "loop" /\ fpc["run"] = "idle"
    /\ canceled
    /\ Snapshot("run")
    /\ rpc' = "final"
    /\ UNCHANGED <<day, storeVars, canceled, mainVars, obsVars, lost>>

\* Mutant: a flush that failed ends the goroutine.
RunExitEarly ==
    /\ rpc \in {"loop", "final"} /\ fpc["run"] = "idle"
    /\ rpc = "final" \/ \E b \in Buckets : lost[b] > 0
    /\ rpc' = "exited"
    /\ UNCHANGED <<day, buf, storeVars, flushVars, canceled, mainVars, obsVars, lost>>

RunExit ==
    /\ rpc = "final" /\ fpc["run"] = "idle"
    /\ rpc' = "exited"
    /\ UNCHANGED <<day, buf, storeVars, flushVars, canceled, mainVars, obsVars, lost>>

-----------------------------------------------------------------------------
(* main: the signal cancels run's context, the HTTP server drains, then    *)
(* Wait flushes and joins, and the store is closed.                        *)

Signal ==
    /\ mpc = "serving"
    /\ canceled' = TRUE /\ mpc' = "http"
    /\ UNCHANGED <<day, buf, storeVars, flushVars, rpc, http, flushErr, result, obsVars, lost>>

HTTPShutdown ==
    /\ mpc = "http"
    /\ http' \in {"drained", "timedout"}
    /\ mpc' = "wait"
    /\ UNCHANGED <<day, buf, storeVars, flushVars, rpc, canceled, flushErr, result, obsVars, lost>>

\* Mutant: Wait only joins the goroutine, which does its own final flush.
WaitNoFlush ==
    /\ mpc = "wait"
    /\ mpc' = "join"
    /\ UNCHANGED <<day, buf, flushVars, storeVars, rpc, canceled, http, flushErr, result,
                   obsVars, lost>>

WaitFlush ==
    /\ mpc = "wait"
    /\ Snapshot("main")
    /\ mpc' = "join"
    /\ UNCHANGED <<day, storeVars, rpc, canceled, http, flushErr, result, obsVars, lost>>

\* Mutant: Wait returns once its own flush is done.
WaitNoJoin ==
    /\ mpc = "join" /\ fpc["main"] = "idle"
    /\ result' = IF flushErr THEN "err" ELSE "nil"
    /\ mpc' = "done"
    /\ UNCHANGED <<day, buf, storeVars, flushVars, rpc, canceled, http, flushErr, obsVars, lost>>

WaitJoin ==
    /\ mpc = "join" /\ fpc["main"] = "idle"
    /\ rpc = "exited"
    /\ result' = IF flushErr THEN "err" ELSE "nil"
    /\ mpc' = "done"
    /\ UNCHANGED <<day, buf, storeVars, flushVars, rpc, canceled, http, flushErr, obsVars, lost>>

WaitDeadline ==
    /\ mpc = "join" /\ fpc["main"] = "idle"
    /\ result' = "err"
    /\ mpc' = "done"
    /\ UNCHANGED <<day, buf, storeVars, flushVars, rpc, canceled, http, flushErr, obsVars, lost>>

CloseStore ==
    /\ mpc = "done"
    /\ mpc' = "closed"
    /\ UNCHANGED <<day, buf, storeVars, flushVars, rpc, canceled, http, flushErr, result,
                   obsVars, lost>>

-----------------------------------------------------------------------------
RunStep  == RunTick \/ RunFinal \/ RunExit \/ FlushStep("run")
MainStep == HTTPShutdown \/ WaitFlush \/ FlushStep("main") \/ WaitJoin \/ WaitDeadline
            \/ CloseStore

UsageNext ==
    \/ Midnight
    \/ \E k \in Keys : Increment(k)
    \/ RunStep
    \/ Signal \/ MainStep

UsageSpec == UsageInit /\ [][UsageNext]_uvars

\* The ticker keeps firing, store calls are bounded by their contexts, and
\* main's phases have deadlines; nobody has to send a signal.
FairUsageSpec == UsageSpec /\ WF_uvars(RunStep) /\ WF_uvars(MainStep)

-----------------------------------------------------------------------------
UsageTypeOK ==
    /\ day \in Days
    /\ buf \in [Buckets -> Nat] /\ Cardinality(Held) <= MaxBufferedKeys
    /\ stored \in [Buckets -> Nat]
    /\ fpc \in [Flushers -> {"idle", "upsert", "prune"}]
    /\ batch \in [Flushers -> [Buckets -> Nat]]
    /\ cutoff \in [Flushers -> Int]
    /\ rpc \in {"loop", "final", "exited"} /\ canceled \in BOOLEAN
    /\ http \in {"serving", "drained", "timedout"}
    /\ mpc \in {"serving", "http", "wait", "join", "done", "closed"}
    /\ flushErr \in BOOLEAN /\ result \in {"none", "nil", "err"}
    /\ events \in 0 .. MaxEvents
    /\ counted \in [Buckets -> Nat] /\ lost \in [Buckets -> Nat]
    /\ pruned \in [Buckets -> Nat]

\* Every counted event is in exactly one place: the buffer, a batch, the
\* table, a pruned row or a batch the store refused.  No flush counts an
\* event twice, whatever two concurrent flushers and a lying commit do, and
\* pruning spares the last KeepDays days, however late it runs.
CountedOnce ==
    \A b \in Buckets :
        /\ counted[b] = buf[b] + batch["run"][b] + batch["main"][b]
                        + stored[b] + pruned[b] + lost[b]
        /\ pruned[b] > 0 => b[1] < day - KeepDays

\* Wait's nil "means no further write will be issued, so the store can be
\* closed".
WaitNilIsFinal == [][result = "nil" => stored' = stored]_uvars

\* After a complete HTTP drain nothing stays behind in memory, although the
\* goroutine's final flush may run before the last request was counted.
DrainLeavesNoCounts == result # "none" /\ http = "drained" => buf = Empty

\* While the process runs, counts do not stay in memory for good.
FlushedEventually == \A b \in Buckets : buf[b] > 0 ~> buf[b] = 0 \/ canceled

\* "The flush goroutine must drain what's buffered when its context is
\* canceled, so the last interval's counts aren't lost" (recorder_test.go):
\* as long as the database itself works, no count is lost.
CancelKeepsCounts == lost = Empty

=============================================================================
