-------------------------- MODULE CoverageRecorder --------------------------
(***************************************************************************)
(* The coverage recorder (api/internal/coverage/recorder.go): handlers     *)
(* hand sampled empty results to background writers, at most MaxWrites at  *)
(* a time; each writer inserts a row and prunes the table; main's Wait     *)
(* joins the writers before the store is closed.                           *)
(*                                                                         *)
(* A sample is the number of its RecordEmpty call.  The waiter is the      *)
(* goroutine Wait starts for wg.Wait, with the check sync.WaitGroup makes  *)
(* on waking up: it panics if the counter is in use again.                 *)
(***************************************************************************)
EXTENDS Naturals, FiniteSets

CONSTANTS
    MaxWrites,    \* maxConcurrentWrites
    MaxRows,      \* Recorder.maxRows; 0 leaves the table unbounded
    MaxSamples,   \* bound on the number of RecordEmpty calls
    MaxTime       \* bound on the clock

ASSUME CoverageAssumption ==
    /\ MaxWrites \in Nat \ {0} /\ MaxRows \in Nat
    /\ MaxSamples \in Nat /\ MaxTime \in Nat

Samples == 1 .. MaxSamples

VARIABLES
    now,       \* the clock, in ticks of the created_at column
    calls,     \* RecordEmpty calls that passed the sampling gate
    sem,       \* Recorder.sem: tokens in use
    wg,        \* Recorder.wg: the counter
    wpc,       \* writers: where the goroutine of each sample is
    stamp,     \* writers: the created_at it took
    rows,      \* the coverage_gaps table: [id, at] of the rows in it
    nextId,    \* the autoincrement id
    http,      \* the HTTP server, whose handlers call RecordEmpty
    mpc,       \* main: "serving", "http", "wait", "done", "closed"
    waiter,    \* Wait's goroutine: "none", "blocked", "woken", "done"
    result     \* what Wait returned

VARIABLES      \* observations, which no step reads
    everRows,  \* every row ever inserted
    unpruned,  \* inserts whose own prune did not happen, since the last prune
    panicked   \* "WaitGroup is reused before previous Wait has returned"

tableVars == <<rows, nextId, everRows, unpruned>>
syncVars  == <<sem, wg, waiter, panicked>>
cvars     == <<now, calls, wpc, stamp, syncVars, tableVars, http, mpc, result>>

CoverageInit ==
    /\ now = 0 /\ calls = 0 /\ sem = 0 /\ wg = 0
    /\ wpc = [n \in Samples |-> "none"]
    /\ stamp = [n \in Samples |-> 0]
    /\ rows = {} /\ nextId = 1
    /\ http = "serving" /\ mpc = "serving" /\ waiter = "none" /\ result = "none"
    /\ everRows = {} /\ unpruned = 0 /\ panicked = FALSE

-----------------------------------------------------------------------------
Tick ==
    /\ now < MaxTime
    /\ now' = now + 1
    /\ UNCHANGED <<calls, wpc, stamp, syncVars, tableVars, http, mpc, result>>

\* Mutant: handlers leave the recording to a goroutine they do not wait for.
RecordEmptyDetached ==
    /\ calls < MaxSamples
    /\ calls' = calls + 1
    /\ sem < MaxWrites
    /\ sem' = sem + 1 /\ wg' = wg + 1
    /\ wpc' = [wpc EXCEPT ![calls'] = "stamp"]
    /\ UNCHANGED <<now, stamp, waiter, panicked, tableVars, http, mpc, result>>

\* The sample is dropped when every token is taken.
RecordEmpty ==
    /\ http # "drained" /\ calls < MaxSamples
    /\ calls' = calls + 1
    /\ \/ /\ sem < MaxWrites
          /\ sem' = sem + 1 /\ wg' = wg + 1
          /\ wpc' = [wpc EXCEPT ![calls'] = "stamp"]
       \/ /\ sem >= MaxWrites
          /\ UNCHANGED <<sem, wg, wpc>>
    /\ UNCHANGED <<now, stamp, waiter, panicked, tableVars, http, mpc, result>>

-----------------------------------------------------------------------------
(* A writer.  The store stamps the row before the insert gets the database *)
(* connection, so rows may be inserted out of the order of created_at.     *)

Goto(n, pc) == wpc' = [wpc EXCEPT ![n] = pc]

TakeStamp(n) ==
    /\ wpc[n] = "stamp"
    /\ stamp' = [stamp EXCEPT ![n] = now]
    /\ Goto(n, "insert")
    /\ UNCHANGED <<now, calls, syncVars, tableVars, http, mpc, result>>

AddRow(n) ==
    LET r == [id |-> nextId, at |-> stamp[n]]
    IN  /\ rows' = rows \cup {r}
        /\ everRows' = everRows \cup {r}
        /\ nextId' = nextId + 1

InsertOK(n) ==
    /\ wpc[n] = "insert" /\ mpc # "closed"
    /\ AddRow(n)
    /\ Goto(n, "prune")
    /\ UNCHANGED <<now, calls, stamp, syncVars, unpruned, http, mpc, result>>

\* The writer gives up; the row may have been inserted all the same.
InsertFails(n) ==
    /\ wpc[n] = "insert"
    /\ \/ UNCHANGED tableVars
       \/ mpc # "closed" /\ AddRow(n) /\ unpruned' = unpruned + 1
    /\ Goto(n, "release")
    /\ UNCHANGED <<now, calls, stamp, syncVars, http, mpc, result>>

Newer(q, r) == q.at > r.at \/ (q.at = r.at /\ q.id > r.id)
Newest(S, k) == {r \in S : Cardinality({q \in S : Newer(q, r)}) < k}

\* Mutant: the rows with the highest ids are kept.
PruneOKById(n) ==
    /\ wpc[n] = "prune" /\ mpc # "closed"
    /\ rows' = {r \in rows : Cardinality({q \in rows : q.id > r.id}) < MaxRows}
    /\ unpruned' = 0
    /\ Goto(n, "release")
    /\ UNCHANGED <<now, calls, stamp, syncVars, nextId, everRows, http, mpc, result>>

\* DELETE ... NOT IN (SELECT ... ORDER BY created_at DESC, id DESC LIMIT keep).
PruneOK(n) ==
    /\ wpc[n] = "prune" /\ mpc # "closed"
    /\ rows' = IF MaxRows = 0 THEN rows ELSE Newest(rows, MaxRows)
    /\ unpruned' = 0
    /\ Goto(n, "release")
    /\ UNCHANGED <<now, calls, stamp, syncVars, nextId, everRows, http, mpc, result>>

PruneFails(n) ==
    /\ wpc[n] = "prune"
    /\ unpruned' = unpruned + 1
    /\ Goto(n, "release")
    /\ UNCHANGED <<now, calls, stamp, syncVars, rows, nextId, everRows, http, mpc, result>>

\* The deferred receive from sem, before wg.Go's Done.
ReleaseToken(n) ==
    /\ wpc[n] = "release"
    /\ sem' = sem - 1
    /\ Goto(n, "exit")
    /\ UNCHANGED <<now, calls, stamp, wg, waiter, panicked, tableVars, http, mpc, result>>

\* The Done that brings the counter to zero wakes the waiter.
Done(n) ==
    /\ wpc[n] = "exit"
    /\ wg' = wg - 1
    /\ waiter' = IF wg' = 0 /\ waiter = "blocked" THEN "woken" ELSE waiter
    /\ Goto(n, "done")
    /\ UNCHANGED <<now, calls, stamp, sem, panicked, tableVars, http, mpc, result>>

WriterStep(n) ==
    \/ TakeStamp(n) \/ InsertOK(n) \/ InsertFails(n) \/ PruneOK(n) \/ PruneFails(n)
    \/ ReleaseToken(n) \/ Done(n)

-----------------------------------------------------------------------------
(* main: HTTP drain, Wait, and the store's Close.                          *)

HTTPShutdown ==
    /\ mpc = "serving"
    /\ http' \in {"drained", "timedout"}
    /\ mpc' = "http"
    /\ UNCHANGED <<now, calls, wpc, stamp, syncVars, tableVars, result>>

\* wg.Wait returns at once on a zero counter and blocks otherwise.
WaitStart ==
    /\ mpc = "http"
    /\ mpc' = "wait"
    /\ waiter' = IF wg = 0 THEN "done" ELSE "blocked"
    /\ UNCHANGED <<now, calls, wpc, stamp, sem, wg, panicked, tableVars, http, result>>

WaiterWakes ==
    /\ waiter = "woken"
    /\ waiter' = "done"
    /\ panicked' = (panicked \/ wg # 0)
    /\ UNCHANGED <<now, calls, wpc, stamp, sem, wg, tableVars, http, mpc, result>>

\* Mutant: Wait does not wait for the waiter.
WaitNilEarly ==
    /\ mpc = "wait"
    /\ result' = "nil" /\ mpc' = "done"
    /\ UNCHANGED <<now, calls, wpc, stamp, syncVars, tableVars, http>>

WaitNil ==
    /\ mpc = "wait" /\ waiter = "done"
    /\ result' = "nil" /\ mpc' = "done"
    /\ UNCHANGED <<now, calls, wpc, stamp, syncVars, tableVars, http>>

WaitDeadline ==
    /\ mpc = "wait"
    /\ result' = "err" /\ mpc' = "done"
    /\ UNCHANGED <<now, calls, wpc, stamp, syncVars, tableVars, http>>

CloseStore ==
    /\ mpc = "done"
    /\ mpc' = "closed"
    /\ UNCHANGED <<now, calls, wpc, stamp, syncVars, tableVars, http, result>>

CoverageNext ==
    \/ Tick \/ RecordEmpty
    \/ \E n \in Samples : WriterStep(n)
    \/ HTTPShutdown \/ WaitStart \/ WaiterWakes \/ WaitNil \/ WaitDeadline \/ CloseStore

CoverageSpec == CoverageInit /\ [][CoverageNext]_cvars

-----------------------------------------------------------------------------
Active(states) == {n \in Samples : wpc[n] \in states}

CoverageTypeOK ==
    /\ now \in 0 .. MaxTime /\ calls \in 0 .. MaxSamples
    /\ sem \in 0 .. MaxWrites /\ wg \in 0 .. MaxSamples
    /\ wpc \in [Samples -> {"none", "stamp", "insert", "prune", "release", "exit", "done"}]
    /\ stamp \in [Samples -> 0 .. MaxTime]
    /\ rows \subseteq [id : Samples, at : 0 .. MaxTime] /\ rows \subseteq everRows
    /\ nextId \in 1 .. MaxSamples + 1
    /\ http \in {"serving", "drained", "timedout"}
    /\ mpc \in {"serving", "http", "wait", "done", "closed"}
    /\ waiter \in {"none", "blocked", "woken", "done"}
    /\ result \in {"none", "nil", "err"} /\ panicked \in BOOLEAN

\* Although writers insert and prune concurrently and out of order, the table is
\* over its cap only by rows whose prune is still to come or failed, and a row is
\* deleted only when MaxRows newer ones were inserted.
NewestRowsKept ==
    MaxRows > 0 =>
        /\ Cardinality(rows) <= MaxRows + unpruned + Cardinality(Active({"prune"}))
        /\ \A r \in everRows \ rows :
               Cardinality({q \in everRows : Newer(q, r)}) >= MaxRows

\* After a complete HTTP drain, Wait's nil means that the table is final.
WaitNilIsFinal == [][result = "nil" /\ http = "drained" => UNCHANGED tableVars]_cvars

\* wg.Go never meets a waiter that is waking up, unless the HTTP drain timed
\* out and handlers are still recording.
NoReuseAfterDrain == http = "drained" => ~panicked

=============================================================================
