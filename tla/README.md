# A TLA+ verification of urbanist-atlas

urbanist-atlas is a directory of urbanist organisations: a Go API server
(`api/`), a React front end (`web/`) and ETL pipelines that turn census files
into the seed data the server loads. This project models the parts of the system
where a test has little hope of finding a mistake: goroutines that share state,
shutdown, background writers, a conversation with GitHub that can fail after any
call, the admission, validation and paging of public submissions, the region graph that
every lookup and page is computed from, and the commands an operator runs beside the
server (downloads, the regeneration of the seed, the link check).

TLC checks small instances of every module. TLAPS proves the safety of the promotion
worker, the server around it, the pull-request pipeline, both recorders, the intake, the
paging of the submissions, the download and the link check for every value of the constants.

## 1. The system

| Component | Code | State | Operations | Talks to |
| --- | --- | --- | --- | --- |
| Promotion worker | `internal/githubpr/worker.go` (`Worker`) | buffered channel, `stopped` flag, RW mutex, `inflight` pointer | `Enqueue`, `Run`, `drainAndExit`, `processTracked`, `process`, `Stop` | handlers enqueue, `Run` calls GitHub, results go to the store |
| GitHub pipeline | same file, `openPR` and its calls; `cmd/server/submissions.go` (`retry-pr`) | the repository, the branch, the pull requests | get ref, get file, create or reset branch, put file, create or find PR | GitHub; `AttachPromotionResult` |
| Submission handlers and shutdown | `internal/httpapi/submissions.go`, `cmd/server/serve.go` | the submissions table, the HTTP server's phase, the shutdown sequence | create, approve, reject, `enqueuePromotion`, `awaitShutdown` | store, worker, recorders |
| Submission store | `internal/store/sqlite` | the table | `Create`, `Approve`, `Reject`, `AttachPromotionResult`, `List`, `ListPage` | SQLite |
| Submission intake | `internal/httpapi/ratelimit.go`, `router.go` | hits per client, global hits, cached fullness | `allow`, `full` | store (`List` of pending rows) |
| Usage recorder | `internal/usage/recorder.go`, `store/sqlite/usage.go` | counters in memory, the `usage_daily` table | `Increment`, `Flush`, `run`, `Wait` | handlers, store, shutdown |
| Coverage recorder | `internal/coverage/recorder.go`, `store/sqlite/coverage.go` | semaphore, WaitGroup, the `coverage_gaps` table | `RecordEmpty`, insert, prune, `Wait` | handlers, store, shutdown |
| Region graph, lookup and pages | `pkg/atlas` (`memstore`, `graph`, `lookup`, `region`, `region_scope`, `regionsearch`) | regions, parent edges, rollups, postal codes, org attachments; immutable after start | `AddRegion`, `AddRollupState`, `AddPostalCode`, `AddOrg`; `Lookup`, `GetRegion`, `ListRegions`, `SearchRegions`, `Stats` | built by the seed loader, read by handlers |
| Postal codes | `pkg/atlas/postal.go`, `seedfiles/postal.go`, `httpapi/lookup.go` | none | normalise, validate, military ranges | loader, store, lookup handler: each normalises again |
| Submission validation, org blocks | `pkg/atlas/submission_validate.go`, `githubpr/toml.go`, `seedfiles/orgs.go` | none | `ValidateSubmission`, `RenderOrgBlock`, `validateOrgs` | create handler, worker, loader |
| Seed loading | `internal/seedfiles` | the slugs, edges and anchors seen so far | parse, `DetectCycles`, `buildMemStore`, `assertReachableLeaves` | start-up, CI |
| Link checker | `internal/linkcheck`, `cmd/server/linkcheck.go` | semaphore, WaitGroup, one result per org | `Check`, `probe`, the report | the orgs' sites |
| ETL | `internal/etl`, `cmd/server/etl.go` | staged source files, the generated region and postal files | `download`, `regenerate` (US and CA plans) | census servers; the loader reads the output |
| HTTP read API, middleware, metrics | `internal/httpapi` | counters | read-only handlers | store |
| Generated code, web front end | `oapi`, `store/sqlite/gen`, `web/` | | | |

What is hard in this code:

* **Concurrency.** `Enqueue` (any number of request goroutines), `Run` and `Stop`
  share a channel that `Stop` closes; Go panics on a send to a closed channel.
  `Run` and a `Stop` that timed out receive from the same channel. Two flushers
  share the usage buffer. Coverage writers insert and prune in any order.
* **Shutdown.** Four background activities are stopped in a fixed order, each phase
  with a deadline of its own, while requests are still arriving.
* **Partial failure.** An approval is committed before its job is queued; a commit
  that reports an error may have happened; a GitHub call that reports an error may
  have been applied; the process may be killed at any point.
* **Stale values.** The base branch moves between two GETs; the limiter reads the
  clock before it takes its lock; the pending-queue guard answers from a cache; a
  prune cutoff is computed before the write it follows.
* **Graph walks.** Four walks over one region DAG (up, down, nearest browse row, nearest
  state), each with its own treatment of national regions and ties, feed answers that
  must agree; rollups look like edges and must not be walked.
* **The same check made twice, differently.** A postal code is normalised by three layers; a
  submission's fields are checked when it is posted and again, by other code, when the
  server boots from the merged file; regenerated rows are sorted by slug and loaded
  parents first.
* **Files written in place.** A download or a regeneration that is cut, canceled or killed
  leaves a file of the right name and the wrong content.

`PROJECT.json` lists each of these under `hazards`, at the line where it bites and
with the properties that would catch it.

## 2. The modules

```
PromotionQueue        <--refines--  PromotionWorker
                                          ^
                                          | EXTENDS
SubmissionLifecycle   <--refines--     Server        <--EXTENDS--  ServerProofs

PullRequest    UsageRecorder    CoverageRecorder    SubmissionIntake    SubmissionPages

PostalCodes  <--EXTENDS--  RegionStore  <--EXTENDS--  SubmissionForms  <--EXTENDS--  SubmissionFormsProofs

EtlTables  <--EXTENDS--  EtlDownload -------------+
    ^                                             |
    +---- UsEtl, CaEtl <--EXTENDS-- EtlRegenerate +--EXTENDED by--> OperatorTools
                                    LinkCheck ----+
```

Each `MC*` module extends one of them and only adds symmetry sets or the values of the
constants. Each `*Proofs` module extends the module of its name (`PullRequest`,
`UsageRecorder`, `CoverageRecorder`, `SubmissionIntake`, `SubmissionPages`, `OperatorTools`,
`SubmissionForms` with what it extends) and holds its inductive invariant, lemmas and
theorems. Operators whose comment starts with "Mutant:" are not part of a specification: each is a
plausible wrong version of the definition below it, and substituting it must make
TLC report the property it is paired with in `PROJECT.json`.

### PromotionWorker (and PromotionQueue)

`Worker` at the granularity of one memory access or channel operation per step.
`hpc`, `rpc` and `spc` are the program counters of `Enqueue`, `Run` and `Stop`;
`readers`/`writers` is the RW mutex; `jobs`/`closed` the channel. `rpc = "exited"`
stands for the closed `done` channel. The select of `Run` is the choice between
`RunReceive`, `RunCanceled` and `RunExit`; the receive loop of `drainAndExit` is the
same loop with `draining` set. `processTracked` is three steps, because a `Stop`
whose deadline falls between the receive and `inflight.Store` sees the job nowhere.
The GitHub conversation is one step with an arbitrary result (`Process`). In the
server the worker's context is never canceled (`Cancelable = FALSE`); the worker's
own contract covers cancellation, so the worker runs have it.

`PromotionQueue` is what the worker promises: a submission is new, then accepted or
refused, and an accepted one is later attempted or reported as dropped; nothing is
accepted after `Stop` has begun.

### Server (and SubmissionLifecycle)

Composes the worker with the approve handler, the table, the HTTP server and
`awaitShutdown`. `ApproveStore` is the conditional UPDATE, whose caller may get an
error although it committed; `HandOver`, `Respond` and `AttachError` are
`enqueuePromotion`. `sd` is where `runServe`'s goroutine is: drain HTTP, stop the
worker, wait for the recorders, close the store, exit. `Kill` at any point loses
what is in memory. `RetryPR` is the other process that writes the same rows.
`SubmissionLifecycle` is the contract of the store: one transition out of pending,
and results on approved rows only.

### PullRequest

`openPR` against a GitHub that holds the base branch (a sequence of commits), one
branch per submission and its pull requests. A version of `orgs.toml` is the sequence
of blocks added to it, and a blob SHA is identified with the version it names. Every
mutating call may be applied and still be reported as failed. `CutOff` is a process
that dies, or a result that could not be stored. Editors merge and close pull
requests, delete branches and commit to the base in between. GitHub's behaviour
(`Merged`, the 409 on a blob SHA mismatch, the 422s) is external to the repository
and modelled from how the code uses it.

### UsageRecorder and CoverageRecorder

`Increment` and the first half of `Flush` hold the mutex and are one step each; the
upsert and the prune are separate steps outside it. The run goroutine and main's
`Wait` are two flushers. The select of `run` may prefer the ticker to the canceled
context. `CoverageRecorder` models the semaphore, the WaitGroup with the check Go's
runtime makes when a waiter wakes up, the time stamp taken before the insert gets
the connection, and the prune by `(created_at, id)`.

### SubmissionIntake

The guard with its cached answer, retry after a failed query, and the sliding-window
limiter with its sweep. The clock reading and the locked part of `allow` are
two steps, as in the code. A hit is a record in a set; the limiter reads its clock reading
`at` only, `when` is the time it was admitted, which the properties speak of, and `nr` keeps
equal readings apart as the entries of a list would be. Time is discrete; a request lives at most
`RequestLife` (the server's request timeout).

### RegionStore

`buildMemStore` as a state machine: a file is read (`ReadFile`) and checked for cycles
(`CheckFile`), its regions are loaded one by one (`LoadRegion`), then come the global
cycle check, rollups, postal rows, the org and the check of the leaves. Every early
return of the loader is a transition to "failed". Which seed is loaded is chosen while
it is read, so that the run covers every seed within the bounds. The walks
(`bfsCollectIDs`, `bfsUpwardFirstMatch`, `detectCycles3Color`) are loops over a queue, a
frontier and a stack: an operator is one turn of the loop (`bfsStep`, `levelStep`, `dfsStep`),
and a recursive function over the loop's states repeats it until the loop's condition ends it.
A child that Go's list of children names twice, because its file names a parent twice, is
listed once: the walk skips the repetition. The queries are operators on the loaded store. One
org stands for each: no query relates two orgs other than by sorting them.

`PostalCodes` is `postal.go` over texts of characters (digits, letters of either case, blank,
tab, hyphen); `RegionStore` uses it where the code does: `parsePostalRecord` accepts a row,
`AddPostalCode` files it under a key, and `lookupHandler` answers a query, each after
normalising again.

### SubmissionForms

What becomes of a posted form: `ValidateSubmission` (trim, field caps, URL classes, region
slugs resolved without regard to case and replaced by the canonical ones), then
`RenderOrgBlock` with the slug `DeriveSlug` makes of the name, then the loader: `validateOrgs`
over the whole file (slugs present, in lower case and not seen before, `ValidateOrgFields` for
each entry) and `resolveOrgRegions`, which matches slugs exactly. The operators are evaluated on
a set of forms, and on the files of up to `MaxMerged` entries they render, in every region graph
`RegionStore` loads. A text is its padding, its length and what a parser makes of it
(an http URL, a mailto without an address, an e-mail address, ...); `url.Parse` is external. What
`DeriveSlug` makes of a name are its words in lower case, so that names that differ in case or
punctuation are two texts with one slug.

### SubmissionPages

The submissions table as `ListPage` reads it: filter, keyset cursor over
`(created_at, public_id)`, the clamp on the limit, one row fetched in excess. `Newest` is
ORDER BY with LIMIT: the row with k matching rows before it is the answer's row k + 1. A client lists a
status page by page while rows are created, approved and rejected, and responses get lost
and are asked for again. The same query counts the pending queue for the intake guard.

### The operator's commands

`OperatorTools` runs one of three commands; they share no state.

* `EtlDownload`: sources one after the other, the checksum test that decides whether a file
  is cached, up to `MaxAttempts` attempts with backoff, cancellation by signal, and a kill at
  any point. A file is absent, partial, the pinned version or another one.
* `EtlRegenerate` with `UsEtl` and `CaEtl`: the staged sources and overrides are chosen by `Init`
  and may be replaced between two invocations (`Restage`); the command
  writes the region file and then the postal file, both truncated first. A whole file remembers
  which sources it was made from (`from`, which only the properties read). The two plans are
  operators from rows to rows: delineations to metros, umbrellas and per-state portions;
  relationship files to the largest county or place of a ZIP; the county resolver; the
  retired Connecticut counties; HUD's backfill; the spatial join of FSAs and CMAs on a grid of
  cells. A slug is the sequence of its words, ordered as its text is, because the order of
  the written rows matters to the loader.
* `LinkCheck`: the loop that takes a slot or bails out, one goroutine per org that writes its
  result, frees its slot and leaves the WaitGroup in three steps, the report and the exit
  status.

## 3. What TLC checks

| Run | Instance | What it shows |
| --- | --- | --- |
| `worker` | 2 submissions, 2 handlers, 2 stoppers, buffer 1 | no panic, no job consumed twice, what a clean and a timed-out `Stop` may miss, cancellation drains the buffer, refinement of `PromotionQueue`; `Enqueue` and `Stop` return, every accepted job is settled |
| `server` | 2 submissions, 2 handlers, buffer 1 | no approval is lost in silence by an orderly shutdown, one job per approval, refinement of `SubmissionLifecycle`, termination, approvals settle |
| `server_listener_error` | as `server` | *violation*: see section 5 |
| `pr` | 1 submission, 1 runner, 3 edits | the recorded PR holds the block, the block is added once, and retrying ends with a URL on the row |
| `pr_race` | 1 submission, 2 runners, 2 edits | two concurrent `openPR`s never put a foreign change on the branch, so that merging reverts nobody's edit |
| `usage` | 2 keys, 3 days, 3 events | every count is in one place, `Wait`'s nil is final, nothing left in memory after a drain, retention, counts are flushed |
| `usage_cancel` | 1 key, working database | *violation*: see section 5 |
| `coverage` | 2 writers at a time, cap 1, 3 samples | table bounded, newest rows kept, no WaitGroup misuse after a drain, `Wait`'s nil is final |
| `intake` | 2 requests, 2 clients, window 5, 7 ticks | budgets hold up to the lock delay; the queue's overshoot is bounded |
| `regions` | 3 regions of 4 kinds in files of 1 or 2, 4 postal rows, 41 queries, 42 forms in files of up to 2, 1 org | the cycle check is exact and the global one redundant; ancestry and nearest ancestors agree with paths in the seed; pages mirror lookups and name every region below, and live orgs have pages; browse rows nest under listed rows; local regions are reachable; every spelling of a mapped code is found; promoted submissions load exactly if each names a region and no two have one slug |
| `pages` | 4 rows, 2 time stamps, pages of 1 and 2 | no row shown twice, none that stays skipped, order kept across pages; the guard's count is exact at its cap |
| `operator` | 3 sources, 4 attempts, 2 invocations; 7 counties of 3 states, 2 provinces, a 6x6 grid; 3 sites, 2 slots | a download that succeeds leaves pinned files; a regeneration that succeeds replaces both files, the files of one set of sources load, leak no state but through a one-state metro's title, and anchor at the finest region; every org is reported; the commands end |

**Why the bounds are enough.** The buffer must be smaller than the number of jobs so
that it fills, and a job must be able to be in `Run`'s hands or the buffer with
another in a handler: two submissions with a buffer of one (the theorems of section 4
cover every other size). Two stoppers meet on the lock and in the collecting loop. Two handlers are two
moderators on one row. For `PullRequest`, two editor actions allow a merge or close
followed by a commit, or a commit between two GETs followed by a merge, and a third one
another commit before the retry; the interference of two runs is on one submission's branch,
since branches are private to a submission and other submissions reach it only through the
base, where an editor's commit stands for them. Three days with
a retention of one let a cutoff be a day late and a day be pruned. One row more than
`MaxRows` plus two concurrent writers lets inserts and prunes cross. `Window = 5`
with `CheckInterval = 2`, `RequestLife = 1` keeps the order of the real settings (a
request outlives neither interval) with a clock that runs past one window.

Three regions give a region with two parents, one of which is the parent of the other, so
that a region is met at two distances and through two routes, a national region in the
middle of a chain, a tie between two states and a metro that rolls up to a state which is
or is not its ancestor; the files' order is with or against the order of the slugs, or
defines a slug twice. A file of two can hold a cycle of two, a self-loop, a repeated
parent and a parent of another file; longer cycles are left to the theorem of section 4. The
queries are each text for the two countries that have rows, and three for others: ZIP, ZIP+4 with and without its hyphen and cut
short, military ranges and their neighbours, an FSA, a full code in lower case, blanks and
tabs inside and around, blank and oversized ones. The forms change one field of a good form
at a time, to padded, blank, at and beyond its cap, and of every URL class; the region slugs
are known, unknown, national, in another case, repeated in another case, and too many; three
names have one slug between them, one another and one none. Files of two entries hold each pair
of promoted forms, with the same slug and with different ones.

Four rows with two time stamps give two pages with a tie across their boundary, whatever
leaves or enters. In `operator`, two of the counties lie in different states, one in a territory
without a region, one is retired, one a borough, one a curated leaf and one in no metro; metros
take any of them, and a title names the states of its counties, others, unknown ones or none; two rows of one ZIP differ, or tie, in either order. A CMA has one record, one in each
province, or a second CMA beside it; FSAs overlap evenly, mostly, barely, around a hole, or not
at all. The second invocation finds the same sources or others, under which a metro or a CMA is
gone. Two slots for three orgs fill the pool with one org waiting. Of the sources it is
assumed that a county is in one metro, an FSA has one record, generated slugs are distinct,
and an override of a one-state metro names that state: the real files are so, and the loader
refuses a seed in which slugs collide.

`CHECK_DEADLOCK FALSE` is set where the system may stop: the process exits, the bounded
clock and events run out, the seed is loaded, or every submission has been handled.

**Fairness.** Weak fairness of every goroutine that is runnable: Go's scheduler is
preemptive. `openPR` is bounded by `openPRTimeout`, `Stop`, `srv.Shutdown` and `Wait`
have deadlines, the usage ticker keeps firing; hence a step in progress ends. A periodic flush of
the usage recorder has no deadline of its own (it runs under the process's context): that the
SQLite call in it ends is assumed. The
RW mutex is the one place where weak fairness of the step is enough only because
`Enqueue` never blocks while holding the read lock, and Go's writer preference is not
needed. Nothing obliges anybody to send a request, a signal or a cancellation. For
`RetryConverges` operators go on retrying, and GitHub and the
store do not fail the same call forever (strong fairness of the successful answer);
without that no retry can be expected to converge. In `operator`, the running command and each
probe's goroutine take their next step: requests end at the client's timeout and the backoff is
a timer; nothing obliges a server to answer well, or anybody to cancel.

## 4. What is proved

Every theorem is about the specification TLC runs, with the constants unknown: what is
assumed of them is the named ASSUME of the module, which TLC evaluates on each run. Each
proof has the same shape: an invariant that is implied by `Init` and kept by every action
(one step or lemma per action), from which the property follows. None of the properties is
inductive as it stands; what the invariants add is said below.

### The promotion worker

The first part of `ServerProofs` proves, from `WorkerAssumption` alone (`NoSub` is not a
submission, `BufferSize` is a positive natural, `Cancelable` a Boolean), for arbitrary,
also infinite, sets of submissions, handlers and stoppers:

| Theorem | Property |
| --- | --- |
| `WorkerTypeCorrect` | `WorkerTypeOK` |
| `WorkerNeverPanics` | `NoPanic` |
| `WorkerConsumesOnce` | `ConsumedOnce` |
| `CleanStopTheorem` | `CleanStopIsComplete` |
| `TimedOutStopTheorem` | `TimedOutStopMissesOnlyCur` |
| `CancelDrainsTheorem` | `CancelDrainsBuffer` |
| `WorkerImplementsQueue` | `ImplementsQueue` |

All rest on `WorkerInvariance`: `WorkerSpec => []WorkerInv`. None of the properties is
inductive. `WorkerInv` adds what connects them:

* `LockInv`: a handler between `RLock` and `RUnlock` is in `readers`, a stopper between
  `Lock` and `Unlock` in `writers`, never both kinds, at most one stopper. This is what
  keeps a handler at its send from meeting a stopper at its close;
* `CloseInv`: `closed = stopped`; a handler at "send" has `~stopped`; a stopper past the
  unlock has `stopped`. With `LockInv` this gives `NoPanic`;
* `HandlerInv`: which handlers hold which job, no two the same, and that a held job has
  no verdict until its send;
* `RunInv`: `cur` and `inflight` in step with `rpc`;
* `BufferInv`: the buffer has no duplicates and no job that Run or Stop has taken;
* `PlaceInv`: an accepted job is in the buffer, in Run's hands, attempted or reported -
  the conservation law behind both `Stop` theorems;
* `EndInv`: what is left once Run has exited or a `Stop` is past its collecting loop.

`WorkerNextInv` has one step per action. The refinement is proved the same way:
`QueueStutters` covers the steps that leave `JobOf` alone, `QueueMoves` the five that
move a submission; `WorkerInv` is needed because a second verdict or a second attempt
would be no step of the abstract queue.

### The server

The second part of `ServerProofs`, from `WorkerAssumption` and the `ServerConfig` that
`ServerInit` starts from (main is the one stopper and the worker's context is never canceled, as
in `serve.go`), for any handlers and submissions:

| Theorem | Property |
| --- | --- |
| `ServerEnqueuesOnce` | `ApprovalEnqueuedOnce` |
| `ServerLosesNothingSilently` | `NothingSilentlyLost` |
| `ServerImplementsLifecycle` | `ImplementsLifecycle` |

`ServerInv` starts with `WorkerInv`: a step of the server is a step of the worker, leaves the
worker alone, or is the `Kill` (`ServerStepsWorker`, `KillResetsWorker`), so that the worker's
proof is used and not repeated. `RequestInv` says that a handler's submission is approved, is in
no other handler's hands, and has an open verdict until it is offered; that is what makes
`HandOver` an `Enqueue` of something new (`HandOverIsNew`). `ApprovalInv` is the conservation law
of approvals: an approved row without a result was reported, is with a handler, or is in the
worker's queue. `ShutdownInv` says what each phase of `awaitShutdown` leaves behind. At the end
of an orderly shutdown the handlers are gone, and `WorkerInv`'s facts about a clean and a
timed-out `Stop` settle the rest.

### The GitHub pipeline

`PullRequestProofs`, from `PullRequestAssumption`:

| Theorem | Property | For |
| --- | --- | --- |
| `BranchNeverReverts` | `BranchOnlyAddsOwnBlock` | any submissions, any number of concurrent runs, any number of edits |
| `PromotionIsSound` | `PromotionSound` | the same with one run at a time (`OneRunner`) |

`PRInv` (types, `RunInv`, the property) is inductive because the base only grows (`BaseGrows`):
a fork commit keeps its content, and the one write to a branch (`BranchPut`) goes through only when
the blob it was computed from is still the branch's, so that it adds the block and nothing else.
`PromotionSound` is not true of two concurrent runs on one submission: a second run may reset the
branch under a PR the first one is about to record. `OneRunner` is what the worker gives (one
`Run` goroutine) as long as nobody runs `retry-pr` meanwhile. `SoloInv` adds what a run knows of
its own branch: that it is the commit it forked from until it has put the file (`PutInv`), that
it is ahead of the base from then on, and that a head has one open PR (`OpenInv`).

### The recorders

`UsageRecorderProofs`, from `UsageAssumption`, for any keys, days and events:

| Theorem | Property |
| --- | --- |
| `UsageTypeCorrect` | `UsageTypeOK` |
| `UsageCountedOnce` | `CountedOnce` |
| `UsageDrained` | `DrainLeavesNoCounts` |
| `UsageWaitNilIsFinal` | `WaitNilIsFinal` |

`UsageInv` adds that a flusher which is not about to write holds an empty batch and that its
cutoff, computed on an earlier day, is old enough on every later one (`FlushInv`), who can still
write at each stage of the shutdown (`OwnerInv`), and that the buffer stays empty once the drained
server's `Wait` has taken its snapshot (`DrainInv`).

`CoverageRecorderProofs`, from `CoverageAssumption`, for any number of writers, samples and rows:

| Theorem | Property |
| --- | --- |
| `CoverageKeepsNewest` | `NewestRowsKept` |
| `CoverageNoReuse` | `NoReuseAfterDrain` |
| `CoverageWritersBounded` | `WritersBounded` |
| `CoverageWaitNilIsFinal` | `WaitNilIsFinal` |

`CountInv` ties the semaphore and the WaitGroup to the writers that hold them, `WaitInv` says that
after a drain the waiter is woken only when no writer is left. The table's part needs that a
prune of `MaxRows` newest rows never deletes one of them whatever was inserted since the
writer's own insert (`RowsPruned`, from `OldestRow` and `NewestBound`).

### The intake

`SubmissionIntakeProofs`, from `IntakeAssumption`, for any clients, concurrent requests and
budgets: `IntakeBudgets` (`BudgetsHold`) and `IntakeOvershoot` (`OvershootBounded`). The
assumption that carries the argument is `CheckInterval + 2 * RequestLife < Window`: a cached
answer and the requests it let in are gone before their hits leave the window. The
settings in `tuning.go` are 80 seconds against an hour.

`AdmitInv` says that what was admitted within a window by its own clock reading is still in
both of the limiter's sets, although requests overtake each other between reading the clock and
taking the lock. The overshoot needs more than the state shows: `QueueInv` says that there was a time
`tau` of the last answer that let requests in (`OpenSince`) such that everyone past the guard
arrived before that answer expired, and that every row beyond the count at `tau`, inserted or to
come, has a hit of its own in the global budget, which is bounded by `GlobalMax`. `HoldInv` is the
pairing of inserts to come with hits.

### Paging

`SubmissionPagesProofs`, from `PagesAssumption` (finitely many ids, `QueueLimit` no more than
`MaxLimit`, so that the guard asks for what a page can hold): `PagingIsExact` (`PagingExact`) and
`QueueCountIsExact` (`QueueCountExact`), for any table, limit and schedule of inserts, decisions
and lost responses. The lemmas are about the order: `Newer` is a strict total one, ranks are
distinct and leave no gap (`RankOrder`, `RankUnique`, `RankOnto`), so that `Newest` is the sorted
prefix of the matching rows (`NewestRows`) and `ListPage` splits the rows behind the cursor into
those it returns and those behind the new cursor (`PageRows`). `PagesInv` then says: the cursor
is that of the last row shown, and a row that kept its status is shown or behind it; `AnswerInv` says
the same of a response under way.

### The operator's commands

`OperatorToolsProofs`, from `DownloadAssumption` and `LinkCheckAssumption`: `DownloadVerified`
(`DownloadNilVerified`), for any plan and any files left by earlier invocations, and
`LinkReportComplete` (`EveryOrgReported`), for any orgs and pool size. `DownloadInv` says that the
needed sources already passed are pinned on disk and that the file being written is none of
theirs: two sources may name one file, but the second then finds it pinned and writes nothing. `LinkInv` gives each org a goroutine that has written its result before it
leaves, or the cancellation; `InOrderIsComplete` shows that a list in the report's order without
repetitions holds every org.

### The seed, the region graph and submitted forms

`SubmissionFormsProofs`, from `RegionAssumption` (slugs are numbers, parents and rollups are
lists of them, an org lists at least one region), `PostalAssumption` (the loader reads the postal
files of two countries; texts are sequences of characters) and `FormsAssumption` (a form has its
fields, `MaxMerged` is a natural number), for seeds, files, rows, queries and forms of any size:

| Theorem | Property |
| --- | --- |
| `LoaderInvariant` | `LoadInv`, the invariant of the load |
| `CycleCheckCorrect` | `CycleCheckExact` |
| `WalksCorrect` | `WalksExact` |
| `PagesCorrect` | `PagesMirrorLookups` |
| `RowsCorrect` | `BrowseTreeConsistent` |
| `LocalsCorrect` | `LocalRegionsReachable` |
| `SpellingsCorrect` | `EverySpellingFound` |
| `SubmissionsLoad` | `AcceptedSubmissionLoads` |

*Loops.* What a walk computes is proved without induction over data. A loop is a function on a set
of states; `LoopDefined` shows that it exists, `LoopEnds` that a loop with a measure, two natural
numbers in lexicographic order, ends in a state that satisfies every invariant of the loop: a least
counterexample (`LeastNat`) would have a smaller one. A walk is then reasoned about like a
specification, with an invariant and one step.

*The load.* `LoadInv` says that a region's parents have smaller ids (`GraphInv`), that the edges by
id and the edges by slug are the same (`EdgeInv`), that rollups, postal rows and the org refer to
regions that are there (`StoreInv`), and that a seed that is served has no orphan (`EndInv`). One
lemma per action shows that it is kept. That the last cycle check finds nothing
(`NoCycleFound`) is part of it: ids fall along the edges.

*The cycle check.* `DfsInv`: a slug is gray exactly while the stack holds its end, black slugs
have black parents and no cycle among them, a gray slug's parents are black or above its end, and
all above its end can be reached from it. A gray slug that is met again is thus on a cycle
(`MetFinds`); when the stack is empty every slug is black, and there is none (`CyclesFound`).
`ShortWalk` turns a cycle into one no longer than the number of slugs.

*The walks.* `BfsInv` makes the collected regions `Reach`, the least set that holds the start and
is closed under edges of regions that are not national. `ReachMirror` reverses a walk, which is why
what a page collects downwards is what lookups collect upwards. For the order, `Levels` splits the
queue into regions `l` edges away and regions one edge further, while all that is nearer was
visited; `LevelInv` is the same for `bfsUpwardFirstMatch`. `SlugWays` and `WayBound` tie both to
`Distance`, which is defined by the seed's slugs.

*Postal codes.* `NormalForms`: for a country whose file is loaded, if a text normalised once or
twice is a valid code, the second pass changed nothing; the handler's extra trim never does. *Forms*:
`PromotedChecked` follows the trimmed fields through the shape checks and the canonical slugs into
the loader's checks of one entry; slugs that resolve to distinct regions stay distinct
(`InjectiveSize`). `AcceptedLoads` adds the file: of promoted entries `validateOrgs` refuses
only those without a region and a slug it has seen, and comparing each with the ones before it
finds every repetition (`NoneRepeated`). *Pages*: `AboveOnly`, that nothing is both above and below
a region, because ids fall along the edges, is why a page names every region below its own.

### Only model-checked

* Liveness: `Enqueue` and `Stop` return, jobs and approvals settle, `RetryConverges`, counts are
  flushed, shutdown and commands end. The prover has no fairness reasoning.
* `EtlRegenerate` (`SeedLoads`, `NoStateLeak`, `FinestAnchor`): they are about what the folds and
  sorts of the two plans compute from the staged rows, which takes induction over data.
* `PromotionSound` with concurrent runs does not hold and is not claimed; `pr_race` checks what does.

## 5. Where code and documentation disagree

* **`server_listener_error`.** `awaitShutdown`'s comment promises that every teardown step
  runs on "ctx cancellation or a listener error"; on a listener error the function
  returns at once, and a queued promotion can be lost without a result or a log line.
* **`usage_cancel`.** A test says the last interval's counts are not lost on cancellation.
  They are when the ticker case is chosen with a canceled context, or when the
  cancellation arrives during a periodic flush.

Seen while modelling, without a run of their own:

* `createBranch`'s comment (`worker.go:595-597`) says the reset keeps the branch's blob equal to
  the one `putFile` sends. A commit to `orgs.toml` between the two GETs breaks that; GitHub then
  refuses the PUT, and the consequence is only a failed run, as `pr_race` and `pr` show.
* "It is idempotent" (`postal.go:10-11`) is not true of every text: a UK text of eight or more
  characters loses three at each pass, and a Canadian code with a tab in third place loses it
  at the second. `EverySpellingFound` shows why that does no harm: rows are validated, so that
  their keys are fixed points, and only US and CA files are loaded.
* `probe` sets `ElapsedMs` in a deferred function on a result that is not a named one
  (`linkcheck.go:104`): the value returned never has it. Rows with a 3xx status are flagged, yet
  sorted with the healthy ones (`cmd/server/linkcheck.go:126-134`).
* `reconcileCTLegacyCounties` is documented as taking a finer result; it takes any other one,
  another state's bare anchor included (`us/crosswalk.go:189-197`).
* `regenerate` neither checks the checksums of what is staged nor looks at its context, and
  `--target regions` alone leaves an older postal file that may name slugs which are gone. In the
  model too: after `Restage` and a run for one target the two files may not load together, so that
  `SeedLoads` claims it of files of the same sources. A partial or outdated file is replaced by a
  run of its target that returns nil; nothing but the next boot notices one that is not.
* "the CBSA title can name different states" (`us/output.go:48-50`): a metro over several states
  goes by its counties for that reason, but `autoParents` puts a metro whose counties lie in one
  state under every state its title names. A title with a state that has no county in the metro
  would show its postal codes that state's orgs; `NoStateLeak` states this as the exception.
* Nothing between a submission and the next boot compares slugs: `openPR` derives one from the
  name and appends the block without looking for it in the file (`worker.go:288-305`). Two accepted
  submissions of one name, or one of an org that is listed already, merged as they are, make a
  file that `validateOrgs` refuses (`orgs.go:64`), and the server does not start. The review of the
  pull request must catch it. `AcceptedSubmissionLoads` shows that this and a missing region
  are the only ways in which accepted submissions can make the file unloadable.
* A handler that outlives a timed-out HTTP drain may start a coverage writer while `Wait` wakes up,
  which `sync.WaitGroup` answers with a panic; `NoReuseAfterDrain` says only that a complete drain
  rules it out.
* A name without an ASCII letter or digit is accepted and has no slug: its promotion always ends
  in an error. A form without region slugs is accepted and rendered; the loader would refuse the
  entry, so that the editor must add one in review, as the code's comment says.
* An FSA whose CMA has no record in the FSA's province anchors at the CMA itself, and so reaches
  the other province; `NoStateLeak` leaves it out.

## 6. What is not modelled

* *Byte formats*: XLSX, CSV, DBF and shapefile decoding in the ETL, TOML in the seeds and the org
  block, the text of pull requests and their escaping. A file that cannot be decoded is a read
  error of the command or the loader. `Slugify`, name cleaning and projection are abstracted.
* *Queries*: sort orders, the place label and the ranking of search hits; `ListUsage`.
* *Middleware, metrics, response encoding, authentication, generated code, front end*: no state
  of their own that these properties are about.
* A store call that fails and changes nothing is no step. SQL is modelled at the level of
  one atomic statement or transaction, which the single-connection SQLite store gives.
* Panics other than those of channels and WaitGroups. A coverage writer recovers from one
  (`coverage/recorder.go:96`), which is then a failed write; the promotion worker has no `recover`.
* A restart after `Kill`: the new process starts with an empty queue and reads no rows, so that
  nothing of the old one remains but the rows, on which only `retry-pr` acts.

## 7. What could come next

The models are complete to the extent of section 6, and each safety invariant of a run is proved
but for the three of `EtlRegenerate`. Their proofs would start from the plans' row loops, written
as loops with a turn of their own as the walks of `RegionStore` are, and from lemmas about
`SortSeq` and the folds of the community modules.
