---------------------------- MODULE EtlDownload ----------------------------
(***************************************************************************)
(* `etl download` (api/cmd/server/etl.go): fetches the sources of a        *)
(* country plan one after the other into files that regenerate reads       *)
(* later.  A file is written in place; only its checksum tells a good copy *)
(* from what a cut connection, a failed close or a killed process left.    *)
(***************************************************************************)
EXTENDS EtlTables

CONSTANTS
    Plan,         \* Country.Sources: records [file, optional, targets]
    MaxAttempts,  \* etlDownloadMaxAttempts
    MaxRuns       \* bound on the number of invocations

ASSUME DownloadAssumption ==
    /\ DOMAIN Plan = 1 .. Len(Plan) /\ Len(Plan) \in Nat
    /\ \A i \in DOMAIN Plan : Plan[i].optional \in BOOLEAN
    /\ MaxAttempts \in Nat \ {0} /\ MaxRuns \in Nat

FeedsTarget(src, t) == src.targets = {} \/ t = "all" \/ t \in src.targets

Files == {Plan[i].file : i \in DOMAIN Plan}

VARIABLES
    files,     \* each file: absent, partial, the pinned version or another
    dpc,       \* where the command is; "idle", or how the last one ended
    dtarget,   \* --target
    pos,       \* the source it is at
    attempt,   \* downloadSource: attempt
    canceled,  \* the context of the command is canceled
    runs       \* invocations so far

dvars == <<files, dpc, dtarget, pos, attempt, canceled, runs>>

Contents == {"absent", "partial", "pinned", "other"}
Ended    == {"idle", "nil", "error", "killed"}

\* What earlier invocations, and the operator, may have left.
Staged == [Files -> {"absent", "partial", "pinned"}]

DownloadInit(staged) ==
    /\ files \in staged
    /\ dpc = "idle" /\ dtarget = "all"
    /\ pos = 1 /\ attempt = 0 /\ canceled = FALSE /\ runs = 0

\* The source at pos is one this invocation fetches.
Needed(i) == ~Plan[i].optional /\ FeedsTarget(Plan[i], dtarget)
Dst == Plan[pos].file

-----------------------------------------------------------------------------
\* runEtlDownload, up to its loop; resolvePlan has validated the flags.
StartDownload(t) ==
    /\ dpc \in Ended
    /\ runs < MaxRuns
    /\ runs' = runs + 1
    /\ dpc' = "source" /\ dtarget' = t
    /\ pos' = 1 /\ attempt' = 0 /\ canceled' = FALSE
    /\ UNCHANGED files

\* Account-gated sources, and those that do not feed the target.
SkipSource ==
    /\ dpc = "source" /\ pos <= Len(Plan) /\ ~Needed(pos)
    /\ pos' = pos + 1
    /\ UNCHANGED <<files, dpc, dtarget, attempt, canceled, runs>>

DownloadDone ==
    /\ dpc = "source" /\ pos > Len(Plan)
    /\ dpc' = "nil"
    /\ UNCHANGED <<files, dtarget, pos, attempt, canceled, runs>>

\* Mutant: any file that is there counts as cached.
CheckCachedByName ==
    /\ dpc = "source" /\ pos <= Len(Plan) /\ Needed(pos)
    /\ IF files[Dst] # "absent"
       THEN pos' = pos + 1 /\ UNCHANGED <<dpc, attempt>>
       ELSE dpc' = "fetch" /\ attempt' = 1 /\ UNCHANGED pos
    /\ UNCHANGED <<files, dtarget, canceled, runs>>

\* downloadSource: a file that matches the pin is not fetched again.
CheckCached ==
    /\ dpc = "source" /\ pos <= Len(Plan) /\ Needed(pos)
    /\ IF files[Dst] = "pinned"
       THEN pos' = pos + 1 /\ UNCHANGED <<dpc, attempt>>
       ELSE dpc' = "fetch" /\ attempt' = 1 /\ UNCHANGED pos
    /\ UNCHANGED <<files, dtarget, canceled, runs>>

\* A transient failure backs off, unless it was the last attempt.
Transient ==
    /\ dpc' = IF attempt < MaxAttempts THEN "sleep" ELSE "error"
    /\ UNCHANGED <<dtarget, pos, attempt, canceled, runs>>

Permanent ==
    /\ dpc' = "error"
    /\ UNCHANGED <<dtarget, pos, attempt, canceled, runs>>

\* No response, 429 or 5xx; every request fails once the context is done.
FetchUnavailable ==
    /\ dpc = "fetch"
    /\ Transient
    /\ UNCHANGED files

\* Any other status, a request that cannot be built, a failing os.Create.
FetchRefused ==
    /\ dpc = "fetch" /\ ~canceled
    /\ Permanent
    /\ UNCHANGED files

\* 200: os.Create truncates the file before the body is copied.
FetchBegins ==
    /\ dpc = "fetch" /\ ~canceled
    /\ files' = [files EXCEPT ![Dst] = "partial"]
    /\ dpc' = "copy"
    /\ UNCHANGED <<dtarget, pos, attempt, canceled, runs>>

\* The copy is cut short: io.Copy or, with it, Close fails.
CopyCutShort ==
    /\ dpc = "copy"
    /\ Transient
    /\ UNCHANGED files

\* The stream was complete but Close fails: the disk may hold anything.
CloseFails ==
    /\ dpc = "copy"
    /\ \E c \in {"partial", "pinned", "other"} : files' = [files EXCEPT ![Dst] = c]
    /\ Permanent

\* All bytes of another vintage: a checksum mismatch is not retried and the
\* file stays for review.
CopyMismatch ==
    /\ dpc = "copy"
    /\ files' = [files EXCEPT ![Dst] = "other"]
    /\ Permanent

CopyPinned ==
    /\ dpc = "copy"
    /\ files' = [files EXCEPT ![Dst] = "pinned"]
    /\ dpc' = "source" /\ pos' = pos + 1
    /\ UNCHANGED <<dtarget, attempt, canceled, runs>>

\* Mutant: the attempt is not counted.
BackoffEndsUncounted ==
    /\ dpc = "sleep"
    /\ dpc' = "fetch"
    /\ UNCHANGED <<files, dtarget, pos, attempt, canceled, runs>>

\* etlSleep returns nil; with the timer and the context both ready, select
\* takes either.
BackoffEnds ==
    /\ dpc = "sleep"
    /\ dpc' = "fetch" /\ attempt' = attempt + 1
    /\ UNCHANGED <<files, dtarget, pos, canceled, runs>>

BackoffCanceled ==
    /\ dpc = "sleep" /\ canceled
    /\ Permanent
    /\ UNCHANGED files

\* SIGINT or SIGTERM cancels the context; SIGKILL or a crash ends the process.
Cancel ==
    /\ dpc \notin Ended /\ ~canceled
    /\ canceled' = TRUE
    /\ UNCHANGED <<files, dpc, dtarget, pos, attempt, runs>>

Kill ==
    /\ dpc \notin Ended
    /\ dpc' = "killed"
    /\ UNCHANGED <<files, dtarget, pos, attempt, canceled, runs>>

DownloadStep ==
    \/ SkipSource \/ DownloadDone \/ CheckCached
    \/ FetchUnavailable \/ FetchRefused \/ FetchBegins
    \/ CopyCutShort \/ CloseFails \/ CopyMismatch \/ CopyPinned
    \/ BackoffEnds \/ BackoffCanceled

DownloadNext ==
    \/ \E t \in Targets : StartDownload(t)
    \/ DownloadStep \/ Cancel \/ Kill

-----------------------------------------------------------------------------
\* "A missing, partial or corrupt file fails the checksum and is re-fetched":
\* when the command succeeds, every source the target needs is on disk in its
\* pinned version, whatever cut connections, failed closes, mismatches and
\* killed invocations came before.
DownloadNilVerified ==
    dpc = "nil" => \A i \in DOMAIN Plan : Needed(i) => files[Plan[i].file] = "pinned"

=============================================================================
