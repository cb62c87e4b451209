------------------------ MODULE OperatorToolsProofs ------------------------
(***************************************************************************)
(* What a nil error of `etl download` and a report of `linkcheck` stand    *)
(* for, for every plan, number of attempts, list of orgs and pool size.    *)
(***************************************************************************)
EXTENDS OperatorTools, FiniteSetTheorems, TLAPS

-----------------------------------------------------------------------------
(* The inductive invariants.                                               *)

\* The sources a download has passed are on disk in their pinned version, and
\* while it writes a file, that file is not one of theirs.
DownloadInv ==
    /\ files \in [Files -> Contents]
    /\ pos \in Nat \ {0}
    /\ dpc \in Ended \cup {"source", "fetch", "copy", "sleep"}
    /\ dpc \in {"source", "fetch", "copy", "sleep", "nil"} =>
          \A i \in DOMAIN Plan : i < pos /\ Needed(i) => files[Plan[i].file] = "pinned"
    /\ dpc \in {"fetch", "copy", "sleep"} =>
          /\ pos \in DOMAIN Plan
          /\ \A i \in DOMAIN Plan : i < pos /\ Needed(i) => Plan[i].file # Dst
    /\ dpc = "nil" => pos > Len(Plan)

\* The orgs the loop has passed have a goroutine, which writes the result of
\* its probe before it leaves; once the loop is over the others have the
\* cancellation, and a report holds every org.
LinkInv ==
    /\ next \in Nat \ {0}
    /\ lpc \in {"loop", "wait", "report", "end"}
    /\ probe \in [Orgs -> {"new", "head", "get", "written", "released", "done"}]
    /\ results \in [Orgs -> [status : Statuses \cup {"none", "canceled"}, err : BOOLEAN]]
    /\ \A i \in Orgs : probe[i] = "new" <=> i >= next
    /\ \A i \in Orgs : probe[i] \in {"written", "released", "done"} =>
          results[i].status \in Statuses /\ (results[i].err <=> results[i].status # "2xx")
    /\ lpc # "loop" => \A i \in Orgs : probe[i] = "new" =>
          results[i].status = "canceled" /\ results[i].err
    /\ lpc \in {"report", "end"} => \A i \in Orgs : probe[i] \in {"new", "done"}
    /\ exit # "none" => lpc = "end"
    /\ exit = "ok" => ToSet(report) = Orgs /\ (Stdout => Flagged = {})

-----------------------------------------------------------------------------
(* Operators.                                                              *)

\* A list of orgs in the order of the report is a list of all of them.
LEMMA InOrderIsComplete ==
    ASSUME NEW rows \in [Orgs -> Orgs], InOrder(rows),
           \A i \in Orgs : Priority(i) \in Nat
    PROVE  ToSet(rows) = Orgs
<1>1. Orgs \subseteq Nat /\ \A i, j \in Orgs : i < j \/ i = j \/ j < i BY DEF Orgs
<1>2. IsFiniteSet(Orgs) BY LinkCheckAssumption, FS_Interval DEF Orgs
<1>3. ASSUME NEW i \in Orgs, NEW j \in Orgs, i < j PROVE rows[i] # rows[j]
  <2>1. Before(rows[i], rows[j]) BY <1>3 DEF InOrder
  <2>2. rows[i] \in Orgs /\ rows[i] \in Nat /\ Priority(rows[i]) \in Nat BY <1>1
  <2> QED BY <2>1, <2>2 DEF Before
<1>4. rows \in Injection(Orgs, Orgs)
  <2>1. \A i, j \in Orgs : rows[i] = rows[j] => i = j BY <1>1, <1>3
  <2> QED BY <2>1 DEF Injection, IsInjective
<1>5. rows \in Surjection(Orgs, Orgs) BY <1>2, <1>4, FS_Injection
<1> QED BY <1>5 DEF Surjection, ToSet

\* The priority of an org is 0 or 1.
LEMMA PriorityType == \A i \in Orgs : Priority(i) \in Nat
  BY DEF Priority

\* The Result of a request that got a status.
LEMMA ResultFields ==
    \A s \in Statuses :
        /\ Result(s) \in [status : Statuses \cup {"none", "canceled"}, err : BOOLEAN]
        /\ Result(s).status = s /\ (Result(s).err <=> s # "2xx")
<1> SUFFICES ASSUME NEW s \in Statuses
             PROVE  /\ Result(s) \in [status : Statuses \cup {"none", "canceled"}, err : BOOLEAN]
                    /\ Result(s).status = s /\ (Result(s).err <=> s # "2xx")
  OBVIOUS
<1>1. (s # "2xx") \in BOOLEAN OBVIOUS
<1> QED BY <1>1, Zenon DEF Result

-----------------------------------------------------------------------------
(* etl download.                                                           *)

\* A download starts with no source passed.
LEMMA DownloadInitInv == OperatorInit => DownloadInv
  BY DEF OperatorInit, DownloadInit, DownloadInv, Staged, Contents, Ended

\* Every step of a download keeps the invariant.
LEMMA DownloadStepInv == DownloadInv /\ DownloadNext => DownloadInv'
<1> SUFFICES ASSUME DownloadInv, DownloadNext PROVE DownloadInv'
  OBVIOUS
<1> USE DownloadAssumption
<1>0. \A i \in DOMAIN Plan : Plan[i].file \in Files BY DEF Files
<1>1. ASSUME NEW t \in Targets, StartDownload(t) PROVE DownloadInv'
  BY <1>1 DEF StartDownload, DownloadInv, Ended
<1>2. CASE SkipSource
  BY <1>2 DEF SkipSource, DownloadInv, Ended, Needed, Dst
<1>3. CASE DownloadDone
  BY <1>3 DEF DownloadDone, DownloadInv, Ended, Needed, Dst
<1>4. CASE CheckCached
  BY <1>4 DEF CheckCached, DownloadInv, Ended, Needed, Dst
<1>5. CASE FetchUnavailable \/ CopyCutShort
  BY <1>5 DEF FetchUnavailable, CopyCutShort, Transient, DownloadInv, Ended, Needed, Dst
<1>6. CASE FetchRefused \/ BackoffCanceled
  BY <1>6 DEF FetchRefused, BackoffCanceled, Permanent, DownloadInv, Ended
<1>7. CASE FetchBegins
  BY <1>0, <1>7 DEF FetchBegins, DownloadInv, Ended, Needed, Dst, Contents
<1>8. CASE CloseFails \/ CopyMismatch
  BY <1>8 DEF CloseFails, CopyMismatch, Permanent, DownloadInv, Ended, Contents
<1>9. CASE CopyPinned
  BY <1>0, <1>9 DEF CopyPinned, DownloadInv, Ended, Needed, Dst, Contents
<1>10. CASE BackoffEnds
  BY <1>10 DEF BackoffEnds, DownloadInv, Ended, Needed, Dst
<1>11. CASE Cancel
  BY <1>11 DEF Cancel, DownloadInv, Ended, Needed, Dst
<1>12. CASE Kill
  BY <1>12 DEF Kill, DownloadInv, Ended
<1> QED
  BY <1>1, <1>2, <1>3, <1>4, <1>5, <1>6, <1>7, <1>8, <1>9, <1>10, <1>11, <1>12
  DEF DownloadNext, DownloadStep

\* The other commands do not touch a download.
LEMMA DownloadStutter == DownloadInv /\ UNCHANGED dvars => DownloadInv'
  BY DEF DownloadInv, dvars, Needed, Dst

-----------------------------------------------------------------------------
(* linkcheck.                                                              *)

\* A link check starts with no goroutine.
LEMMA LinkInitInv == OperatorInit => LinkInv
<1> SUFFICES ASSUME OperatorInit PROVE LinkInv
  OBVIOUS
<1> USE DEF OperatorInit, LinkInit
<1>1. \A i \in Orgs : i >= next BY DEF Orgs
<1> QED BY <1>1, LinkCheckAssumption DEF LinkInv, NoResult

\* A step that leaves the report and the command alone and writes results
\* only through the goroutines: what LinkInv says about them.
LEMMA ProbeStepInv ==
    ASSUME LinkInv, NEW i \in Orgs, ProbeStep(i)
    PROVE  LinkInv'
<1>1. /\ UNCHANGED <<lpc, next, report, exit>> /\ probe[i] \notin {"new", "done"}
      /\ probe' \in [Orgs -> {"new", "head", "get", "written", "released", "done"}]
      /\ probe'[i] # "new" /\ \A j \in Orgs \ {i} : probe'[j] = probe[j]
  BY DEF LinkInv, ProbeStep, HeadRequest, GetRequest, Release, Done, Answered
<1>2. lpc \in {"loop", "wait"} /\ exit = "none" BY <1>1 DEF LinkInv
<1>3. /\ results' \in [Orgs -> [status : Statuses \cup {"none", "canceled"}, err : BOOLEAN]]
      /\ \A j \in Orgs \ {i} : results'[j] = results[j]
  <2>1. ASSUME NEW s \in Statuses
        PROVE  Result(s) \in [status : Statuses \cup {"none", "canceled"}, err : BOOLEAN]
    BY ResultFields
  <2>2. UNCHANGED results \/ \E s \in Statuses : results' = [results EXCEPT ![i] = Result(s)]
    BY DEF ProbeStep, HeadRequest, GetRequest, Release, Done, Answered
  <2>3. results \in [Orgs -> [status : Statuses \cup {"none", "canceled"}, err : BOOLEAN]]
    BY DEF LinkInv
  <2> QED BY <2>1, <2>2, <2>3
<1>4. probe'[i] \in {"written", "released", "done"} =>
        results'[i].status \in Statuses /\ (results'[i].err <=> results'[i].status # "2xx")
  <2>1. CASE HeadRequest(i) \/ GetRequest(i)
    <3>1. \/ probe' = [probe EXCEPT ![i] = "get"]
          \/ \E s \in Statuses : results' = [results EXCEPT ![i] = Result(s)]
      BY <2>1 DEF HeadRequest, GetRequest, Answered
    <3>2. CASE probe' = [probe EXCEPT ![i] = "get"] BY <3>2 DEF LinkInv
    <3>3. ASSUME NEW s \in Statuses, results' = [results EXCEPT ![i] = Result(s)]
          PROVE  results'[i].status \in Statuses /\ (results'[i].err <=> results'[i].status # "2xx")
      <4>1. results'[i] = Result(s) BY <3>3 DEF LinkInv
      <4> QED BY <4>1, ResultFields
    <3> QED BY <3>1, <3>2, <3>3
  <2>2. CASE Release(i) \/ Done(i) BY <2>2 DEF LinkInv, Release, Done
  <2> QED BY <2>1, <2>2 DEF ProbeStep
<1> QED BY <1>1, <1>2, <1>3, <1>4 DEF LinkInv

\* A step of Check, of the command around it, or a signal.
LEMMA CheckStepInv ==
    ASSUME LinkInv, CheckStep \/ Interrupt
    PROVE  LinkInv'
<1> USE LinkCheckAssumption
<1>1. CASE Launch
  <2>1. next \in Orgs /\ next' = next + 1 /\ next \in Nat BY <1>1 DEF Launch, LinkInv, Orgs
  <2>2. \A i \in Orgs : i \in Nat BY DEF Orgs
  <2> QED BY <1>1, <2>1, <2>2 DEF Launch, LinkInv, Flagged
<1>2. CASE BailOut
  <2>1. \A i \in Orgs : probe'[i] = probe[i] /\ (probe[i] = "new" <=> i >= next)
    BY <1>2 DEF BailOut, LinkInv
  <2>2. \A i \in Orgs :
          results'[i] = IF i >= next THEN [status |-> "canceled", err |-> TRUE] ELSE results[i]
    BY <1>2 DEF BailOut
  <2>3. results' \in [Orgs -> [status : Statuses \cup {"none", "canceled"}, err : BOOLEAN]]
    BY <1>2 DEF BailOut, LinkInv
  <2>4. lpc' = "wait" /\ exit' = "none" /\ UNCHANGED <<next, probe>> BY <1>2 DEF BailOut, LinkInv
  <2> QED BY <2>1, <2>2, <2>3, <2>4 DEF LinkInv
<1>3. CASE LoopEnds
  <2>1. \A i \in Orgs : ~(i >= next) BY <1>3 DEF LoopEnds, LinkInv, Orgs
  <2> QED BY <1>3, <2>1 DEF LoopEnds, LinkInv, Flagged
<1>4. CASE Wait BY <1>4 DEF Wait, LinkInv, Flagged
<1>5. CASE Report
  <2>1. ToSet(report') = Orgs BY <1>5, InOrderIsComplete, PriorityType DEF Report
  <2>2. exit' = "ok" => (Stdout => Flagged = {}) BY <1>5 DEF Report
  <2>3. UNCHANGED <<next, probe, results>> /\ lpc = "report" /\ lpc' = "end" BY <1>5 DEF Report
  <2>4. Flagged' = Flagged BY <2>3 DEF Flagged
  <2> QED BY <2>1, <2>2, <2>3, <2>4 DEF LinkInv
<1>6. CASE ReportFails BY <1>6 DEF ReportFails, LinkInv
<1>7. CASE Interrupt BY <1>7 DEF Interrupt, LinkInv, Flagged
<1> QED BY <1>1, <1>2, <1>3, <1>4, <1>5, <1>6, <1>7 DEF CheckStep

\* The other commands do not touch a link check.
LEMMA LinkStutter == LinkInv /\ UNCHANGED lvars => LinkInv'
  BY DEF LinkInv, lvars, Flagged

-----------------------------------------------------------------------------
(* The theorems.                                                           *)

\* Every reachable state satisfies the two invariants.
THEOREM OperatorInvariance == OperatorSpec => [](DownloadInv /\ LinkInv)
<1>1. OperatorInit => DownloadInv /\ LinkInv BY DownloadInitInv, LinkInitInv
<1>2. DownloadInv /\ LinkInv /\ [OperatorNext]_vars => (DownloadInv /\ LinkInv)'
  <2> SUFFICES ASSUME DownloadInv, LinkInv, [OperatorNext]_vars PROVE DownloadInv' /\ LinkInv'
    OBVIOUS
  <2>1. CASE Downloading(DownloadNext)
    BY <2>1, DownloadStepInv, LinkStutter DEF Downloading
  <2>2. CASE Regenerating(RegenerateNext)
    BY <2>2, DownloadStutter, LinkStutter DEF Regenerating
  <2>3. CASE Checking(LinkNext)
    <3>1. UNCHANGED dvars /\ LinkNext BY <2>3 DEF Checking
    <3>2. LinkInv' BY <3>1, CheckStepInv, ProbeStepInv DEF LinkNext
    <3> QED BY <3>1, <3>2, DownloadStutter
  <2>4. CASE UNCHANGED vars BY <2>4, DownloadStutter, LinkStutter DEF vars
  <2> QED BY <2>1, <2>2, <2>3, <2>4 DEF OperatorNext
<1> QED BY <1>1, <1>2, PTL DEF OperatorSpec

\* A download that returns nil has every source the target needs in its pinned
\* version, for any plan and number of attempts: a file with a mismatch, or
\* one left by a cut or a killed invocation, is never taken for a good one,
\* and no later source overwrites one that was checked.
THEOREM DownloadVerified == OperatorSpec => []DownloadNilVerified
<1>1. DownloadInv => DownloadNilVerified
  <2> SUFFICES ASSUME DownloadInv, dpc = "nil", NEW i \in DOMAIN Plan, Needed(i)
               PROVE  files[Plan[i].file] = "pinned"
    BY DEF DownloadNilVerified
  <2>1. pos > Len(Plan) /\ pos \in Nat BY DEF DownloadInv
  <2>2. i < pos BY <2>1, DownloadAssumption
  <2> QED BY <2>2 DEF DownloadInv
<1> QED BY <1>1, OperatorInvariance, PTL

\* A link check that returns has left no goroutine, a result for every org and,
\* with a nil error, a report with every org in it, for any list and pool.
THEOREM LinkReportComplete == OperatorSpec => []EveryOrgReported
<1>1. LinkInv => EveryOrgReported
  <2> SUFFICES ASSUME LinkInv, lpc \in {"report", "end"}
               PROVE  /\ \A i \in Orgs :
                          \/ probe[i] = "done" /\ results[i].status \in Statuses
                          \/ probe[i] = "new" /\ results[i].status = "canceled"
                      /\ exit = "ok" => ToSet(report) = Orgs
                      /\ exit = "ok" /\ Stdout => \A i \in Orgs : results[i].status = "2xx"
    BY DEF EveryOrgReported
  <2>1. ASSUME NEW i \in Orgs
        PROVE  \/ probe[i] = "done" /\ results[i].status \in Statuses
               \/ probe[i] = "new" /\ results[i].status = "canceled"
    BY DEF LinkInv
  <2>2. ASSUME exit = "ok", Stdout, NEW i \in Orgs PROVE results[i].status = "2xx"
    <3>1. ~results[i].err BY <2>2 DEF LinkInv, Flagged
    <3>2. probe[i] = "done" BY <3>1 DEF LinkInv
    <3> QED BY <3>1, <3>2 DEF LinkInv
  <2> QED BY <2>1, <2>2 DEF LinkInv
<1> QED BY <1>1, OperatorInvariance, PTL

=============================================================================
