----------------------------- MODULE LinkCheck -----------------------------
(***************************************************************************)
(* `linkcheck`: Check's bounded pool of probes                             *)
(* (api/internal/linkcheck/linkcheck.go) and the report and exit status of *)
(* the command around it (api/cmd/server/linkcheck.go).  A goroutine       *)
(* writes its result, frees its slot and leaves the WaitGroup in separate  *)
(* steps; a status stands for the class probe and the report tell apart.   *)
(***************************************************************************)
EXTENDS Naturals, FiniteSets, SequencesExt

CONSTANTS
    NumOrgs,      \* entries of orgs.toml; an org is its position, and its slug
    Concurrency,  \* Options.Concurrency, defaulted
    Stdout        \* --out is "-"

ASSUME LinkCheckAssumption ==
    /\ NumOrgs \in Nat /\ Concurrency \in Nat \ {0}
    /\ Stdout \in BOOLEAN

Orgs == 1 .. NumOrgs

VARIABLES
    lpc,       \* Check and runLinkcheck
    next,      \* the loop's index i
    sem,       \* slots taken
    probe,     \* each org's goroutine
    results,   \* each org's Result: its status and whether Err is set
    report,    \* the rows of the TSV
    exit,      \* what the command returned
    stop       \* the context is canceled

lvars == <<lpc, next, sem, probe, results, report, exit, stop>>

NoResult == [status |-> "none", err |-> FALSE]
Statuses == {"2xx", "3xx", "403/405", "error"}

\* The Result of a request: a transport error has status 0, any status but
\* 2xx is an error too.
Result(status) == [status |-> status, err |-> status # "2xx"]

LinkInit ==
    /\ lpc = "loop" /\ next = 1 /\ sem = 0
    /\ probe = [i \in Orgs |-> "new"]
    /\ results = [i \in Orgs |-> NoResult]
    /\ report = <<>> /\ exit = "none" /\ stop = FALSE

-----------------------------------------------------------------------------
\* select takes a free slot, also when the context is done.
Launch ==
    /\ lpc = "loop" /\ next <= NumOrgs
    /\ sem < Concurrency
    /\ sem' = sem + 1
    /\ probe' = [probe EXCEPT ![next] = "head"]
    /\ next' = next + 1
    /\ UNCHANGED <<lpc, results, report, exit, stop>>

\* select takes ctx.Done: the remaining orgs get the cause as their result.
BailOut ==
    /\ lpc = "loop" /\ next <= NumOrgs
    /\ stop
    /\ results' = [i \in Orgs |->
                      IF i >= next THEN [status |-> "canceled", err |-> TRUE] ELSE results[i]]
    /\ lpc' = "wait"
    /\ UNCHANGED <<next, sem, probe, report, exit, stop>>

LoopEnds ==
    /\ lpc = "loop" /\ next > NumOrgs
    /\ lpc' = "wait"
    /\ UNCHANGED <<next, sem, probe, results, report, exit, stop>>

Answered(i, status) ==
    /\ probe' = [probe EXCEPT ![i] = "written"]
    /\ results' = [results EXCEPT ![i] = Result(status)]

\* HEAD; a host that refuses the method is asked again with GET.  The request
\* fails at the latest when the timeout or the context ends it.
HeadRequest(i) ==
    /\ probe[i] = "head"
    /\ \E status \in Statuses :
        IF status = "403/405"
        THEN probe' = [probe EXCEPT ![i] = "get"] /\ UNCHANGED results
        ELSE Answered(i, status)
    /\ UNCHANGED <<lpc, next, sem, report, exit, stop>>

GetRequest(i) ==
    /\ probe[i] = "get"
    /\ \E status \in Statuses : Answered(i, status)
    /\ UNCHANGED <<lpc, next, sem, report, exit, stop>>

Release(i) ==
    /\ probe[i] = "written"
    /\ probe' = [probe EXCEPT ![i] = "released"]
    /\ sem' = sem - 1
    /\ UNCHANGED <<lpc, next, results, report, exit, stop>>

Done(i) ==
    /\ probe[i] = "released"
    /\ probe' = [probe EXCEPT ![i] = "done"]
    /\ UNCHANGED <<lpc, next, sem, results, report, exit, stop>>

\* Mutant: Check waits for the slots, not for the goroutines.
WaitForSlots ==
    /\ lpc = "wait" /\ sem <= 1
    /\ lpc' = "report"
    /\ UNCHANGED <<next, sem, probe, results, report, exit, stop>>

\* wg.Wait returns when every goroutine has left, and Check with it.
Wait ==
    /\ lpc = "wait"
    /\ \A i \in Orgs : probe[i] \in {"new", "done"}
    /\ lpc' = "report"
    /\ UNCHANGED <<next, sem, probe, results, report, exit, stop>>

\* linkcheckPriority: transport errors and HTTP >= 400 first, then the rest.
Priority(i) == IF results[i].status \in {"none", "canceled", "error", "403/405"} THEN 0 ELSE 1
Before(i, j) == Priority(i) < Priority(j) \/ (Priority(i) = Priority(j) /\ i < j)
Flagged == {i \in Orgs : results[i].err}

\* The order of the report: by priority, then by slug.
InOrder(rows) == \A i, j \in Orgs : i < j => Before(rows[i], rows[j])

\* The report is written; a flagged row fails the command only when the
\* report goes to the terminal.
Report ==
    /\ lpc = "report"
    /\ \E rows \in [Orgs -> Orgs] : InOrder(rows) /\ report' = rows
    /\ exit' = IF Stdout /\ Flagged # {} THEN "flagged" ELSE "ok"
    /\ lpc' = "end"
    /\ UNCHANGED <<next, sem, probe, results, stop>>

\* The output file cannot be created, or a write fails.
ReportFails ==
    /\ lpc = "report"
    /\ exit' = "failed" /\ lpc' = "end"
    /\ UNCHANGED <<next, sem, probe, results, report, stop>>

Interrupt ==
    /\ lpc # "end" /\ ~stop
    /\ stop' = TRUE
    /\ UNCHANGED <<lpc, next, sem, probe, results, report, exit>>

CheckStep ==
    \/ Launch \/ BailOut \/ LoopEnds \/ Wait \/ Report \/ ReportFails

ProbeStep(i) == HeadRequest(i) \/ GetRequest(i) \/ Release(i) \/ Done(i)

LinkNext == CheckStep \/ Interrupt \/ \E i \in Orgs : ProbeStep(i)

-----------------------------------------------------------------------------
\* "each input keeps a result row": when Check returns, canceled or not, no
\* goroutine is left that could still write, an org that was probed has what
\* its probe found, every other the cancellation, and a report on the terminal
\* that ends without an error is one in which every site answered 2xx.
EveryOrgReported ==
    lpc \in {"report", "end"} =>
        /\ \A i \in Orgs :
            \/ probe[i] = "done" /\ results[i].status \in Statuses
            \/ probe[i] = "new" /\ results[i].status = "canceled"
        /\ exit = "ok" => ToSet(report) = Orgs
        /\ exit = "ok" /\ Stdout => \A i \in Orgs : results[i].status = "2xx"

=============================================================================
