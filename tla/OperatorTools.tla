--------------------------- MODULE OperatorTools ---------------------------
(***************************************************************************)
(* The subcommands of api/cmd/server an operator runs beside the server:   *)
(* `etl download`, `etl regenerate` and `linkcheck`.  A process runs one   *)
(* of them, and they share no state.                                       *)
(***************************************************************************)
EXTENDS EtlDownload, EtlRegenerate, LinkCheck

VARIABLE tool

vars == <<tool, dvars, rvars, lvars>>

OperatorInit ==
    /\ tool \in {"download", "regenerate", "linkcheck"}
    /\ DownloadInit(IF tool = "download" THEN Staged ELSE {[f \in Files |-> "absent"]})
    /\ RegenerateInit(IF tool = "regenerate" THEN Inputs ELSE {[country |-> "none"]})
    /\ LinkInit

Downloading(A)  == tool = "download" /\ A /\ UNCHANGED <<tool, rvars, lvars>>
Regenerating(A) == tool = "regenerate" /\ A /\ UNCHANGED <<tool, dvars, lvars>>
Checking(A)     == tool = "linkcheck" /\ A /\ UNCHANGED <<tool, dvars, rvars>>

OperatorNext == Downloading(DownloadNext) \/ Regenerating(RegenerateNext) \/ Checking(LinkNext)

\* A process that runs takes its next step: requests end at the client's
\* timeout, the backoff is a timer, and every goroutine is scheduled.
OperatorSpec ==
    /\ OperatorInit /\ [][OperatorNext]_vars
    /\ WF_vars(Downloading(DownloadStep))
    /\ WF_vars(Checking(CheckStep))
    /\ \A i \in Orgs : WF_vars(Checking(ProbeStep(i)))

\* The commands that wait for the network end: a download against a server that
\* never answers gives up after its attempts, and a link check returns although
\* its probes hold all the slots, fail or are canceled at any point.
NetworkCommandsEnd ==
    /\ (dpc \notin Ended) ~> (dpc \in Ended)
    /\ (tool = "linkcheck") ~> (lpc = "end")

=============================================================================
