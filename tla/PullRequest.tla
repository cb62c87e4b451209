---------------------------- MODULE PullRequest ----------------------------
(***************************************************************************)
(* Worker.openPR against GitHub: the chain of calls that puts a            *)
(* submission's block at the end of orgs.toml on a branch of its own and   *)
(* opens a pull request (api/internal/githubpr/worker.go), run by the      *)
(* worker and, from another process, by `submissions retry-pr`             *)
(* (api/cmd/server/submissions.go).                                        *)
(*                                                                         *)
(* Each call is one step.  A call that changes GitHub may be applied and   *)
(* still be seen as failed (lost response, openPRTimeout).  A GET that     *)
(* doIdempotentRequest repeats is one step: what it read last.             *)
(*                                                                         *)
(* A version of orgs.toml is the sequence of blocks added to it since the  *)
(* start, and its blob SHA is the version itself.  Commit i of the base    *)
(* branch is base[i].                                                      *)
(***************************************************************************)
EXTENDS Naturals, Sequences, SequencesExt

CONSTANTS
    Subs,      \* approved submissions; a submission is also its block
    NoSub,
    Edit,      \* a block somebody else adds to orgs.toml
    Runners,   \* processes that run openPR
    MaxEdits   \* bound on what editors do to the repository

ASSUME PullRequestAssumption ==
    /\ NoSub \notin Subs /\ Edit \notin Subs
    /\ MaxEdits \in Nat

VARIABLES
    base,        \* GitHub: the commits of the base branch
    branch,      \* GitHub: each submission's branch: fork commit (0: none), file
    prs,         \* GitHub: the pull requests opened for each submission
    edits,       \* number of editor actions so far
    url, err,    \* promotion_pr_url (0: empty) and promotion_error is set
    pc, sub,     \* openPR: where each runner is, and its submission
    sha,         \* openPR: baseSHA
    existing,    \* openPR: the file read from the base branch
    found,       \* openPR: the URL to return
    cutOff       \* submissions of which a run ended without recording

gitVars == <<base, branch, prs, edits>>
rowVars == <<url, err>>
runVars == <<pc, sub, sha, existing, found>>
pvars   == <<gitVars, rowVars, runVars, cutOff>>

Absent == [fork |-> 0, file |-> <<>>]
Steps  == {"idle", "sha", "file", "create", "reset", "put", "pr", "find", "persist"}

PRInit ==
    /\ base = << <<>> >>
    /\ branch = [s \in Subs |-> Absent]
    /\ prs = [s \in Subs |-> <<>>]
    /\ edits = 0
    /\ url = [s \in Subs |-> 0] /\ err = [s \in Subs |-> FALSE]
    /\ pc = [r \in Runners |-> "idle"]
    /\ sub = [r \in Runners |-> NoSub]
    /\ sha = [r \in Runners |-> 0]
    /\ existing = [r \in Runners |-> <<>>]
    /\ found = [r \in Runners |-> 0]
    /\ cutOff = {}

-----------------------------------------------------------------------------
(* What GitHub answers.                                                    *)

OpenPRs(s) == {n \in 1 .. Len(prs[s]) : prs[s][n] = "open"}
Exists(s)  == branch[s].fork # 0
Ahead(s)   == Exists(s) /\ branch[s].file # base[branch[s].fork]

-----------------------------------------------------------------------------
Goto(r, step) == pc' = [pc EXCEPT ![r] = step]

\* openPR returns an error: found stays 0 and the outcome is persisted.
Fail(r) ==
    /\ Goto(r, "persist")
    /\ UNCHANGED <<gitVars, rowVars, sub, sha, existing, found, cutOff>>

\* The worker takes a job, or an operator runs retry-pr on an approved row.
Start(r, s) ==
    /\ pc[r] = "idle"
    /\ Goto(r, "sha")
    /\ sub' = [sub EXCEPT ![r] = s]
    /\ UNCHANGED <<gitVars, rowVars, sha, existing, found, cutOff>>

GetBranchSHA(r) ==
    /\ pc[r] = "sha"
    /\ sha' = [sha EXCEPT ![r] = Len(base)]
    /\ Goto(r, "file")
    /\ UNCHANGED <<gitVars, rowVars, sub, existing, found, cutOff>>

\* The file is read at the tip of the base branch, which may have moved
\* since GetBranchSHA; the block is rendered from the submission alone.
GetFile(r) ==
    /\ pc[r] = "file"
    /\ existing' = [existing EXCEPT ![r] = Last(base)]
    /\ Goto(r, "create")
    /\ UNCHANGED <<gitVars, rowVars, sub, sha, found, cutOff>>

PutBranch(r, b) ==
    /\ branch' = [branch EXCEPT ![sub[r]] = b]
    /\ \/ Goto(r, "put")
       \/ Goto(r, "persist")      \* applied, but the response was lost
    /\ UNCHANGED <<base, prs, edits>>

\* Mutant: a branch that already exists is an error.
CreateBranchOrFail(r) ==
    /\ pc[r] = "create"
    /\ \/ ~Exists(sub[r]) /\ PutBranch(r, [fork |-> sha[r], file |-> base[sha[r]]])
       \/ Exists(sub[r]) /\ Goto(r, "persist") /\ UNCHANGED gitVars
    /\ UNCHANGED <<rowVars, sub, sha, existing, found, cutOff>>

\* Mutant: a branch that already exists is used as it is.
CreateBranchKeeps(r) ==
    /\ pc[r] = "create"
    /\ \/ ~Exists(sub[r]) /\ PutBranch(r, [fork |-> sha[r], file |-> base[sha[r]]])
       \/ Exists(sub[r]) /\ Goto(r, "put") /\ UNCHANGED gitVars
    /\ UNCHANGED <<rowVars, sub, sha, existing, found, cutOff>>

\* 201, or 422 "reference already exists", on which the branch is reset.
CreateBranch(r) ==
    /\ pc[r] = "create"
    /\ \/ ~Exists(sub[r]) /\ PutBranch(r, [fork |-> sha[r], file |-> base[sha[r]]])
       \/ Exists(sub[r]) /\ Goto(r, "reset") /\ UNCHANGED gitVars
    /\ UNCHANGED <<rowVars, sub, sha, existing, found, cutOff>>

\* PATCH with force: true; 422 if the branch has gone.
ResetBranch(r) ==
    /\ pc[r] = "reset"
    /\ Exists(sub[r])
    /\ PutBranch(r, [fork |-> sha[r], file |-> base[sha[r]]])
    /\ UNCHANGED <<rowVars, sub, sha, existing, found, cutOff>>

\* Mutant: the PUT does not send the blob SHA it expects to replace.
PutFileUnchecked(r) ==
    /\ pc[r] = "put"
    /\ Exists(sub[r])
    /\ branch' = [branch EXCEPT ![sub[r]].file = Append(existing[r], sub[r])]
    /\ Goto(r, "pr") \/ Goto(r, "persist")
    /\ UNCHANGED <<base, prs, edits, rowVars, sub, sha, existing, found, cutOff>>

\* GitHub applies the PUT only on the blob SHA it names (409 otherwise).
PutFile(r) ==
    /\ pc[r] = "put"
    /\ Exists(sub[r])
    /\ branch[sub[r]].file = existing[r]
    /\ branch' = [branch EXCEPT ![sub[r]].file = Append(existing[r], sub[r])]
    /\ Goto(r, "pr") \/ Goto(r, "persist")
    /\ UNCHANGED <<base, prs, edits, rowVars, sub, sha, existing, found, cutOff>>

\* 201; or 422 (a PR is open on this head, no commits between head and base,
\* no such head), on which the open PR is looked up.
CreatePR(r) ==
    /\ pc[r] = "pr"
    /\ \/ /\ Ahead(sub[r]) /\ OpenPRs(sub[r]) = {}
          /\ prs' = [prs EXCEPT ![sub[r]] = Append(@, "open")]
          /\ Goto(r, "persist")
          /\ \/ found' = [found EXCEPT ![r] = Len(prs'[sub[r]])]
             \/ UNCHANGED found   \* applied, but the response was lost
       \/ /\ ~(Ahead(sub[r]) /\ OpenPRs(sub[r]) = {})
          /\ Goto(r, "find")
          /\ UNCHANGED <<prs, found>>
    /\ UNCHANGED <<base, branch, edits, rowVars, sub, sha, existing, cutOff>>

FindOpenPR(r) ==
    /\ pc[r] = "find"
    /\ OpenPRs(sub[r]) # {}
    /\ \E n \in OpenPRs(sub[r]) : found' = [found EXCEPT ![r] = n]
    /\ Goto(r, "persist")
    /\ UNCHANGED <<gitVars, rowVars, sub, sha, existing, cutOff>>

\* A call that fails (transport, status, decoding, a render error, the
\* timeout) or finds nothing to act on ends the chain.
CallFails(r) ==
    /\ pc[r] \in Steps \ {"idle", "persist"}
    /\ Fail(r)

Finish(r) ==
    /\ pc' = [pc EXCEPT ![r] = "idle"]
    /\ sub' = [sub EXCEPT ![r] = NoSub]
    /\ sha' = [sha EXCEPT ![r] = 0]
    /\ existing' = [existing EXCEPT ![r] = <<>>]
    /\ found' = [found EXCEPT ![r] = 0]
    /\ UNCHANGED gitVars

\* AttachPromotionResult writes both columns.
Persist(r) ==
    /\ pc[r] = "persist"
    /\ url' = [url EXCEPT ![sub[r]] = found[r]]
    /\ err' = [err EXCEPT ![sub[r]] = (found[r] = 0)]
    /\ Finish(r)
    /\ UNCHANGED cutOff

\* The process dies, or AttachPromotionResult fails and is only logged.
CutOff(r) ==
    /\ pc[r] # "idle"
    /\ cutOff' = cutOff \cup {sub[r]}
    /\ Finish(r)
    /\ UNCHANGED rowVars

-----------------------------------------------------------------------------
(* Editors, in GitHub's user interface.                                    *)

Editing ==
    /\ edits < MaxEdits
    /\ edits' = edits + 1
    /\ UNCHANGED <<rowVars, runVars, cutOff>>

\* What merging s's branch makes of the file: a branch that only appends
\* adds what the base lacks, any other change replaces the file.
Merged(s) ==
    LET b == branch[s]
        old == base[b.fork]
    IN  IF IsPrefix(old, b.file)
        THEN IF IsPrefix(b.file, Last(base)) THEN Last(base)
             ELSE Last(base) \o SubSeq(b.file, Len(old) + 1, Len(b.file))
        ELSE b.file

MergePR(s) ==
    /\ Editing
    /\ Ahead(s)
    /\ \E n \in OpenPRs(s) : prs' = [prs EXCEPT ![s][n] = "merged"]
    /\ base' = Append(base, Merged(s))
    /\ branch' \in {branch, [branch EXCEPT ![s] = Absent]}

ClosePR(s) ==
    /\ Editing
    /\ \E n \in OpenPRs(s) : prs' = [prs EXCEPT ![s][n] = "closed"]
    /\ branch' \in {branch, [branch EXCEPT ![s] = Absent]}
    /\ UNCHANGED base

\* Some other commit, which may or may not touch orgs.toml.
OtherCommit ==
    /\ Editing
    /\ base' \in {Append(base, Last(base)), Append(base, Append(Last(base), Edit))}
    /\ UNCHANGED <<branch, prs>>

-----------------------------------------------------------------------------
CallStep(r) ==
    \/ GetBranchSHA(r) \/ GetFile(r) \/ CreateBranch(r) \/ ResetBranch(r)
    \/ PutFile(r) \/ CreatePR(r) \/ FindOpenPR(r) \/ Persist(r)

PRNext ==
    \/ \E r \in Runners, s \in Subs : Start(r, s)
    \/ \E r \in Runners : CallStep(r) \/ CallFails(r) \/ CutOff(r)
    \/ \E s \in Subs : MergePR(s) \/ ClosePR(s)
    \/ OtherCommit

PRSpec == PRInit /\ [][PRNext]_pvars

\* A call GitHub answers without losing the response.
Answered(r, A) ==
    A /\ (pc[r] \in {"create", "reset", "put"} => pc'[r] # "persist")
      /\ (pc[r] = "pr" /\ pc'[r] = "persist" => found'[r] # 0)

\* Operators go on retrying rows without a URL, and GitHub and the store do
\* not fail a call forever.
PRFairness ==
    /\ \A r \in Runners, s \in Subs : SF_pvars(Start(r, s))
    /\ \A r \in Runners :
        /\ WF_pvars(CallFails(r))
        /\ SF_pvars(GetBranchSHA(r))
        /\ SF_pvars(GetFile(r))
        /\ SF_pvars(Answered(r, CreateBranch(r)))
        /\ SF_pvars(Answered(r, ResetBranch(r)))
        /\ SF_pvars(Answered(r, PutFile(r)))
        /\ SF_pvars(Answered(r, CreatePR(r)))
        /\ SF_pvars(FindOpenPR(r))
        /\ SF_pvars(found[r] # 0 /\ Persist(r))
        /\ WF_pvars(Persist(r))

FairPRSpec == PRSpec /\ PRFairness

-----------------------------------------------------------------------------
PRTypeOK ==
    /\ base \in Seq(Seq(Subs \cup {Edit})) /\ base # <<>>
    /\ branch \in [Subs -> [fork : 0 .. Len(base), file : Seq(Subs \cup {Edit})]]
    /\ prs \in [Subs -> Seq({"open", "merged", "closed"})]
    /\ edits \in 0 .. MaxEdits
    /\ url \in [Subs -> Nat] /\ err \in [Subs -> BOOLEAN]
    /\ pc \in [Runners -> Steps]
    /\ sub \in [Runners -> Subs \cup {NoSub}]
    /\ sha \in [Runners -> 0 .. Len(base)]
    /\ existing \in [Runners -> Seq(Subs \cup {Edit})]
    /\ found \in [Runners -> Nat]
    /\ cutOff \in SUBSET Subs

\* A submission's branch only ever adds its own block to the version of the
\* base it forks from, although the base may move between GetBranchSHA and
\* GetFile, other runs reset and write the same branch, and responses get
\* lost: merging the pull request reverts nobody's edit.
BranchOnlyAddsOwnBlock ==
    \A s \in Subs : Exists(s) =>
        LET old == base[branch[s].fork]
            new == branch[s].file
        IN  /\ IsPrefix(old, new)
            /\ \A i \in Len(old) + 1 .. Len(new) : new[i] = s

\* The URL on a row is that of a pull request with the submission's block:
\* while that PR is open, its branch holds the block, unless a run is under
\* way or an earlier one was cut off.
RecordedPRHasBlock ==
    \A s \in Subs :
        /\ url[s] \in OpenPRs(s)
        /\ s \notin cutOff
        /\ \A r \in Runners : sub[r] # s
        => Ahead(s)

\* "The branch must hold main's current file plus the new block exactly once"
\* (worker_test.go, of a retry): with one run at a time, whatever earlier
\* runs left behind and however the base moved, a branch is a version of the
\* base with the block added once, or not yet.
BlockAddedOnce ==
    \A s \in Subs : Exists(s) =>
        branch[s].file \in {base[branch[s].fork], Append(base[branch[s].fork], s)}

\* With one run at a time, the row tells what the branch holds, and the branch
\* holds what an editor should merge.
PromotionSound == RecordedPRHasBlock /\ BlockAddedOnce

\* Whatever earlier runs left on GitHub, retrying ends with the PR's URL on
\* the row.
RetryConverges == \A s \in Subs : <>(url[s] # 0)

=============================================================================
