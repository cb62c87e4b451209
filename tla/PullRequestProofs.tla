-------------------------- MODULE PullRequestProofs --------------------------
(***************************************************************************)
(* Safety of openPR for any submissions, any number of runners and any     *)
(* number of edits: what a branch may hold under concurrent runs, and what *)
(* the row says when runs do not overlap.                                  *)
(***************************************************************************)
EXTENDS PullRequest, SequenceTheorems, TLAPS

Blocks == Subs \cup {Edit}

-----------------------------------------------------------------------------
(* The inductive invariants.                                               *)

\* A runner has a submission exactly while it is not idle, and one past
\* GetBranchSHA has a commit of the base branch.
RunInv ==
    \A r \in Runners :
        /\ pc[r] = "idle" => sub[r] = NoSub
        /\ pc[r] # "idle" => sub[r] \in Subs
        /\ pc[r] \in Steps \ {"idle", "sha", "persist"} => sha[r] # 0

PRInv == PRTypeOK /\ RunInv /\ BranchOnlyAddsOwnBlock

\* Before it writes the file, a run's branch is the commit it forked from;
\* once it has written it, the branch is ahead of the base.
PutInv ==
    \A r \in Runners :
        /\ pc[r] = "put" /\ Exists(sub[r]) =>
               branch[sub[r]] = [fork |-> sha[r], file |-> base[sha[r]]]
        /\ pc[r] \in {"pr", "find"} /\ Exists(sub[r]) => Ahead(sub[r])

\* A run returns a URL only as its last step, of a PR that has the block
\* while it is open.
FoundInv ==
    \A r \in Runners :
        /\ pc[r] # "persist" => found[r] = 0
        /\ pc[r] = "persist" /\ found[r] \in OpenPRs(sub[r]) => Ahead(sub[r])

\* At most one PR is open on a head, and its head exists.
OpenInv ==
    \A s \in Subs :
        /\ \A m, n \in OpenPRs(s) : m = n
        /\ OpenPRs(s) # {} => Exists(s)

SoloInv == PutInv /\ FoundInv /\ OpenInv /\ PromotionSound

-----------------------------------------------------------------------------
(* Operators.                                                              *)

\* new is old with copies of s added at its end.
Extends(old, new, s) ==
    /\ IsPrefix(old, new)
    /\ \A i \in Len(old) + 1 .. Len(new) : new[i] = s

\* IsPrefix compares element by element.
LEMMA PrefixElements ==
    ASSUME NEW S, NEW s \in Seq(S), NEW t \in Seq(S)
    PROVE  IsPrefix(s, t) <=> Len(s) <= Len(t) /\ \A i \in 1 .. Len(s) : s[i] = t[i]
<1>1. Len(s) \in Nat /\ Len(t) \in Nat BY LenProperties
<1>2. SubSeq(s, 1, Len(s)) = s BY SubSeqFull
<1>3. ASSUME Len(s) <= Len(t)
      PROVE  SubSeq(t, 1, Len(s)) = s <=> \A i \in 1 .. Len(s) : s[i] = t[i]
  <2>1. \A i \in 1 .. Len(s) : t[i] \in S BY <1>1, <1>3, ElementOfSeq
  <2>2. /\ SubSeq(t, 1, Len(s)) \in Seq(S)
        /\ Len(SubSeq(t, 1, Len(s))) = IF 1 <= Len(s) THEN Len(s) - 1 + 1 ELSE 0
        /\ \A i \in 1 .. Len(s) - 1 + 1 : SubSeq(t, 1, Len(s))[i] = t[1 + i - 1]
    BY <1>1, <2>1, SubSeqProperties
  <2>3. Len(SubSeq(t, 1, Len(s))) = Len(s) BY <1>1, <2>2
  <2>4. \A i \in 1 .. Len(s) : SubSeq(t, 1, Len(s))[i] = t[i]
    <3> TAKE i \in 1 .. Len(s)
    <3>1. i \in 1 .. Len(s) - 1 + 1 /\ 1 + i - 1 = i BY <1>1
    <3> QED BY <2>2, <3>1
  <2>5. (\A i \in 1 .. Len(s) : s[i] = t[i]) => SubSeq(t, 1, Len(s)) = s
    BY <2>2, <2>3, <2>4, SeqEqual
  <2> QED BY <2>4, <2>5
<1> QED BY <1>2, <1>3 DEF IsPrefix

\* A file extends itself, with nothing added.
LEMMA ExtendsSelf ==
    ASSUME NEW S, NEW old \in Seq(S), NEW s
    PROVE  Extends(old, old, s)
<1>1. Len(old) \in Nat BY LenProperties
<1> QED BY <1>1, PrefixElements DEF Extends

\* Appending the block once more keeps a file an extension.
LEMMA ExtendsAppend ==
    ASSUME NEW S, NEW old \in Seq(S), NEW new \in Seq(S), NEW s \in S,
           Extends(old, new, s)
    PROVE  Extends(old, Append(new, s), s)
<1>1. Len(old) \in Nat /\ Len(new) \in Nat BY LenProperties
<1>2. /\ Append(new, s) \in Seq(S) /\ Len(Append(new, s)) = Len(new) + 1
      /\ \A i \in 1 .. Len(new) : Append(new, s)[i] = new[i]
      /\ Append(new, s)[Len(new) + 1] = s
  BY <1>1
<1>3. Len(old) <= Len(new) /\ \A i \in 1 .. Len(old) : old[i] = new[i]
  BY PrefixElements DEF Extends
<1>4. IsPrefix(old, Append(new, s))
  <2>1. Len(old) <= Len(Append(new, s)) BY <1>1, <1>2, <1>3
  <2>2. \A i \in 1 .. Len(old) : old[i] = Append(new, s)[i] BY <1>1, <1>2, <1>3
  <2> QED BY <1>2, <2>1, <2>2, PrefixElements
<1>5. \A i \in Len(old) + 1 .. Len(Append(new, s)) : Append(new, s)[i] = s
  <2> TAKE i \in Len(old) + 1 .. Len(Append(new, s))
  <2>1. CASE i \in Len(old) + 1 .. Len(new) BY <1>1, <1>2, <2>1 DEF Extends
  <2>2. CASE i = Len(new) + 1 BY <1>2, <2>2
  <2> QED BY <1>1, <1>2, <2>1, <2>2
<1> QED BY <1>4, <1>5 DEF Extends

\* The invariant on branches, one submission at a time.
LEMMA BranchOnlyAdds ==
    BranchOnlyAddsOwnBlock <=>
        \A s \in Subs : Exists(s) => Extends(base[branch[s].fork], branch[s].file, s)
  BY DEF BranchOnlyAddsOwnBlock, Extends

\* What a merge makes of the file is a file.
LEMMA MergedType ==
    ASSUME PRTypeOK, NEW s \in Subs, Exists(s)
    PROVE  Merged(s) \in Seq(Blocks)
<1> DEFINE b == branch[s]
           old == base[b.fork]
<1>1. /\ b.file \in Seq(Blocks) /\ b.fork \in 1 .. Len(base)
      /\ base \in Seq(Seq(Blocks)) /\ Len(base) \in Nat \ {0}
  BY EmptySeq DEF PRTypeOK, Blocks, Exists
<1>2. old \in Seq(Blocks) /\ Last(base) \in Seq(Blocks)
  BY <1>1, ElementOfSeq DEF Last
<1>3. Len(old) \in Nat /\ Len(b.file) \in Nat BY <1>1, <1>2, LenProperties
<1>4. SubSeq(b.file, Len(old) + 1, Len(b.file)) \in Seq(Blocks)
  <2>1. \A i \in Len(old) + 1 .. Len(b.file) : b.file[i] \in Blocks
    BY <1>1, <1>3, ElementOfSeq
  <2> QED BY <1>3, <2>1, SubSeqProperties
<1>5. Last(base) \o SubSeq(b.file, Len(old) + 1, Len(b.file)) \in Seq(Blocks)
  BY <1>2, <1>4, ConcatProperties
<1> QED BY <1>1, <1>2, <1>5 DEF Merged

-----------------------------------------------------------------------------
(* Any number of runners.                                                  *)

\* The base branch after a step: its old commits, perhaps with one more.
Grown ==
    /\ base' \in Seq(Seq(Blocks)) /\ base' # <<>>
    /\ Len(base) \in Nat \ {0} /\ Len(base') \in Nat /\ Len(base) <= Len(base')
    /\ \A i \in 1 .. Len(base) : base'[i] = base[i]

\* Adding a commit keeps the earlier ones.
LEMMA AppendGrows ==
    ASSUME PRTypeOK, NEW f \in Seq(Blocks), base' = Append(base, f)
    PROVE  Grown
<1>1. base \in Seq(Seq(Blocks)) /\ Len(base) \in Nat \ {0}
  BY EmptySeq DEF PRTypeOK, Blocks
<1>2. /\ base' \in Seq(Seq(Blocks)) /\ Len(base') = Len(base) + 1
      /\ \A i \in 1 .. Len(base) : base'[i] = base[i]
  BY <1>1
<1> QED BY <1>1, <1>2 DEF Grown

\* The base branch never loses a commit: editors only add to it.
LEMMA BaseGrows ==
    ASSUME PRInv, [PRNext]_pvars
    PROVE  Grown
<1>0. /\ PRTypeOK /\ base \in Seq(Seq(Blocks)) /\ base # <<>>
      /\ Len(base) \in Nat \ {0}
  BY EmptySeq DEF PRInv, PRTypeOK, Blocks
<1>1. ASSUME UNCHANGED base PROVE Grown
  BY <1>0, <1>1 DEF Grown
<1>2. ASSUME NEW s \in Subs, MergePR(s) PROVE Grown
  <2>1. Exists(s) /\ base' = Append(base, Merged(s)) BY <1>2 DEF MergePR, Ahead
  <2> QED BY <1>0, <2>1, MergedType, AppendGrows
<1>3. ASSUME OtherCommit PROVE Grown
  <2>1. Last(base) \in Seq(Blocks) BY <1>0, ElementOfSeq DEF Last
  <2>2. Append(Last(base), Edit) \in Seq(Blocks) BY <2>1 DEF Blocks
  <2>3. base' \in {Append(base, Last(base)), Append(base, Append(Last(base), Edit))}
    BY <1>3 DEF OtherCommit
  <2> QED BY <1>0, <2>1, <2>2, <2>3, AppendGrows
<1>4. UNCHANGED base
      \/ (\E s \in Subs : MergePR(s)) \/ OtherCommit
  <2>1. ASSUME NEW r \in Runners, NEW s \in Subs, Start(r, s) PROVE UNCHANGED base
    BY <2>1 DEF Start, gitVars
  <2>2. ASSUME NEW r \in Runners, CallStep(r) PROVE UNCHANGED base
    BY <2>2 DEF CallStep, GetBranchSHA, GetFile, CreateBranch, ResetBranch, PutBranch,
         PutFile, CreatePR, FindOpenPR, Persist, Finish, gitVars
  <2>3. ASSUME NEW r \in Runners, CallFails(r) \/ CutOff(r) PROVE UNCHANGED base
    BY <2>3 DEF CallFails, Fail, CutOff, Finish, gitVars
  <2>4. ASSUME NEW s \in Subs, ClosePR(s) PROVE UNCHANGED base BY <2>4 DEF ClosePR
  <2>5. ASSUME UNCHANGED pvars PROVE UNCHANGED base BY <2>5 DEF pvars, gitVars
  <2> QED BY <2>1, <2>2, <2>3, <2>4, <2>5 DEF PRNext
<1> QED BY <1>1, <1>2, <1>3, <1>4

\* The initial state satisfies the invariant.
LEMMA PRInitInv == PRInit => PRInv
<1> SUFFICES ASSUME PRInit PROVE PRInv
  OBVIOUS
<1> USE PullRequestAssumption DEF PRInit
<1>1. base \in Seq(Seq(Subs \cup {Edit})) /\ base # <<>> /\ Len(base) = 1
  <2>1. <<>> \in Seq(Subs \cup {Edit}) BY EmptySeq
  <2> QED BY <2>1
<1>2. err \in [Subs -> BOOLEAN] BY Zenon
<1>3. PRTypeOK
  <2>1. branch \in [Subs -> [fork : 0 .. Len(base), file : Seq(Subs \cup {Edit})]]
    BY <1>1 DEF Absent
  <2>2. prs \in [Subs -> Seq({"open", "merged", "closed"})] BY EmptySeq
  <2>3. pc \in [Runners -> Steps] BY DEF Steps
  <2>4. existing \in [Runners -> Seq(Subs \cup {Edit})] BY EmptySeq
  <2>5. edits \in 0 .. MaxEdits /\ url \in [Subs -> Nat] BY DEF PRInit
  <2>6. sha \in [Runners -> 0 .. Len(base)] BY <1>1
  <2> QED BY <1>1, <1>2, <2>1, <2>2, <2>3, <2>4, <2>5, <2>6 DEF PRTypeOK
<1>4. RunInv BY DEF RunInv, Steps
<1>5. BranchOnlyAddsOwnBlock BY DEF BranchOnlyAddsOwnBlock, Exists, Absent
<1> QED BY <1>3, <1>4, <1>5 DEF PRInv

\* What a step may make of a branch: nothing, or no branch, or an extension
\* of a commit the base had before the step.
BranchStep ==
    /\ branch' \in [Subs -> [fork : 0 .. Len(base), file : Seq(Subs \cup {Edit})]]
    /\ \A s \in Subs :
        \/ branch'[s] = branch[s]
        \/ branch'[s].fork = 0
        \/ /\ branch'[s].fork \in 1 .. Len(base)
           /\ Extends(base[branch'[s].fork], branch'[s].file, s)

\* Such a step keeps the invariant on branches.
LEMMA BranchStepInv ==
    ASSUME PRInv, Grown, BranchStep
    PROVE  BranchOnlyAddsOwnBlock'
<1> SUFFICES ASSUME NEW s \in Subs, branch'[s].fork # 0
             PROVE  Extends(base'[branch'[s].fork], branch'[s].file, s)
  BY DEF BranchOnlyAddsOwnBlock, Extends, Exists
<1>1. branch'[s].fork \in 1 .. Len(base)
  BY DEF BranchStep, Grown
<1>2. base'[branch'[s].fork] = base[branch'[s].fork] BY <1>1 DEF Grown
<1>3. CASE branch'[s] = branch[s]
  BY <1>2, <1>3, BranchOnlyAdds DEF PRInv, Exists
<1>4. CASE branch'[s] # branch[s] BY <1>2, <1>4 DEF BranchStep
<1> QED BY <1>3, <1>4

\* A step that leaves the branches alone is such a step.
LEMMA BranchSame ==
    ASSUME PRInv, UNCHANGED branch
    PROVE  BranchStep
  BY DEF PRInv, PRTypeOK, BranchStep

\* So is one that points a branch at the commit a runner read.
LEMMA BranchForked ==
    ASSUME PRInv, NEW r \in Runners, sub[r] \in Subs, sha[r] # 0,
           branch' = [branch EXCEPT ![sub[r]] = [fork |-> sha[r], file |-> base[sha[r]]]]
    PROVE  BranchStep
<1> DEFINE b == [fork |-> sha[r], file |-> base[sha[r]]]
<1>1. sha[r] \in 1 .. Len(base) /\ base \in Seq(Seq(Blocks))
  BY EmptySeq DEF PRInv, PRTypeOK, Blocks
<1>2. base[sha[r]] \in Seq(Blocks) BY <1>1, ElementOfSeq
<1>3. Extends(base[sha[r]], base[sha[r]], sub[r]) BY <1>2, ExtendsSelf
<1>4. b \in [fork : 0 .. Len(base), file : Seq(Subs \cup {Edit})]
  BY <1>1, <1>2 DEF Blocks
<1>5. branch' \in [Subs -> [fork : 0 .. Len(base), file : Seq(Subs \cup {Edit})]]
  BY <1>4 DEF PRInv, PRTypeOK
<1>6. branch'[sub[r]] = b /\ \A s \in Subs \ {sub[r]} : branch'[s] = branch[s]
  BY DEF PRInv, PRTypeOK
<1>7. b.fork = sha[r] /\ b.file = base[sha[r]] OBVIOUS
<1> QED BY <1>1, <1>3, <1>5, <1>6, <1>7 DEF BranchStep

\* And one that deletes a branch.
LEMMA BranchDeleted ==
    ASSUME PRInv, NEW s \in Subs, branch' \in {branch, [branch EXCEPT ![s] = Absent]}
    PROVE  BranchStep
<1>1. CASE UNCHANGED branch BY <1>1, BranchSame
<1>2. CASE branch' = [branch EXCEPT ![s] = Absent]
  <2>1. Absent \in [fork : 0 .. Len(base), file : Seq(Subs \cup {Edit})] /\ Absent.fork = 0
    BY EmptySeq, LenProperties DEF Absent, PRInv, PRTypeOK
  <2> QED BY <1>2, <2>1 DEF BranchStep, PRInv, PRTypeOK
<1> QED BY <1>1, <1>2

\* Replacing one field of a branch.
LEMMA FileReplaced ==
    ASSUME NEW S, NEW T, NEW b \in [fork : S, file : T], NEW f
    PROVE  [b EXCEPT !.file = f] = [fork |-> b.fork, file |-> f]
  OBVIOUS

\* What PutFile does to the branch, field by field.
LEMMA PutFileEffect ==
    ASSUME PRInv, NEW r \in Runners, PutFile(r)
    PROVE  LET new == Append(branch[sub[r]].file, sub[r])
           IN  /\ sub[r] \in Subs /\ Exists(sub[r]) /\ new \in Seq(Blocks)
               /\ branch' = [branch EXCEPT ![sub[r]] =
                                [fork |-> branch[sub[r]].fork, file |-> new]]
<1> DEFINE new == Append(branch[sub[r]].file, sub[r])
<1>1. sub[r] \in Subs /\ Exists(sub[r]) /\ new = Append(existing[r], sub[r])
  BY DEF PRInv, RunInv, PutFile
<1>2. branch[sub[r]].file \in Seq(Blocks) BY <1>1 DEF PRInv, PRTypeOK, Blocks
<1>3. new \in Seq(Blocks)
  <2>1. sub[r] \in Blocks BY <1>1 DEF Blocks
  <2> QED BY <1>2, <2>1
<1>4. branch[sub[r]] \in [fork : 0 .. Len(base), file : Seq(Subs \cup {Edit})]
  BY <1>1 DEF PRInv, PRTypeOK
<1>5. [branch[sub[r]] EXCEPT !.file = new] = [fork |-> branch[sub[r]].fork, file |-> new]
  <2> DEFINE b == branch[sub[r]]
  <2>1. b \in [fork : 0 .. Len(base), file : Seq(Subs \cup {Edit})] BY <1>4
  <2> HIDE DEF b, new
  <2>2. [b EXCEPT !.file = new] = [fork |-> b.fork, file |-> new]
    BY <2>1, FileReplaced
  <2> QED BY <2>2 DEF b
<1>6. branch' = [branch EXCEPT ![sub[r]] = [branch[sub[r]] EXCEPT !.file = new]]
  BY <1>1, Zenon DEF PutFile
<1> QED BY <1>1, <1>3, <1>5, <1>6

\* So is PutFile, whichever run created or reset the branch last.
LEMMA BranchPut ==
    ASSUME PRInv, NEW r \in Runners, PutFile(r)
    PROVE  BranchStep
<1> DEFINE s == sub[r]
           b == [fork |-> branch[s].fork, file |-> Append(branch[s].file, s)]
<1>1. s \in Subs /\ Exists(s) /\ b.file \in Seq(Blocks) BY PutFileEffect
<1>2. branch' = [branch EXCEPT ![s] = b] BY PutFileEffect
<1>3. branch[s].fork \in 1 .. Len(base) /\ branch[s].file \in Seq(Blocks)
  BY <1>1, LenProperties DEF PRInv, PRTypeOK, Blocks, Exists
<1>4. base[branch[s].fork] \in Seq(Blocks)
  <2>1. base \in Seq(Seq(Blocks)) BY DEF PRInv, PRTypeOK, Blocks
  <2> QED BY <1>3, <2>1, ElementOfSeq
<1>5. Extends(base[branch[s].fork], branch[s].file, s)
  BY <1>1, BranchOnlyAdds DEF PRInv
<1>6. s \in Blocks BY <1>1 DEF Blocks
<1>7. Extends(base[branch[s].fork], Append(branch[s].file, s), s)
  BY <1>3, <1>4, <1>5, <1>6, ExtendsAppend
<1>8. b \in [fork : 0 .. Len(base), file : Seq(Subs \cup {Edit})]
  BY <1>1, <1>3 DEF Blocks
<1>9. branch'[s] = b /\ \A t \in Subs \ {s} : branch'[t] = branch[t]
  BY <1>1, <1>2 DEF PRInv, PRTypeOK
<1>10. branch' \in [Subs -> [fork : 0 .. Len(base), file : Seq(Subs \cup {Edit})]]
  BY <1>2, <1>8 DEF PRInv, PRTypeOK
<1>11. b.fork = branch[s].fork /\ b.file = Append(branch[s].file, s) OBVIOUS
<1> HIDE DEF s, b
<1> QED BY <1>3, <1>7, <1>9, <1>10, <1>11 DEF BranchStep

\* The types of what GitHub and the table hold, after a step.
RestType ==
    /\ prs' \in [Subs -> Seq({"open", "merged", "closed"})]
    /\ edits' \in 0 .. MaxEdits
    /\ url' \in [Subs -> Nat] /\ err' \in [Subs -> BOOLEAN]
    /\ cutOff' \in SUBSET Subs

\* The types of what the runners hold, and their part of the invariant.
RunType ==
    /\ pc' \in [Runners -> Steps]
    /\ sub' \in [Runners -> Subs \cup {NoSub}]
    /\ sha' \in [Runners -> 0 .. Len(base)]
    /\ existing' \in [Runners -> Seq(Subs \cup {Edit})]
    /\ found' \in [Runners -> Nat]
    /\ RunInv'

\* The parts put together.
LEMMA PRInvParts ==
    ASSUME PRInv, Grown, BranchStep, RestType, RunType
    PROVE  PRInv'
<1>1. 0 .. Len(base) \subseteq 0 .. Len(base') BY DEF Grown
<1>2. branch' \in [Subs -> [fork : 0 .. Len(base'), file : Seq(Subs \cup {Edit})]]
  BY <1>1 DEF BranchStep
<1>3. sha' \in [Runners -> 0 .. Len(base')] BY <1>1 DEF RunType
<1>4. PRTypeOK' BY <1>2, <1>3 DEF PRTypeOK, Grown, RestType, RunType, Blocks
<1> QED BY <1>4, BranchStepInv DEF PRInv, RunType

\* The types of the old state, for the steps of a runner.
LEMMA OldTypes ==
    ASSUME PRInv
    PROVE  /\ pc \in [Runners -> Steps]
           /\ sub \in [Runners -> Subs \cup {NoSub}]
           /\ sha \in [Runners -> 0 .. Len(base)]
           /\ existing \in [Runners -> Seq(Subs \cup {Edit})]
           /\ found \in [Runners -> Nat]
           /\ Len(base) \in Nat \ {0} /\ Last(base) \in Seq(Subs \cup {Edit})
<1>1. base \in Seq(Seq(Blocks)) /\ Len(base) \in Nat \ {0}
  BY EmptySeq DEF PRInv, PRTypeOK, Blocks
<1>2. Last(base) \in Seq(Blocks) BY <1>1, ElementOfSeq DEF Last
<1> QED BY <1>1, <1>2 DEF PRInv, PRTypeOK, Blocks

\* Steps that leave the table and the pull requests alone.
LEMMA RestSame ==
    ASSUME PRInv, UNCHANGED <<prs, edits, url, err, cutOff>>
    PROVE  RestType
  BY DEF PRInv, PRTypeOK, RestType

\* A runner that ends forgets everything.
LEMMA FinishRuns ==
    ASSUME PRInv, NEW r \in Runners, Finish(r)
    PROVE  RunType /\ UNCHANGED <<prs, edits, branch>>
<1>1. "idle" \in Steps /\ <<>> \in Seq(Subs \cup {Edit}) BY EmptySeq DEF Steps
<1>2. /\ pc' \in [Runners -> Steps] /\ sub' \in [Runners -> Subs \cup {NoSub}]
      /\ sha' \in [Runners -> 0 .. Len(base)] /\ found' \in [Runners -> Nat]
      /\ existing' \in [Runners -> Seq(Subs \cup {Edit})]
  BY <1>1, OldTypes DEF Finish
<1>3. RunInv'
  <2> SUFFICES ASSUME NEW p \in Runners
               PROVE  /\ pc'[p] = "idle" => sub'[p] = NoSub
                      /\ pc'[p] # "idle" => sub'[p] \in Subs
                      /\ pc'[p] \in Steps \ {"idle", "sha", "persist"} => sha'[p] # 0
    BY DEF RunInv
  <2> QED BY OldTypes DEF PRInv, RunInv, Finish
<1> QED BY <1>2, <1>3 DEF RunType, Finish, gitVars

\* A runner that only moves on keeps what it read, and once past
\* GetBranchSHA it has read a commit.
LEMMA GotoRuns ==
    ASSUME PRInv, NEW r \in Runners, NEW step \in Steps \ {"idle", "sha"}, Goto(r, step),
           UNCHANGED <<sub, sha, existing>>, found' \in [Runners -> Nat],
           pc[r] # "idle", step = "persist" \/ sha[r] # 0
    PROVE  RunType
<1>1. pc' \in [Runners -> Steps] BY OldTypes DEF Goto
<1>2. RunInv'
  <2> SUFFICES ASSUME NEW p \in Runners
               PROVE  /\ pc'[p] = "idle" => sub'[p] = NoSub
                      /\ pc'[p] # "idle" => sub'[p] \in Subs
                      /\ pc'[p] \in Steps \ {"idle", "sha", "persist"} => sha'[p] # 0
    BY DEF RunInv
  <2> QED BY OldTypes DEF PRInv, RunInv, Goto
<1> QED BY <1>1, <1>2, OldTypes DEF RunType

\* Every step of a runner keeps the invariant.
LEMMA RunnerKeepsPRInv ==
    ASSUME PRInv, Grown, NEW r \in Runners,
           (\E s \in Subs : Start(r, s)) \/ CallStep(r) \/ CallFails(r) \/ CutOff(r)
    PROVE  PRInv'
<1> USE OldTypes
<1>1. ASSUME NEW s \in Subs, Start(r, s) PROVE PRInv'
  <2>1. UNCHANGED <<branch, prs, edits, url, err, cutOff>>
    BY <1>1 DEF Start, gitVars, rowVars
  <2>2. pc' \in [Runners -> Steps] /\ sub' \in [Runners -> Subs \cup {NoSub}]
    BY <1>1 DEF Start, Goto, Steps
  <2>3. RunInv' BY <1>1 DEF Start, Goto, RunInv, PRInv
  <2>4. RunType BY <1>1, <2>2, <2>3 DEF RunType, Start
  <2> QED BY <2>1, <2>4, BranchSame, RestSame, PRInvParts
<1>2. ASSUME GetBranchSHA(r) PROVE PRInv'
  <2>1. UNCHANGED <<branch, prs, edits, url, err, cutOff>>
    BY <1>2 DEF GetBranchSHA, gitVars, rowVars
  <2>2. pc' \in [Runners -> Steps] /\ sha' \in [Runners -> 0 .. Len(base)]
    BY <1>2 DEF GetBranchSHA, Goto, Steps
  <2>3. RunInv' BY <1>2 DEF GetBranchSHA, Goto, RunInv, PRInv
  <2>4. RunType BY <1>2, <2>2, <2>3 DEF RunType, GetBranchSHA
  <2> QED BY <2>1, <2>4, BranchSame, RestSame, PRInvParts
<1>3. ASSUME GetFile(r) PROVE PRInv'
  <2>1. UNCHANGED <<branch, prs, edits, url, err, cutOff>>
    BY <1>3 DEF GetFile, gitVars, rowVars
  <2>2. pc' \in [Runners -> Steps] /\ existing' \in [Runners -> Seq(Subs \cup {Edit})]
    BY <1>3 DEF GetFile, Goto, Steps
  <2>3. RunInv' BY <1>3 DEF GetFile, Goto, RunInv, PRInv, Steps
  <2>4. RunType BY <1>3, <2>2, <2>3 DEF RunType, GetFile
  <2> QED BY <2>1, <2>4, BranchSame, RestSame, PRInvParts
<1>4. ASSUME CreateBranch(r) \/ ResetBranch(r) PROVE PRInv'
  <2>1. pc[r] \in {"create", "reset"} /\ UNCHANGED <<prs, edits, url, err, cutOff>>
    BY <1>4 DEF CreateBranch, ResetBranch, PutBranch, gitVars, rowVars
  <2>2. sub[r] \in Subs /\ sha[r] # 0 BY <2>1 DEF PRInv, RunInv, Steps
  <2>3. \E step \in {"put", "persist", "reset"} : Goto(r, step)
    BY <1>4 DEF CreateBranch, ResetBranch, PutBranch
  <2>4. UNCHANGED <<sub, sha, existing, found>>
    BY <1>4 DEF CreateBranch, ResetBranch
  <2>5. RunType BY <2>1, <2>2, <2>3, <2>4, GotoRuns DEF Steps
  <2>6. \/ UNCHANGED branch
        \/ branch' = [branch EXCEPT ![sub[r]] = [fork |-> sha[r], file |-> base[sha[r]]]]
    BY <1>4 DEF CreateBranch, ResetBranch, PutBranch, gitVars
  <2>7. BranchStep BY <2>2, <2>6, BranchSame, BranchForked
  <2> QED BY <2>1, <2>5, <2>7, RestSame, PRInvParts
<1>5. ASSUME PutFile(r) PROVE PRInv'
  <2>1. pc[r] = "put" /\ UNCHANGED <<prs, edits, url, err, cutOff>>
    BY <1>5, Zenon DEF PutFile, rowVars
  <2>2. sha[r] # 0 BY <2>1 DEF PRInv, RunInv, Steps
  <2>3. \E step \in {"pr", "persist"} : Goto(r, step) BY <1>5, Zenon DEF PutFile
  <2>4. UNCHANGED <<sub, sha, existing, found>> BY <1>5, Zenon DEF PutFile
  <2>5. RunType BY <2>1, <2>2, <2>3, <2>4, GotoRuns DEF Steps
  <2> QED BY <1>5, <2>1, <2>5, BranchPut, RestSame, PRInvParts
<1>6. ASSUME CreatePR(r) PROVE PRInv'
  <2>1. pc[r] = "pr" /\ UNCHANGED <<branch, edits, url, err, cutOff>>
    BY <1>6 DEF CreatePR, rowVars
  <2>2. sub[r] \in Subs /\ sha[r] # 0 BY <2>1 DEF PRInv, RunInv, Steps
  <2>3. \E step \in {"find", "persist"} : Goto(r, step) BY <1>6 DEF CreatePR
  <2>4. prs \in [Subs -> Seq({"open", "merged", "closed"})] BY DEF PRInv, PRTypeOK
  <2>5. prs' \in [Subs -> Seq({"open", "merged", "closed"})]
    <3> DEFINE PRStates == {"open", "merged", "closed"}
    <3>1. prs[sub[r]] \in Seq(PRStates) /\ "open" \in PRStates BY <2>2, <2>4
    <3> HIDE DEF PRStates
    <3>2. Append(prs[sub[r]], "open") \in Seq(PRStates) BY <3>1
    <3>3. UNCHANGED prs \/ prs' = [prs EXCEPT ![sub[r]] = Append(prs[sub[r]], "open")]
      BY <1>6 DEF CreatePR
    <3> QED BY <2>4, <3>2, <3>3 DEF PRStates
  <2>6. found' \in [Runners -> Nat]
    <3>1. Len(prs'[sub[r]]) \in Nat BY <2>2, <2>5, LenProperties
    <3> QED BY <1>6, <3>1 DEF CreatePR
  <2>7. UNCHANGED <<sub, sha, existing>> BY <1>6 DEF CreatePR
  <2>8. RunType BY <2>1, <2>2, <2>3, <2>6, <2>7, GotoRuns DEF Steps
  <2>9. RestType BY <2>1, <2>5 DEF RestType, PRInv, PRTypeOK
  <2> QED BY <2>1, <2>8, <2>9, BranchSame, PRInvParts
<1>7. ASSUME FindOpenPR(r) PROVE PRInv'
  <2>1. pc[r] = "find" /\ UNCHANGED <<branch, prs, edits, url, err, cutOff>>
    BY <1>7 DEF FindOpenPR, gitVars, rowVars
  <2>2. OpenPRs(sub[r]) \subseteq Nat
    <3>1. sub[r] \in Subs BY <2>1 DEF PRInv, RunInv
    <3>2. Len(prs[sub[r]]) \in Nat BY <3>1, LenProperties DEF PRInv, PRTypeOK
    <3> QED BY <3>2 DEF OpenPRs
  <2>3. found' \in [Runners -> Nat] BY <1>7, <2>2 DEF FindOpenPR
  <2>4. Goto(r, "persist") /\ UNCHANGED <<sub, sha, existing>> BY <1>7 DEF FindOpenPR
  <2>5. RunType BY <2>1, <2>3, <2>4, GotoRuns DEF Steps
  <2> QED BY <2>1, <2>5, BranchSame, RestSame, PRInvParts
<1>8. ASSUME CallFails(r) PROVE PRInv'
  <2>1. UNCHANGED <<branch, prs, edits, url, err, cutOff>>
    BY <1>8 DEF CallFails, Fail, gitVars, rowVars
  <2>2. pc[r] # "idle" /\ Goto(r, "persist") /\ UNCHANGED <<sub, sha, existing, found>>
    BY <1>8 DEF CallFails, Fail
  <2>3. RunType BY <2>2, GotoRuns DEF Steps
  <2> QED BY <2>1, <2>3, BranchSame, RestSame, PRInvParts
<1>9. ASSUME Persist(r) PROVE PRInv'
  <2>1. Finish(r) /\ sub[r] \in Subs /\ UNCHANGED cutOff BY <1>9 DEF Persist, PRInv, RunInv
  <2>2. url' \in [Subs -> Nat] BY <1>9 DEF Persist, PRInv, PRTypeOK
  <2>3. err' \in [Subs -> BOOLEAN]
    <3>1. (found[r] = 0) \in BOOLEAN OBVIOUS
    <3>2. err \in [Subs -> BOOLEAN] BY DEF PRInv, PRTypeOK
    <3>3. err' = [err EXCEPT ![sub[r]] = (found[r] = 0)] BY <1>9 DEF Persist
    <3> QED BY <3>1, <3>2, <3>3, Zenon
  <2>4. RestType BY <2>1, <2>2, <2>3, FinishRuns DEF RestType, PRInv, PRTypeOK
  <2> QED BY <2>1, <2>4, FinishRuns, BranchSame, PRInvParts
<1>10. ASSUME CutOff(r) PROVE PRInv'
  <2>1. /\ Finish(r) /\ sub[r] \in Subs /\ cutOff' = cutOff \cup {sub[r]}
        /\ UNCHANGED <<url, err>>
    BY <1>10 DEF CutOff, PRInv, RunInv, rowVars
  <2>2. RestType BY <2>1, FinishRuns DEF RestType, PRInv, PRTypeOK
  <2> QED BY <2>1, <2>2, FinishRuns, BranchSame, PRInvParts
<1> QED BY <1>1, <1>2, <1>3, <1>4, <1>5, <1>6, <1>7, <1>8, <1>9, <1>10 DEF CallStep

\* What closing or merging does to the pull requests of s.
LEMMA PRClosed ==
    ASSUME PRInv, NEW s \in Subs, NEW state \in {"merged", "closed"}, NEW n \in OpenPRs(s),
           prs' = [prs EXCEPT ![s][n] = state]
    PROVE  /\ prs' \in [Subs -> Seq({"open", "merged", "closed"})]
           /\ \A t \in Subs \ {s} : prs'[t] = prs[t]
           /\ OpenPRs(s)' = OpenPRs(s) \ {n}
<1> DEFINE PRStates == {"open", "merged", "closed"}
           q == [prs[s] EXCEPT ![n] = state]
<1>1. prs \in [Subs -> Seq(PRStates)] BY DEF PRInv, PRTypeOK
<1>2. prs[s] \in Seq(PRStates) /\ n \in 1 .. Len(prs[s]) /\ state \in PRStates
  BY <1>1 DEF OpenPRs
<1>3. /\ q \in Seq(PRStates) /\ Len(q) = Len(prs[s])
      /\ \A j \in 1 .. Len(prs[s]) : q[j] = IF j = n THEN state ELSE prs[s][j]
  BY <1>2, ExceptSeq
<1>4. prs' = [prs EXCEPT ![s] = q] BY Zenon
<1> HIDE DEF q
<1>5. prs' \in [Subs -> Seq(PRStates)] BY <1>1, <1>3, <1>4
<1>6. prs'[s] = q /\ \A t \in Subs \ {s} : prs'[t] = prs[t] BY <1>1, <1>4
<1>7. OpenPRs(s)' = OpenPRs(s) \ {n} BY <1>3, <1>6 DEF OpenPRs
<1> QED BY <1>5, <1>6, <1>7

\* Every step of an editor keeps the invariant.
LEMMA EditorKeepsPRInv ==
    ASSUME PRInv, Grown,
           (\E s \in Subs : MergePR(s) \/ ClosePR(s)) \/ OtherCommit
    PROVE  PRInv'
<1>1. /\ edits' \in 0 .. MaxEdits
      /\ UNCHANGED <<url, err, cutOff, pc, sub, sha, existing, found>>
  <2>1. Editing BY DEF MergePR, ClosePR, OtherCommit
  <2>2. edits \in 0 .. MaxEdits BY DEF PRInv, PRTypeOK
  <2>3. edits' \in 0 .. MaxEdits BY <2>1, <2>2, PullRequestAssumption DEF Editing
  <2> QED BY <2>1, <2>3 DEF Editing, rowVars, runVars
<1>2. RunType BY <1>1, OldTypes DEF RunType, RunInv, PRInv
<1>3. BranchStep
  <2>1. CASE OtherCommit BY <2>1, BranchSame DEF OtherCommit
  <2>2. CASE \E s \in Subs : MergePR(s) \/ ClosePR(s)
    BY <2>2, BranchDeleted DEF MergePR, ClosePR
  <2> QED BY <2>1, <2>2
<1>4. prs' \in [Subs -> Seq({"open", "merged", "closed"})]
  <2>1. CASE OtherCommit BY <2>1 DEF OtherCommit, PRInv, PRTypeOK
  <2>2. ASSUME NEW s \in Subs, MergePR(s) \/ ClosePR(s)
        PROVE  prs' \in [Subs -> Seq({"open", "merged", "closed"})]
    <3>1. PICK n \in OpenPRs(s), state \in {"merged", "closed"} :
              prs' = [prs EXCEPT ![s][n] = state]
      BY <2>2, Zenon DEF MergePR, ClosePR
    <3> QED BY <3>1, PRClosed
  <2> QED BY <2>1, <2>2
<1>5. RestType BY <1>1, <1>4 DEF RestType, PRInv, PRTypeOK
<1> QED BY <1>2, <1>3, <1>5, PRInvParts

\* Every step keeps the invariant.
LEMMA PRStepInv == PRInv /\ [PRNext]_pvars => PRInv'
<1> SUFFICES ASSUME PRInv, [PRNext]_pvars PROVE PRInv'
  OBVIOUS
<1>1. Grown BY BaseGrows
<1>2. CASE UNCHANGED pvars
  <2>1. UNCHANGED <<branch, prs, edits, url, err, cutOff, pc, sub, sha, existing, found>>
    BY <1>2 DEF pvars, gitVars, rowVars, runVars
  <2>2. RunType BY <2>1, OldTypes DEF RunType, RunInv, PRInv
  <2> QED BY <1>1, <2>1, <2>2, BranchSame, RestSame, PRInvParts
<1>3. CASE \E r \in Runners, s \in Subs : Start(r, s)
  BY <1>1, <1>3, RunnerKeepsPRInv
<1>4. CASE \E r \in Runners : CallStep(r) \/ CallFails(r) \/ CutOff(r)
  BY <1>1, <1>4, RunnerKeepsPRInv
<1>5. CASE (\E s \in Subs : MergePR(s) \/ ClosePR(s)) \/ OtherCommit
  BY <1>1, <1>5, EditorKeepsPRInv
<1> QED BY <1>2, <1>3, <1>4, <1>5 DEF PRNext

\* PRInv is an invariant of openPR, for any number of runners.
THEOREM PRInvariance == PRSpec => []PRInv
  BY PRInitInv, PRStepInv, PTL DEF PRSpec

\* However many runs of openPR work on the same submission at once, and
\* however the base moves under them, a branch holds a version of the base
\* plus copies of the submission's own block: a merge reverts nobody's edit.
THEOREM BranchNeverReverts == PRSpec => []BranchOnlyAddsOwnBlock
<1>1. PRInv => BranchOnlyAddsOwnBlock BY DEF PRInv
<1> QED BY <1>1, PRInvariance, PTL

-----------------------------------------------------------------------------
(* One run at a time: the worker, and operators who wait for it.           *)

OneRunner == \A p, q \in Runners : p = q

\* A branch a step leaves alone still forks from the same version of the file.
LEMMA BranchKept ==
    ASSUME PRInv, Grown, NEW s \in Subs, branch'[s] = branch[s]
    PROVE  /\ Exists(s)' <=> Exists(s)
           /\ Ahead(s)' <=> Ahead(s)
           /\ Exists(s) => base'[branch'[s].fork] = base[branch[s].fork]
<1>1. Exists(s)' <=> Exists(s) BY DEF Exists
<1>2. ASSUME Exists(s) PROVE base'[branch'[s].fork] = base[branch[s].fork]
  <2>1. branch[s].fork \in 1 .. Len(base)
    BY <1>2, OldTypes DEF PRInv, PRTypeOK, Exists
  <2> QED BY <2>1 DEF Grown
<1> QED BY <1>1, <1>2 DEF Ahead

\* Steps that leave GitHub alone keep what is about GitHub alone.
LEMMA GitKept ==
    ASSUME SoloInv, UNCHANGED <<base, branch, prs>>
    PROVE  /\ OpenInv' /\ BlockAddedOnce'
           /\ \A s : OpenPRs(s)' = OpenPRs(s)
           /\ \A s : (Ahead(s)' <=> Ahead(s)) /\ (Exists(s)' <=> Exists(s))
<1>1. \A s : OpenPRs(s)' = OpenPRs(s) BY DEF OpenPRs
<1>2. \A s : (Ahead(s)' <=> Ahead(s)) /\ (Exists(s)' <=> Exists(s)) BY DEF Ahead, Exists
<1>3. OpenInv' BY <1>1, <1>2 DEF OpenInv, SoloInv
<1>4. BlockAddedOnce' BY <1>2 DEF BlockAddedOnce, SoloInv, PromotionSound
<1> QED BY <1>1, <1>2, <1>3, <1>4

\* The initial state satisfies it.
LEMMA SoloInit == PRInit => SoloInv
<1> SUFFICES ASSUME PRInit PROVE SoloInv
  OBVIOUS
<1> USE DEF PRInit
<1>1. \A s \in Subs : ~Exists(s) /\ OpenPRs(s) = {}
  <2> TAKE s \in Subs
  <2>1. prs[s] = <<>> /\ branch[s].fork = 0 BY DEF Absent
  <2>2. Len(prs[s]) = 0 BY <2>1, EmptySeq
  <2> QED BY <2>1, <2>2 DEF Exists, OpenPRs
<1>2. PutInv /\ FoundInv BY DEF PutInv, FoundInv
<1>3. OpenInv BY <1>1 DEF OpenInv
<1>4. RecordedPRHasBlock BY <1>1 DEF RecordedPRHasBlock
<1>5. BlockAddedOnce BY <1>1 DEF BlockAddedOnce
<1> QED BY <1>2, <1>3, <1>4, <1>5 DEF SoloInv, PromotionSound

\* The calls that only read, and the ends of a run.
LEMMA SoloReads ==
    ASSUME PRInv, SoloInv, OneRunner, NEW r \in Runners,
           \/ \E s \in Subs : Start(r, s)
           \/ GetBranchSHA(r) \/ GetFile(r) \/ FindOpenPR(r) \/ Persist(r)
           \/ CallFails(r) \/ CutOff(r)
    PROVE  SoloInv'
<1> USE OldTypes
<1>0. UNCHANGED <<base, branch, prs>>
  BY DEF Start, GetBranchSHA, GetFile, FindOpenPR, Persist, CallFails, Fail, CutOff,
         Finish, gitVars
<1>1. \A q \in Runners : q = r BY DEF OneRunner
<1>2. PutInv /\ FoundInv /\ OpenInv /\ RecordedPRHasBlock BY DEF SoloInv, PromotionSound
<1>3. pc[r] # "idle" => sub[r] \in Subs BY DEF PRInv, RunInv
<1>4. ASSUME NEW s \in Subs, Start(r, s) PROVE SoloInv'
  <2>1. pc'[r] = "sha" /\ sub'[r] = s /\ found'[r] = 0 /\ UNCHANGED <<url, cutOff>>
    BY <1>2, <1>4 DEF Start, Goto, FoundInv, rowVars
  <2>2. PutInv' /\ FoundInv' BY <1>1, <2>1 DEF PutInv, FoundInv
  <2>3. RecordedPRHasBlock'
    <3>1. \A t \in Subs : sub[r] # t
      BY <1>4, PullRequestAssumption DEF Start, PRInv, RunInv
    <3> QED BY <1>0, <1>1, <1>2, <2>1, <3>1, GitKept DEF RecordedPRHasBlock
  <2> QED BY <1>0, <2>2, <2>3, GitKept DEF SoloInv, PromotionSound
<1>5. ASSUME GetBranchSHA(r) \/ GetFile(r) PROVE SoloInv'
  <2>1. /\ pc'[r] \in {"file", "create"} /\ found'[r] = 0
        /\ UNCHANGED <<url, cutOff, sub>>
    BY <1>2, <1>5 DEF GetBranchSHA, GetFile, Goto, FoundInv, rowVars
  <2>2. PutInv' /\ FoundInv' BY <1>1, <2>1 DEF PutInv, FoundInv
  <2>3. RecordedPRHasBlock' BY <1>0, <1>2, <2>1, GitKept DEF RecordedPRHasBlock
  <2> QED BY <1>0, <2>2, <2>3, GitKept DEF SoloInv, PromotionSound
<1>6. ASSUME FindOpenPR(r) PROVE SoloInv'
  <2>1. pc'[r] = "persist" /\ UNCHANGED <<url, cutOff, sub>>
    BY <1>6 DEF FindOpenPR, Goto, rowVars
  <2>2. Ahead(sub[r])
    <3>1. pc[r] = "find" /\ OpenPRs(sub[r]) # {} BY <1>6 DEF FindOpenPR
    <3> QED BY <1>2, <1>3, <3>1 DEF PutInv, OpenInv
  <2>3. PutInv' BY <1>1, <2>1 DEF PutInv
  <2>4. FoundInv' BY <1>0, <1>1, <2>1, <2>2, GitKept DEF FoundInv
  <2>5. RecordedPRHasBlock' BY <1>0, <1>2, <2>1, GitKept DEF RecordedPRHasBlock
  <2> QED BY <1>0, <2>3, <2>4, <2>5, GitKept DEF SoloInv, PromotionSound
<1>7. ASSUME CallFails(r) PROVE SoloInv'
  <2>1. /\ pc'[r] = "persist" /\ found'[r] = 0 /\ pc[r] # "idle"
        /\ UNCHANGED <<url, cutOff, sub>>
    BY <1>2, <1>7 DEF CallFails, Fail, Goto, FoundInv, rowVars, Steps
  <2>2. PutInv' BY <1>1, <2>1 DEF PutInv
  <2>3. 0 \notin OpenPRs(sub[r])
    <3>1. Len(prs[sub[r]]) \in Nat BY <1>3, <2>1, LenProperties DEF PRInv, PRTypeOK
    <3> QED BY <3>1 DEF OpenPRs
  <2>4. FoundInv' BY <1>0, <1>1, <2>1, <2>3, GitKept DEF FoundInv
  <2>5. RecordedPRHasBlock' BY <1>0, <1>2, <2>1, GitKept DEF RecordedPRHasBlock
  <2> QED BY <1>0, <2>2, <2>4, <2>5, GitKept DEF SoloInv, PromotionSound
<1>8. ASSUME Persist(r) \/ CutOff(r) PROVE SoloInv'
  <2>1. pc'[r] = "idle" /\ found'[r] = 0 /\ sub'[r] = NoSub
    BY <1>8 DEF Persist, CutOff, Finish
  <2>2. PutInv' /\ FoundInv' BY <1>1, <2>1 DEF PutInv, FoundInv
  <2>3. RecordedPRHasBlock'
    <3> SUFFICES ASSUME NEW s \in Subs, url'[s] \in OpenPRs(s), s \notin cutOff'
                 PROVE  Ahead(s)
      BY <1>0, GitKept DEF RecordedPRHasBlock
    <3>1. CASE sub[r] # s
      <4>1. url'[s] = url[s] /\ s \notin cutOff
        BY <1>3, <1>8, <3>1 DEF Persist, CutOff, rowVars, PRInv, PRTypeOK
      <4> QED BY <1>1, <1>2, <3>1, <4>1 DEF RecordedPRHasBlock
    <3>2. CASE sub[r] = s
      <4>1. Persist(r) BY <1>8, <3>2 DEF CutOff
      <4>2. url'[s] = found[r] /\ pc[r] = "persist"
        BY <3>2, <4>1 DEF Persist, PRInv, PRTypeOK
      <4> QED BY <1>2, <3>2, <4>2 DEF FoundInv
    <3> QED BY <3>1, <3>2
  <2> QED BY <1>0, <2>2, <2>3, GitKept DEF SoloInv, PromotionSound
<1> QED BY <1>4, <1>5, <1>6, <1>7, <1>8

\* A step that changes no branch but that of the runner's submission, leaves
\* the PRs and the row alone and keeps that branch in existence.
LEMMA SoloBranch ==
    ASSUME PRInv, SoloInv, OneRunner, Grown, NEW r \in Runners, sub[r] \in Subs,
           UNCHANGED <<prs, url, cutOff, sub>>,
           \A s \in Subs \ {sub[r]} : branch'[s] = branch[s],
           Exists(sub[r])',
           branch'[sub[r]].file \in {base[branch'[sub[r]].fork],
                                     Append(base[branch'[sub[r]].fork], sub[r])},
           UNCHANGED base
    PROVE  OpenInv' /\ PromotionSound'
<1>1. \A q \in Runners : q = r BY DEF OneRunner
<1>2. \A s \in Subs \ {sub[r]} : /\ Exists(s)' <=> Exists(s)
                                 /\ Ahead(s)' <=> Ahead(s)
  BY BranchKept
<1>3. \A s : OpenPRs(s)' = OpenPRs(s) BY DEF OpenPRs
<1>4. OpenInv' BY <1>2, <1>3 DEF OpenInv, SoloInv
<1>5. RecordedPRHasBlock'
  BY <1>2, <1>3 DEF RecordedPRHasBlock, SoloInv, PromotionSound
<1>6. BlockAddedOnce'
  <2> SUFFICES ASSUME NEW s \in Subs, Exists(s)'
               PROVE  branch'[s].file \in {base[branch'[s].fork],
                                           Append(base[branch'[s].fork], s)}
    BY DEF BlockAddedOnce
  <2>1. CASE s = sub[r] BY <2>1
  <2>2. CASE s # sub[r] BY <1>2, <2>2 DEF BlockAddedOnce, SoloInv, PromotionSound
  <2> QED BY <2>1, <2>2
<1> QED BY <1>4, <1>5, <1>6 DEF PromotionSound

\* Creating and resetting the branch, and writing the file.
LEMMA SoloWrites ==
    ASSUME PRInv, SoloInv, OneRunner, Grown, NEW r \in Runners,
           CreateBranch(r) \/ ResetBranch(r) \/ PutFile(r)
    PROVE  SoloInv'
<1> USE OldTypes
<1> DEFINE s == sub[r]
<1>0. /\ UNCHANGED <<base, prs, url, cutOff, sub, sha, found>>
      /\ pc[r] \in {"create", "reset", "put"}
  <2>1. CASE CreateBranch(r) \/ ResetBranch(r)
    BY <2>1 DEF CreateBranch, ResetBranch, PutBranch, gitVars, rowVars
  <2>2. CASE PutFile(r) BY <2>2, Zenon DEF PutFile, rowVars
  <2> QED BY <2>1, <2>2
<1>1. \A q \in Runners : q = r BY DEF OneRunner
<1>2. s \in Subs /\ found[r] = 0 /\ sha[r] \in 1 .. Len(base)
  BY <1>0 DEF PRInv, RunInv, SoloInv, FoundInv, Steps
<1>3. 0 \notin OpenPRs(s)
  <2>1. Len(prs[s]) \in Nat BY <1>2, LenProperties DEF PRInv, PRTypeOK
  <2> QED BY <2>1 DEF OpenPRs
<1>4. OpenPRs(s)' = OpenPRs(s) BY <1>0 DEF OpenPRs
<1>5. FoundInv' BY <1>0, <1>1, <1>2, <1>3, <1>4 DEF FoundInv
<1>6. CASE branch' = [branch EXCEPT ![s] = [fork |-> sha[r], file |-> base[sha[r]]]]
           /\ pc'[r] \in {"put", "persist"}
  <2>1. branch'[s] = [fork |-> sha[r], file |-> base[sha[r]]]
        /\ \A t \in Subs \ {s} : branch'[t] = branch[t]
    BY <1>2, <1>6 DEF PRInv, PRTypeOK
  <2>2. branch'[s].fork = sha[r] /\ branch'[s].file = base[sha[r]] BY <2>1
  <2>3. Exists(s)' BY <1>0, <1>2, <2>2 DEF Exists
  <2>4. OpenInv' /\ PromotionSound' BY <1>0, <1>2, <2>1, <2>2, <2>3, SoloBranch
  <2>5. PutInv' BY <1>0, <1>1, <1>6, <2>1 DEF PutInv
  <2> QED BY <1>5, <2>4, <2>5 DEF SoloInv
<1>7. CASE CreateBranch(r) /\ UNCHANGED branch /\ pc'[r] = "reset"
  <2>1. PutInv' BY <1>1, <1>7 DEF PutInv
  <2>2. RecordedPRHasBlock'
    BY <1>0, <1>7, GitKept DEF RecordedPRHasBlock, SoloInv, PromotionSound
  <2> QED BY <1>0, <1>5, <1>7, <2>1, <2>2, GitKept DEF SoloInv, PromotionSound
<1>8. CASE PutFile(r)
  <2> DEFINE f == Append(branch[s].file, s)
             b == [fork |-> branch[s].fork, file |-> f]
  <2>1. Exists(s) /\ f \in Seq(Blocks) /\ branch' = [branch EXCEPT ![s] = b]
    BY <1>8, PutFileEffect
  <2>2. branch'[s] = b /\ \A t \in Subs \ {s} : branch'[t] = branch[t]
    BY <1>2, <2>1 DEF PRInv, PRTypeOK
  <2>3. branch'[s].fork = branch[s].fork /\ branch'[s].file = f BY <2>2
  <2>4. branch[s].fork = sha[r] /\ branch[s].file = base[sha[r]]
    <3>1. pc[r] = "put" BY <1>8, Zenon DEF PutFile
    <3>2. branch[s] = [fork |-> sha[r], file |-> base[sha[r]]]
      BY <2>1, <3>1 DEF SoloInv, PutInv
    <3> QED BY <3>2
  <2>5. Exists(s)' BY <1>0, <2>1, <2>3 DEF Exists
  <2>6. branch'[s].file = Append(base[branch'[s].fork], s) BY <2>3, <2>4
  <2>7. OpenInv' /\ PromotionSound' BY <1>0, <1>2, <2>2, <2>5, <2>6, SoloBranch
  <2>8. Ahead(s)'
    <3>1. base[sha[r]] \in Seq(Blocks)
      <4>1. base \in Seq(Seq(Blocks)) BY DEF PRInv, PRTypeOK, Blocks
      <4> QED BY <1>2, <4>1, ElementOfSeq
    <3>2. Append(base[sha[r]], s) # base[sha[r]] BY <3>1, LenProperties
    <3> QED BY <1>0, <2>3, <2>4, <2>5, <3>2 DEF Ahead
  <2>9. pc'[r] \in {"pr", "persist"}
    <3>1. Goto(r, "pr") \/ Goto(r, "persist") BY <1>8, Zenon DEF PutFile
    <3> QED BY <3>1 DEF Goto
  <2>10. PutInv' BY <1>0, <1>1, <2>8, <2>9 DEF PutInv
  <2> QED BY <1>5, <2>7, <2>10 DEF SoloInv
<1>9. \/ /\ branch' = [branch EXCEPT ![s] = [fork |-> sha[r], file |-> base[sha[r]]]]
         /\ pc'[r] \in {"put", "persist"}
      \/ CreateBranch(r) /\ UNCHANGED branch /\ pc'[r] = "reset"
      \/ PutFile(r)
  BY DEF CreateBranch, ResetBranch, PutBranch, Goto, gitVars
<1> QED BY <1>6, <1>7, <1>8, <1>9

\* Opening the PR, or finding that there is one.
LEMMA SoloCreatePR ==
    ASSUME PRInv, SoloInv, OneRunner, Grown, NEW r \in Runners, CreatePR(r)
    PROVE  SoloInv'
<1> USE OldTypes
<1> DEFINE s == sub[r]
<1>0. UNCHANGED <<base, branch, url, cutOff, sub>> /\ pc[r] = "pr"
  BY DEF CreatePR, rowVars
<1>1. \A q \in Runners : q = r BY DEF OneRunner
<1>2. s \in Subs /\ found[r] = 0
  BY <1>0 DEF PRInv, RunInv, SoloInv, FoundInv
<1>3. CASE UNCHANGED <<prs, found>> /\ Goto(r, "find")
  <2>1. pc'[r] = "find" BY <1>3 DEF Goto
  <2>2. FoundInv' BY <1>1, <1>2, <1>3, <2>1 DEF FoundInv
  <2>3. PutInv' BY <1>0, <1>1, <1>3, <2>1, GitKept DEF PutInv, SoloInv
  <2>4. RecordedPRHasBlock'
    BY <1>0, <1>3, GitKept DEF RecordedPRHasBlock, SoloInv, PromotionSound
  <2> QED BY <1>0, <1>3, <2>2, <2>3, <2>4, GitKept DEF SoloInv, PromotionSound
<1>4. CASE /\ Ahead(s) /\ OpenPRs(s) = {} /\ Goto(r, "persist")
           /\ prs' = [prs EXCEPT ![s] = Append(prs[s], "open")]
  <2> DEFINE n == Len(prs[s]) + 1
  <2>1. prs[s] \in Seq({"open", "merged", "closed"}) BY <1>2 DEF PRInv, PRTypeOK
  <2>2. prs'[s] = Append(prs[s], "open") /\ \A t \in Subs \ {s} : prs'[t] = prs[t]
    BY <1>2, <1>4 DEF PRInv, PRTypeOK
  <2>3. OpenPRs(s)' \subseteq {n}
    <3> SUFFICES ASSUME NEW m \in 1 .. Len(prs'[s]), prs'[s][m] = "open"
                 PROVE  m = n
      BY <1>0 DEF OpenPRs
    <3>1. Len(prs[s]) \in Nat /\ Len(prs'[s]) = n BY <2>1, <2>2
    <3>2. CASE m \in 1 .. Len(prs[s])
      <4>1. prs'[s][m] = prs[s][m] BY <2>1, <2>2, <3>2
      <4> QED BY <1>4, <3>2, <4>1 DEF OpenPRs
    <3> QED BY <3>1, <3>2
  <2>4. \A t \in Subs \ {s} : OpenPRs(t)' = OpenPRs(t) BY <2>2 DEF OpenPRs
  <2>5. \A t : (Ahead(t)' <=> Ahead(t)) /\ (Exists(t)' <=> Exists(t))
    BY <1>0 DEF Ahead, Exists
  <2>6. pc'[r] = "persist" BY <1>4 DEF Goto
  <2>7. PutInv' BY <1>1, <2>6 DEF PutInv
  <2>8. FoundInv' BY <1>0, <1>1, <1>4, <2>5, <2>6 DEF FoundInv
  <2>9. OpenInv'
    <3> SUFFICES ASSUME NEW t \in Subs
                 PROVE  /\ \A i, j \in OpenPRs(t)' : i = j
                        /\ OpenPRs(t)' # {} => Exists(t)'
      BY DEF OpenInv
    <3>1. CASE t = s BY <1>0, <1>4, <2>3, <2>5, <3>1 DEF Ahead
    <3>2. CASE t # s BY <2>4, <2>5, <3>2 DEF OpenInv, SoloInv
    <3> QED BY <3>1, <3>2
  <2>10. RecordedPRHasBlock'
    BY <1>0, <2>4, <2>5 DEF RecordedPRHasBlock, SoloInv, PromotionSound
  <2>11. BlockAddedOnce'
    BY <1>0, <2>5 DEF BlockAddedOnce, SoloInv, PromotionSound
  <2> QED BY <2>7, <2>8, <2>9, <2>10, <2>11 DEF SoloInv, PromotionSound
<1> QED BY <1>3, <1>4 DEF CreatePR

\* What editors do: merge, close, delete the branch, commit to the base.
LEMMA SoloEditors ==
    ASSUME PRInv, SoloInv, Grown,
           (\E s \in Subs : MergePR(s) \/ ClosePR(s)) \/ OtherCommit
    PROVE  SoloInv'
<1> USE OldTypes
<1>0. UNCHANGED <<url, cutOff, pc, sub, sha, found>>
  BY DEF MergePR, ClosePR, OtherCommit, Editing, rowVars, runVars
\* A branch and its PRs stay as they are, or a PR of it is no longer open and
\* then the branch may be gone.
<1>1. \A t \in Subs :
        /\ OpenPRs(t)' \subseteq OpenPRs(t)
        /\ branch'[t] = branch[t] \/ (~Exists(t)' /\ OpenPRs(t)' = {})
  <2>1. CASE OtherCommit BY <2>1 DEF OtherCommit, OpenPRs
  <2>2. ASSUME NEW s \in Subs, MergePR(s) \/ ClosePR(s), NEW t \in Subs
        PROVE  /\ OpenPRs(t)' \subseteq OpenPRs(t)
               /\ branch'[t] = branch[t] \/ (~Exists(t)' /\ OpenPRs(t)' = {})
    <3>1. PICK n \in OpenPRs(s), state \in {"merged", "closed"} :
              prs' = [prs EXCEPT ![s][n] = state]
      BY <2>2, Zenon DEF MergePR, ClosePR
    <3>2. branch' \in {branch, [branch EXCEPT ![s] = Absent]}
      BY <2>2, Zenon DEF MergePR, ClosePR
    <3>3. /\ \A u \in Subs \ {s} : prs'[u] = prs[u]
          /\ OpenPRs(s)' = OpenPRs(s) \ {n}
      BY <3>1, PRClosed
    <3>4. CASE t = s
      <4>1. OpenPRs(s)' = {} BY <3>3 DEF SoloInv, OpenInv
      <4>2. branch'[s] = branch[s] \/ branch'[s].fork = 0
        BY <3>2 DEF Absent, PRInv, PRTypeOK
      <4> QED BY <3>4, <4>1, <4>2 DEF Exists
    <3>5. CASE t # s
      <4>1. branch'[t] = branch[t] BY <3>2, <3>5 DEF PRInv, PRTypeOK
      <4>2. OpenPRs(t)' = OpenPRs(t) BY <3>3, <3>5 DEF OpenPRs
      <4> QED BY <4>1, <4>2
    <3> QED BY <3>4, <3>5
  <2> QED BY <2>1, <2>2
<1>2. \A t \in Subs : Exists(t)' =>
        /\ branch'[t] = branch[t] /\ Exists(t)
        /\ base'[branch'[t].fork] = base[branch[t].fork]
  BY <1>1, BranchKept
<1>3. \A t \in Subs : Ahead(t) /\ Exists(t)' => Ahead(t)'
  BY <1>2 DEF Ahead
<1>4. OpenInv'
  <2> SUFFICES ASSUME NEW t \in Subs
               PROVE  /\ \A i, j \in OpenPRs(t)' : i = j
                      /\ OpenPRs(t)' # {} => Exists(t)'
    BY DEF OpenInv
  <2>1. /\ \A i, j \in OpenPRs(t) : i = j
        /\ OpenPRs(t) # {} => Exists(t)
    BY DEF OpenInv, SoloInv
  <2>2. branch'[t] = branch[t] => (Exists(t)' <=> Exists(t)) BY DEF Exists
  <2> QED BY <1>1, <2>1, <2>2
<1>5. \A t \in Subs : OpenPRs(t)' # {} => Exists(t)' BY <1>4 DEF OpenInv
<1>6. FoundInv'
  <2> SUFFICES ASSUME NEW r \in Runners, pc[r] = "persist", found[r] \in OpenPRs(sub[r])'
               PROVE  Ahead(sub[r])'
    BY <1>0 DEF FoundInv, SoloInv
  <2>1. sub[r] \in Subs BY DEF PRInv, RunInv
  <2> QED BY <1>0, <1>1, <1>3, <1>5, <2>1 DEF FoundInv, SoloInv
<1>7. PutInv'
  <2> SUFFICES ASSUME NEW r \in Runners, pc[r] \in {"put", "pr", "find"}, Exists(sub[r])'
               PROVE  /\ pc[r] = "put" => branch'[sub[r]] =
                                            [fork |-> sha[r], file |-> base'[sha[r]]]
                      /\ pc[r] # "put" => Ahead(sub[r])'
    BY <1>0 DEF PutInv
  <2>1. sub[r] \in Subs /\ sha[r] \in 1 .. Len(base)
    <3>1. pc[r] # "idle" /\ pc[r] \in Steps \ {"idle", "sha", "persist"} BY DEF Steps
    <3>2. sub[r] \in Subs /\ sha[r] # 0 BY <3>1 DEF PRInv, RunInv
    <3> QED BY <3>2
  <2>2. base'[sha[r]] = base[sha[r]] BY <2>1 DEF Grown
  <2>3. Exists(sub[r]) /\ branch'[sub[r]] = branch[sub[r]] BY <1>0, <1>2, <2>1
  <2>4. CASE pc[r] = "put" BY <2>2, <2>3, <2>4 DEF SoloInv, PutInv
  <2>5. CASE pc[r] # "put"
    <3>1. Ahead(sub[r]) BY <2>3, <2>5 DEF SoloInv, PutInv
    <3> QED BY <1>0, <1>3, <2>1, <2>5, <3>1
  <2> QED BY <2>4, <2>5
<1>8. RecordedPRHasBlock'
  <2> SUFFICES ASSUME NEW t \in Subs, url[t] \in OpenPRs(t)', t \notin cutOff,
                      \A r \in Runners : sub[r] # t
               PROVE  Ahead(t)'
    BY <1>0 DEF RecordedPRHasBlock
  <2>1. Ahead(t) BY <1>1 DEF RecordedPRHasBlock, SoloInv, PromotionSound
  <2> QED BY <1>3, <1>5, <2>1
<1>9. BlockAddedOnce'
  BY <1>2 DEF BlockAddedOnce, SoloInv, PromotionSound
<1> QED BY <1>4, <1>6, <1>7, <1>8, <1>9 DEF SoloInv, PromotionSound

\* Every step keeps the invariant.
LEMMA SoloStep ==
    ASSUME OneRunner
    PROVE  PRInv /\ SoloInv /\ [PRNext]_pvars => SoloInv'
<1> SUFFICES ASSUME PRInv, SoloInv, [PRNext]_pvars PROVE SoloInv'
  OBVIOUS
<1>1. Grown BY BaseGrows
<1>2. CASE UNCHANGED pvars
  <2>1. UNCHANGED <<base, branch, prs, url, cutOff, pc, sub, sha, found>>
    BY <1>2 DEF pvars, gitVars, rowVars, runVars
  <2>2. PutInv' /\ FoundInv' BY <2>1, GitKept DEF PutInv, FoundInv, SoloInv
  <2>3. RecordedPRHasBlock'
    BY <2>1, GitKept DEF RecordedPRHasBlock, SoloInv, PromotionSound
  <2> QED BY <2>1, <2>2, <2>3, GitKept DEF SoloInv, PromotionSound
<1>3. CASE \E r \in Runners, s \in Subs : Start(r, s) BY <1>3, SoloReads
<1>4. CASE \E r \in Runners : CallStep(r) \/ CallFails(r) \/ CutOff(r)
  BY <1>1, <1>4, SoloReads, SoloWrites, SoloCreatePR DEF CallStep
<1>5. CASE (\E s \in Subs : MergePR(s) \/ ClosePR(s)) \/ OtherCommit
  BY <1>1, <1>5, SoloEditors
<1> QED BY <1>2, <1>3, <1>4, <1>5 DEF PRNext

\* When runs of openPR do not overlap, whatever calls fail, whatever responses
\* are lost and wherever a process dies, a branch holds the block at most once
\* and the URL on the row is that of a PR with the block in it.
THEOREM PromotionIsSound ==
    ASSUME OneRunner
    PROVE  PRSpec => []PromotionSound
<1>1. SoloInv => PromotionSound BY DEF SoloInv
<1> QED BY <1>1, PRInvariance, SoloInit, SoloStep, PTL DEF PRSpec

=============================================================================
