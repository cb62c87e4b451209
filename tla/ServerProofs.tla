---------------------------- MODULE ServerProofs ----------------------------
(***************************************************************************)
(* Safety of the promotion worker, for any number of submissions, handlers *)
(* and stoppers and any buffer size, and then of the server process around *)
(* it: no approval is enqueued twice or lost in silence by an orderly      *)
(* shutdown, and the table keeps the lifecycle of a submission.  The       *)
(* worker's own invariant is used as it stands: a step of the server is a  *)
(* step of the worker, leaves the worker alone, or is the Kill that ends   *)
(* the process.                                                            *)
(***************************************************************************)
EXTENDS Server, SequenceTheorems, TLAPS

-----------------------------------------------------------------------------
(* The worker: the inductive invariant.                                    *)

\* The lock excludes readers and writers, and the goroutines that hold it
\* are those between acquiring and releasing it.
LockInv ==
    /\ \A h \in Handlers : h \in readers <=> hpc[h] \in {"check", "send", "runlock"}
    /\ \A st \in Stoppers : st \in writers <=> spc[st] \in {"close", "unlock"}
    /\ \A a, b \in writers : a = b
    /\ writers = {} \/ readers = {}

\* A handler that has passed the check under the lock finds the channel open.
CloseInv ==
    /\ closed = stopped
    /\ \A h \in Handlers : hpc[h] = "send" => ~stopped
    /\ \A st \in Stoppers :
           spc[st] \in {"unlock", "wait", "collect", "clean", "timeout"} => stopped
    /\ ~panicked

\* A submission being enqueued is in one handler's hands only, and new.
HandlerInv ==
    /\ \A h \in Handlers : hpc[h] = "idle" <=> hjob[h] = NoSub
    /\ \A h \in Handlers : hpc[h] \in {"rlock", "check", "send"} => verdict[hjob[h]] = "none"
    /\ \A g, h \in Handlers : hjob[g] = hjob[h] /\ hjob[g] # NoSub => g = h

\* What Run holds: a queued job, published in inflight while it is processed.
RunInv ==
    /\ cur = NoSub <=> rpc \in {"select", "exited"}
    /\ cur # NoSub => verdict[cur] = "queued"
    /\ inflight \in {NoSub, cur}
    /\ rpc = "clear" => outcome[cur] # "none"
    /\ rpc \in {"received", "process"} => outcome[cur] = "none"
    /\ draining => canceled
    /\ \A s \in Subs : verdict[s] # "queued" => outcome[s] = "none"
    /\ \A st \in Stoppers : \A s \in dropped[st] : verdict[s] = "queued"

\* Buffered jobs are queued, pairwise different, and in nobody else's hands.
BufferInv ==
    /\ \A i, j \in 1 .. Len(jobs) : jobs[i] = jobs[j] => i = j
    /\ \A i \in 1 .. Len(jobs) :
           /\ verdict[jobs[i]] = "queued"
           /\ outcome[jobs[i]] = "none"
           /\ jobs[i] # cur
           /\ \A st \in Stoppers : jobs[i] \notin dropped[st]

\* Every queued job is attempted, reported, in Run's hands or in the buffer.
PlaceInv ==
    \A s \in Subs : verdict[s] = "queued" /\ outcome[s] = "none" /\ s # cur
        => \/ \E st \in Stoppers : s \in dropped[st]
           \/ \E i \in 1 .. Len(jobs) : jobs[i] = s

\* How Run and Stop may have ended.
EndInv ==
    /\ rpc = "exited" => canceled \/ (closed /\ jobs = <<>>)
    /\ rpc = "exited" => \A i \in 1 .. Len(jobs) : jobs[i] \notin atCancel
    /\ \A s \in atCancel : verdict[s] = "queued"
    /\ ~canceled => atCancel = {}
    /\ \A st \in Stoppers : spc[st] = "clean" => rpc = "exited"
    /\ \A st \in Stoppers : spc[st] = "timeout" => jobs = <<>>

WorkerInv ==
    /\ WorkerTypeOK /\ LockInv /\ CloseInv /\ HandlerInv
    /\ RunInv /\ BufferInv /\ PlaceInv /\ EndInv

-----------------------------------------------------------------------------
\* An element of a nonempty sequence is its head or is in its tail.
LEMMA HeadOrTail ==
    ASSUME NEW S, NEW q \in Seq(S), q # <<>>, NEW i \in 1 .. Len(q)
    PROVE  q[i] = Head(q) \/ \E j \in 1 .. Len(Tail(q)) : Tail(q)[j] = q[i]
<1>1. CASE i = 1 BY <1>1
<1>2. CASE i # 1
  <2>1. i - 1 \in 1 .. Len(Tail(q)) /\ Tail(q)[i - 1] = q[i]
    BY <1>2, HeadTailProperties, LenProperties
  <2> QED BY <2>1
<1> QED BY <1>1, <1>2

\* The initial state satisfies the invariant.
LEMMA WorkerInitInv == WorkerInit => WorkerInv
<1> SUFFICES ASSUME WorkerInit PROVE WorkerInv
  OBVIOUS
<1> USE WorkerAssumption DEF WorkerInit
<1>1. WorkerTypeOK
  <2>1. jobs \in Seq(Subs) /\ Len(jobs) <= BufferSize BY EmptySeq
  <2>2. dropped \in [Stoppers -> SUBSET Subs] OBVIOUS
  <2>3. verdict \in [Subs -> Verdict] /\ outcome \in [Subs -> Outcome]
    BY DEF Verdict, Outcome
  <2> QED BY <2>1, <2>2, <2>3 DEF WorkerTypeOK
<1>2. LockInv /\ CloseInv /\ HandlerInv BY DEF LockInv, CloseInv, HandlerInv
<1>3. RunInv /\ BufferInv /\ PlaceInv BY DEF RunInv, BufferInv, PlaceInv
<1>4. EndInv BY DEF EndInv
<1> QED BY <1>1, <1>2, <1>3, <1>4 DEF WorkerInv

\* Every step of handlers, Run, Stop and the context's owner preserves it.
LEMMA WorkerNextInv == WorkerInv /\ [WorkerNext]_wvars => WorkerInv'
<1> SUFFICES ASSUME WorkerInv, [WorkerNext]_wvars PROVE WorkerInv'
  OBVIOUS
<1> USE WorkerAssumption
    DEF WorkerInv, lockVars, chanVars, enqVars, runVars, stopVars, ctxVars
<1>1. ASSUME NEW h \in Handlers, NEW s \in Subs, Unused(s), EnqueueCall(h, s) PROVE WorkerInv'
  <2>1. WorkerTypeOK' BY <1>1 DEF EnqueueCall, WorkerTypeOK, HandlerInv, Unused, Verdict, Outcome
  <2>2. LockInv' BY <1>1 DEF EnqueueCall, WorkerTypeOK, LockInv
  <2>3. CloseInv' BY <1>1 DEF EnqueueCall, WorkerTypeOK, LockInv, CloseInv
  <2>4. HandlerInv' BY <1>1 DEF EnqueueCall, WorkerTypeOK, HandlerInv, Unused
  <2>5. RunInv' BY <1>1 DEF EnqueueCall, WorkerTypeOK, HandlerInv, RunInv, BufferInv, Unused
  <2>6. BufferInv' BY <1>1 DEF EnqueueCall, WorkerTypeOK, HandlerInv, RunInv, BufferInv, Unused
  <2>7. PlaceInv' BY <1>1 DEF EnqueueCall, WorkerTypeOK, RunInv, BufferInv, PlaceInv, Unused
  <2>8. EndInv' BY <1>1 DEF EnqueueCall, WorkerTypeOK, CloseInv, HandlerInv, RunInv, EndInv, Unused
  <2> QED BY <2>1, <2>2, <2>3, <2>4, <2>5, <2>6, <2>7, <2>8
<1>2. ASSUME NEW h \in Handlers, EnqueueRLock(h) PROVE WorkerInv'
  <2>1. WorkerTypeOK' BY <1>2 DEF EnqueueRLock, WorkerTypeOK, HandlerInv, Verdict, Outcome
  <2>2. LockInv' BY <1>2 DEF EnqueueRLock, WorkerTypeOK, LockInv
  <2>3. CloseInv' BY <1>2 DEF EnqueueRLock, WorkerTypeOK, LockInv, CloseInv
  <2>4. HandlerInv' BY <1>2 DEF EnqueueRLock, WorkerTypeOK, HandlerInv
  <2>5. RunInv' /\ BufferInv' /\ PlaceInv' /\ EndInv'
    BY <1>2 DEF EnqueueRLock, RunInv, BufferInv, PlaceInv, EndInv
  <2> QED BY <2>1, <2>2, <2>3, <2>4, <2>5
<1>3. ASSUME NEW h \in Handlers, EnqueueCheck(h) PROVE WorkerInv'
  <2>1. WorkerTypeOK' BY <1>3 DEF EnqueueCheck, WorkerTypeOK, HandlerInv, Verdict, Outcome
  <2>2. LockInv' BY <1>3 DEF EnqueueCheck, WorkerTypeOK, LockInv
  <2>3. CloseInv' BY <1>3 DEF EnqueueCheck, WorkerTypeOK, LockInv, CloseInv
  <2>4. HandlerInv' BY <1>3 DEF EnqueueCheck, WorkerTypeOK, HandlerInv
  <2>5. RunInv' BY <1>3 DEF EnqueueCheck, WorkerTypeOK, HandlerInv, RunInv, BufferInv
  <2>6. BufferInv' BY <1>3 DEF EnqueueCheck, WorkerTypeOK, HandlerInv, RunInv, BufferInv
  <2>7. PlaceInv' BY <1>3 DEF EnqueueCheck, WorkerTypeOK, RunInv, BufferInv, PlaceInv
  <2>8. EndInv' BY <1>3 DEF EnqueueCheck, WorkerTypeOK, CloseInv, HandlerInv, RunInv, EndInv
  <2> QED BY <2>1, <2>2, <2>3, <2>4, <2>5, <2>6, <2>7, <2>8
<1>4. ASSUME NEW h \in Handlers, EnqueueSend(h) PROVE WorkerInv'
  <2> DEFINE s == hjob[h]
  <2>1. s \in Subs /\ verdict[s] = "none" /\ ~closed /\ ~stopped
    BY <1>4 DEF EnqueueSend, WorkerTypeOK, HandlerInv, CloseInv
  <2>2. /\ s # cur /\ \A i \in 1 .. Len(jobs) : jobs[i] # s
        /\ \A st \in Stoppers : s \notin dropped[st]
        /\ outcome[s] = "none" /\ s \notin atCancel
    BY <2>1 DEF RunInv, BufferInv, EndInv, WorkerTypeOK
  <2>3. LockInv' /\ HandlerInv' /\ RunInv'
    BY <1>4, <2>1, <2>2 DEF EnqueueSend, WorkerTypeOK, LockInv, HandlerInv, RunInv
  <2>4. CloseInv' BY <1>4, <2>1 DEF EnqueueSend, WorkerTypeOK, CloseInv
  <2>5. CASE /\ Len(jobs) < BufferSize
             /\ jobs' = Append(jobs, s)
             /\ verdict' = [verdict EXCEPT ![s] = "queued"]
    <3>1. /\ jobs' \in Seq(Subs) /\ Len(jobs') = Len(jobs) + 1
          /\ \A i \in 1 .. Len(jobs) : jobs'[i] = jobs[i]
          /\ jobs'[Len(jobs) + 1] = s
      BY <2>1, <2>5, AppendProperties DEF WorkerTypeOK
    <3>2. WorkerTypeOK'
      BY <1>4, <2>1, <2>5, <3>1, LenProperties DEF EnqueueSend, WorkerTypeOK, Verdict
    <3>3. BufferInv'
      BY <1>4, <2>1, <2>2, <2>5, <3>1, LenProperties DEF EnqueueSend, WorkerTypeOK, BufferInv
    <3>4. PlaceInv'
      BY <1>4, <2>1, <2>2, <2>5, <3>1, LenProperties DEF EnqueueSend, WorkerTypeOK, PlaceInv
    <3>5. EndInv'
      BY <1>4, <2>1, <2>2, <2>5, <3>1, LenProperties
      DEF EnqueueSend, WorkerTypeOK, CloseInv, EndInv
    <3> QED BY <2>3, <2>4, <3>2, <3>3, <3>4, <3>5
  <2>6. CASE verdict' = [verdict EXCEPT ![s] = "full"] /\ UNCHANGED jobs
    <3>1. WorkerTypeOK' BY <1>4, <2>1, <2>6 DEF EnqueueSend, WorkerTypeOK, Verdict
    <3>2. BufferInv' /\ PlaceInv'
      BY <1>4, <2>1, <2>2, <2>6 DEF EnqueueSend, WorkerTypeOK, BufferInv, PlaceInv
    <3>3. EndInv' BY <1>4, <2>1, <2>2, <2>6 DEF EnqueueSend, WorkerTypeOK, EndInv
    <3> QED BY <2>3, <2>4, <3>1, <3>2, <3>3
  <2> QED BY <1>4, <2>5, <2>6 DEF EnqueueSend
<1>5. ASSUME NEW h \in Handlers, EnqueueRUnlock(h) PROVE WorkerInv'
  <2>1. WorkerTypeOK' BY <1>5 DEF EnqueueRUnlock, WorkerTypeOK, HandlerInv, Verdict, Outcome
  <2>2. LockInv' BY <1>5 DEF EnqueueRUnlock, WorkerTypeOK, LockInv
  <2>3. CloseInv' BY <1>5 DEF EnqueueRUnlock, WorkerTypeOK, LockInv, CloseInv
  <2>4. HandlerInv' BY <1>5 DEF EnqueueRUnlock, WorkerTypeOK, HandlerInv
  <2>5. RunInv' /\ BufferInv' /\ PlaceInv' /\ EndInv'
    BY <1>5 DEF EnqueueRUnlock, RunInv, BufferInv, PlaceInv, EndInv
  <2> QED BY <2>1, <2>2, <2>3, <2>4, <2>5
<1>6. ASSUME RunReceive PROVE WorkerInv'
  <2>1. WorkerTypeOK' BY <1>6 DEF RunReceive, WorkerTypeOK, HandlerInv, Verdict, Outcome
  <2>2. RunInv' BY <1>6 DEF RunReceive, WorkerTypeOK, HandlerInv, RunInv, BufferInv
  <2>3. BufferInv' BY <1>6 DEF RunReceive, WorkerTypeOK, HandlerInv, RunInv, BufferInv
  <2>4. PlaceInv'
    BY <1>6, HeadOrTail DEF RunReceive, WorkerTypeOK, RunInv, BufferInv, PlaceInv
  <2>5. EndInv' BY <1>6 DEF RunReceive, WorkerTypeOK, CloseInv, HandlerInv, RunInv, EndInv
  <2>6. LockInv' /\ CloseInv' /\ HandlerInv'
    BY <1>6 DEF RunReceive, LockInv, CloseInv, HandlerInv
  <2> QED BY <2>1, <2>2, <2>3, <2>4, <2>5, <2>6
<1>7. ASSUME RunExit PROVE WorkerInv'
  <2>1. WorkerTypeOK' BY <1>7 DEF RunExit, WorkerTypeOK, HandlerInv, Verdict, Outcome
  <2>2. RunInv' BY <1>7 DEF RunExit, WorkerTypeOK, HandlerInv, RunInv, BufferInv
  <2>3. EndInv' BY <1>7 DEF RunExit, WorkerTypeOK, CloseInv, HandlerInv, RunInv, EndInv
  <2>4. LockInv' /\ CloseInv' /\ HandlerInv' /\ BufferInv' /\ PlaceInv'
    BY <1>7 DEF RunExit, LockInv, CloseInv, HandlerInv, BufferInv, PlaceInv
  <2> QED BY <2>1, <2>2, <2>3, <2>4
<1>8. ASSUME RunCanceled PROVE WorkerInv'
  <2>1. WorkerTypeOK' BY <1>8 DEF RunCanceled, WorkerTypeOK, HandlerInv, Verdict, Outcome
  <2>2. RunInv' BY <1>8 DEF RunCanceled, WorkerTypeOK, HandlerInv, RunInv, BufferInv
  <2>3. LockInv' /\ CloseInv' /\ HandlerInv' /\ BufferInv' /\ PlaceInv' /\ EndInv'
    BY <1>8 DEF RunCanceled, LockInv, CloseInv, HandlerInv, BufferInv, PlaceInv, EndInv
  <2> QED BY <2>1, <2>2, <2>3
<1>9. ASSUME TrackInflight PROVE WorkerInv'
  <2>1. WorkerTypeOK' BY <1>9 DEF TrackInflight, WorkerTypeOK, HandlerInv, Verdict, Outcome
  <2>2. RunInv' BY <1>9 DEF TrackInflight, WorkerTypeOK, HandlerInv, RunInv, BufferInv
  <2>3. EndInv' BY <1>9 DEF TrackInflight, WorkerTypeOK, CloseInv, HandlerInv, RunInv, EndInv
  <2>4. LockInv' /\ CloseInv' /\ HandlerInv' /\ BufferInv' /\ PlaceInv'
    BY <1>9 DEF TrackInflight, LockInv, CloseInv, HandlerInv, BufferInv, PlaceInv
  <2> QED BY <2>1, <2>2, <2>3, <2>4
<1>10. ASSUME NEW result \in Outcome \ {"none"}, Process(result) PROVE WorkerInv'
  <2>1. WorkerTypeOK' BY <1>10 DEF Process, WorkerTypeOK, HandlerInv, Verdict, Outcome
  <2>2. RunInv' BY <1>10 DEF Process, WorkerTypeOK, HandlerInv, RunInv, BufferInv
  <2>3. BufferInv' BY <1>10 DEF Process, WorkerTypeOK, HandlerInv, RunInv, BufferInv
  <2>4. PlaceInv' BY <1>10 DEF Process, WorkerTypeOK, RunInv, BufferInv, PlaceInv
  <2>5. EndInv' BY <1>10 DEF Process, WorkerTypeOK, CloseInv, HandlerInv, RunInv, EndInv
  <2>6. LockInv' /\ CloseInv' /\ HandlerInv'
    BY <1>10 DEF Process, LockInv, CloseInv, HandlerInv
  <2> QED BY <2>1, <2>2, <2>3, <2>4, <2>5, <2>6
<1>11. ASSUME ClearInflight PROVE WorkerInv'
  <2>1. WorkerTypeOK' BY <1>11 DEF ClearInflight, WorkerTypeOK, HandlerInv, Verdict, Outcome
  <2>2. RunInv' BY <1>11 DEF ClearInflight, WorkerTypeOK, HandlerInv, RunInv, BufferInv
  <2>3. BufferInv' BY <1>11 DEF ClearInflight, WorkerTypeOK, HandlerInv, RunInv, BufferInv
  <2>4. PlaceInv' BY <1>11 DEF ClearInflight, WorkerTypeOK, RunInv, BufferInv, PlaceInv
  <2>5. EndInv' BY <1>11 DEF ClearInflight, WorkerTypeOK, CloseInv, HandlerInv, RunInv, EndInv
  <2>6. LockInv' /\ CloseInv' /\ HandlerInv'
    BY <1>11 DEF ClearInflight, LockInv, CloseInv, HandlerInv
  <2> QED BY <2>1, <2>2, <2>3, <2>4, <2>5, <2>6
<1>12. ASSUME Cancel PROVE WorkerInv'
  <2>1. WorkerTypeOK' BY <1>12 DEF Cancel, WorkerTypeOK, HandlerInv, Verdict, Outcome, Range
  <2>2. RunInv' BY <1>12 DEF Cancel, WorkerTypeOK, HandlerInv, RunInv, BufferInv
  <2>3. EndInv' BY <1>12 DEF Cancel, WorkerTypeOK, CloseInv, HandlerInv, RunInv, EndInv, Range, BufferInv
  <2>4. LockInv' /\ CloseInv' /\ HandlerInv' /\ BufferInv' /\ PlaceInv'
    BY <1>12 DEF Cancel, LockInv, CloseInv, HandlerInv, BufferInv, PlaceInv
  <2> QED BY <2>1, <2>2, <2>3, <2>4
<1>13. ASSUME NEW st \in Stoppers, StopCall(st) PROVE WorkerInv'
  <2>1. WorkerTypeOK' BY <1>13 DEF StopCall, WorkerTypeOK, HandlerInv, Verdict, Outcome
  <2>2. LockInv' BY <1>13 DEF StopCall, WorkerTypeOK, LockInv
  <2>3. CloseInv' BY <1>13 DEF StopCall, WorkerTypeOK, LockInv, CloseInv
  <2>4. EndInv' BY <1>13 DEF StopCall, WorkerTypeOK, CloseInv, HandlerInv, RunInv, EndInv
  <2>5. HandlerInv' /\ RunInv' /\ BufferInv' /\ PlaceInv'
    BY <1>13 DEF StopCall, HandlerInv, RunInv, BufferInv, PlaceInv
  <2> QED BY <2>1, <2>2, <2>3, <2>4, <2>5
<1>14. ASSUME NEW st \in Stoppers, StopLock(st) PROVE WorkerInv'
  <2>1. WorkerTypeOK' BY <1>14 DEF StopLock, WorkerTypeOK, HandlerInv, Verdict, Outcome
  <2>2. LockInv' BY <1>14 DEF StopLock, WorkerTypeOK, LockInv
  <2>3. CloseInv' BY <1>14 DEF StopLock, WorkerTypeOK, LockInv, CloseInv
  <2>4. EndInv' BY <1>14 DEF StopLock, WorkerTypeOK, CloseInv, HandlerInv, RunInv, EndInv
  <2>5. HandlerInv' /\ RunInv' /\ BufferInv' /\ PlaceInv'
    BY <1>14 DEF StopLock, HandlerInv, RunInv, BufferInv, PlaceInv
  <2> QED BY <2>1, <2>2, <2>3, <2>4, <2>5
<1>15. ASSUME NEW st \in Stoppers, StopClose(st) PROVE WorkerInv'
  <2>1. WorkerTypeOK' BY <1>15 DEF StopClose, WorkerTypeOK, HandlerInv, Verdict, Outcome
  <2>2. LockInv' BY <1>15 DEF StopClose, WorkerTypeOK, LockInv
  <2>3. CloseInv'
    <3>1. \A h \in Handlers : hpc[h] # "send" BY <1>15 DEF StopClose, LockInv
    <3>2. ~panicked' BY <1>15 DEF StopClose, CloseInv
    <3>3. closed' = stopped' /\ stopped' BY <1>15 DEF StopClose, CloseInv, WorkerTypeOK
    <3> QED BY <1>15, <3>1, <3>2, <3>3 DEF StopClose, CloseInv
  <2>4. EndInv' BY <1>15 DEF StopClose, WorkerTypeOK, CloseInv, HandlerInv, RunInv, EndInv
  <2>5. HandlerInv' /\ RunInv' /\ BufferInv' /\ PlaceInv'
    BY <1>15 DEF StopClose, HandlerInv, RunInv, BufferInv, PlaceInv
  <2> QED BY <2>1, <2>2, <2>3, <2>4, <2>5
<1>16. ASSUME NEW st \in Stoppers, StopUnlock(st) PROVE WorkerInv'
  <2>1. WorkerTypeOK' BY <1>16 DEF StopUnlock, WorkerTypeOK, HandlerInv, Verdict, Outcome
  <2>2. LockInv' BY <1>16 DEF StopUnlock, WorkerTypeOK, LockInv
  <2>3. CloseInv' BY <1>16 DEF StopUnlock, WorkerTypeOK, LockInv, CloseInv
  <2>4. EndInv' BY <1>16 DEF StopUnlock, WorkerTypeOK, CloseInv, HandlerInv, RunInv, EndInv
  <2>5. HandlerInv' /\ RunInv' /\ BufferInv' /\ PlaceInv'
    BY <1>16 DEF StopUnlock, HandlerInv, RunInv, BufferInv, PlaceInv
  <2> QED BY <2>1, <2>2, <2>3, <2>4, <2>5
<1>17. ASSUME NEW st \in Stoppers, StopClean(st) PROVE WorkerInv'
  <2>1. WorkerTypeOK' BY <1>17 DEF StopClean, WorkerTypeOK, HandlerInv, Verdict, Outcome
  <2>2. LockInv' BY <1>17 DEF StopClean, WorkerTypeOK, LockInv
  <2>3. CloseInv' BY <1>17 DEF StopClean, WorkerTypeOK, LockInv, CloseInv
  <2>4. EndInv' BY <1>17 DEF StopClean, WorkerTypeOK, CloseInv, HandlerInv, RunInv, EndInv
  <2>5. HandlerInv' /\ RunInv' /\ BufferInv' /\ PlaceInv'
    BY <1>17 DEF StopClean, HandlerInv, RunInv, BufferInv, PlaceInv
  <2> QED BY <2>1, <2>2, <2>3, <2>4, <2>5
<1>18. ASSUME NEW st \in Stoppers, StopDeadline(st) PROVE WorkerInv'
  <2>1. WorkerTypeOK' BY <1>18 DEF StopDeadline, WorkerTypeOK, HandlerInv, Verdict, Outcome
  <2>2. LockInv' BY <1>18 DEF StopDeadline, WorkerTypeOK, LockInv
  <2>3. CloseInv' BY <1>18 DEF StopDeadline, WorkerTypeOK, LockInv, CloseInv
  <2>4. RunInv' BY <1>18 DEF StopDeadline, WorkerTypeOK, HandlerInv, RunInv, BufferInv
  <2>5. BufferInv' BY <1>18 DEF StopDeadline, WorkerTypeOK, HandlerInv, RunInv, BufferInv
  <2>6. PlaceInv' BY <1>18 DEF StopDeadline, WorkerTypeOK, RunInv, BufferInv, PlaceInv
  <2>7. EndInv' BY <1>18 DEF StopDeadline, WorkerTypeOK, CloseInv, HandlerInv, RunInv, EndInv
  <2>8. HandlerInv'
    BY <1>18 DEF StopDeadline, HandlerInv
  <2> QED BY <2>1, <2>2, <2>3, <2>4, <2>5, <2>6, <2>7, <2>8
<1>19. ASSUME NEW st \in Stoppers, StopCollect(st) PROVE WorkerInv'
  <2>1. WorkerTypeOK' BY <1>19 DEF StopCollect, WorkerTypeOK, HandlerInv, Verdict, Outcome
  <2>2. RunInv' BY <1>19 DEF StopCollect, WorkerTypeOK, HandlerInv, RunInv, BufferInv
  <2>3. BufferInv' BY <1>19 DEF StopCollect, WorkerTypeOK, HandlerInv, RunInv, BufferInv
  <2>4. PlaceInv'
    BY <1>19, HeadOrTail DEF StopCollect, WorkerTypeOK, RunInv, BufferInv, PlaceInv
  <2>5. EndInv' BY <1>19 DEF StopCollect, WorkerTypeOK, CloseInv, HandlerInv, RunInv, EndInv
  <2>6. LockInv' /\ CloseInv' /\ HandlerInv'
    BY <1>19 DEF StopCollect, LockInv, CloseInv, HandlerInv
  <2> QED BY <2>1, <2>2, <2>3, <2>4, <2>5, <2>6
<1>20. ASSUME NEW st \in Stoppers, StopTimedOut(st) PROVE WorkerInv'
  <2>1. WorkerTypeOK' BY <1>20 DEF StopTimedOut, WorkerTypeOK, HandlerInv, Verdict, Outcome
  <2>2. LockInv' BY <1>20 DEF StopTimedOut, WorkerTypeOK, LockInv
  <2>3. CloseInv' BY <1>20 DEF StopTimedOut, WorkerTypeOK, LockInv, CloseInv
  <2>4. EndInv' BY <1>20 DEF StopTimedOut, WorkerTypeOK, CloseInv, HandlerInv, RunInv, EndInv
  <2>5. HandlerInv' /\ RunInv' /\ BufferInv' /\ PlaceInv'
    BY <1>20 DEF StopTimedOut, HandlerInv, RunInv, BufferInv, PlaceInv
  <2> QED BY <2>1, <2>2, <2>3, <2>4, <2>5
<1>21. CASE UNCHANGED wvars
  BY <1>21 DEF wvars, WorkerTypeOK, LockInv, CloseInv, HandlerInv, RunInv, BufferInv,
     PlaceInv, EndInv
<1> QED
  BY <1>1, <1>2, <1>3, <1>4, <1>5, <1>6, <1>7, <1>8, <1>9, <1>10, <1>11,
     <1>12, <1>13, <1>14, <1>15, <1>16, <1>17, <1>18, <1>19, <1>20, <1>21
  DEF WorkerNext, EnqueueStep, RunStep, StopStep

-----------------------------------------------------------------------------
\* The invariant holds in every reachable state.
THEOREM WorkerInvariance == WorkerSpec => []WorkerInv
  BY WorkerInitInv, WorkerNextInv, PTL DEF WorkerSpec

\* Every variable keeps its type and the buffer its bound: Enqueue never
\* puts more than BufferSize jobs in the channel.
THEOREM WorkerTypeCorrect == WorkerSpec => []WorkerTypeOK
<1>1. WorkerInv => WorkerTypeOK BY DEF WorkerInv
<1> QED BY <1>1, WorkerInvariance, PTL

\* No handler sends on the channel Stop closed and no Stop closes it twice,
\* for any number of concurrent Enqueue and Stop calls.
THEOREM WorkerNeverPanics == WorkerSpec => []NoPanic
<1>1. WorkerInv => NoPanic BY DEF WorkerInv, CloseInv, NoPanic
<1> QED BY <1>1, WorkerInvariance, PTL

\* Run and any number of collecting Stops never get the same job.
THEOREM WorkerConsumesOnce == WorkerSpec => []ConsumedOnce
<1>1. WorkerInv => ConsumedOnce
  BY DEF WorkerInv, WorkerTypeOK, BufferInv, ConsumedOnce, Attempted, Reported
<1> QED BY <1>1, WorkerInvariance, PTL

\* A nil return of Stop means that no accepted job is left behind, except
\* one enqueued after a canceled Run had gone.
THEOREM CleanStopTheorem == WorkerSpec => []CleanStopIsComplete
<1>1. WorkerInv => CleanStopIsComplete
  <2> SUFFICES ASSUME WorkerInv, NEW st \in Stoppers, spc[st] = "clean",
                      NEW s \in Unaccounted
               PROVE  s \in (IF canceled THEN Range(jobs) \ atCancel ELSE {})
    BY DEF CleanStopIsComplete
  <2>1. rpc = "exited" /\ cur = NoSub BY DEF WorkerInv, EndInv, RunInv
  <2>2. /\ s \in Subs /\ verdict[s] = "queued" /\ outcome[s] = "none"
        /\ \A p \in Stoppers : s \notin dropped[p]
    BY DEF Unaccounted, Accepted, Attempted, Reported
  <2>3. PICK i \in 1 .. Len(jobs) : jobs[i] = s
    BY <2>1, <2>2, WorkerAssumption DEF WorkerInv, PlaceInv
  <2>4. canceled BY <2>1, <2>3 DEF WorkerInv, EndInv
  <2>5. s \in Range(jobs) BY <2>3 DEF WorkerInv, WorkerTypeOK, Range
  <2>6. s \notin atCancel BY <2>1, <2>3 DEF WorkerInv, EndInv
  <2> QED BY <2>4, <2>5, <2>6
<1> QED BY <1>1, WorkerInvariance, PTL

\* The list of a Stop that timed out misses at most the job in Run's hands.
THEOREM TimedOutStopTheorem == WorkerSpec => []TimedOutStopMissesOnlyCur
<1>1. WorkerInv => TimedOutStopMissesOnlyCur
  BY DEF WorkerInv, WorkerTypeOK, PlaceInv, EndInv, TimedOutStopMissesOnlyCur,
     Unaccounted, Accepted, Attempted, Reported
<1> QED BY <1>1, WorkerInvariance, PTL

\* A canceled Run leaves none of the jobs buffered at that time behind.
THEOREM CancelDrainsTheorem == WorkerSpec => []CancelDrainsBuffer
<1>1. WorkerInv => CancelDrainsBuffer
  BY DEF WorkerInv, WorkerTypeOK, EndInv, CancelDrainsBuffer, Range
<1> QED BY <1>1, WorkerInvariance, PTL

-----------------------------------------------------------------------------
(* Refinement.                                                             *)

\* A submission's abstract state depends on these three observations only.
LEMMA QueueStutters ==
    UNCHANGED <<verdict, outcome, dropped, stopped>> => UNCHANGED Queue!qvars
  BY DEF Queue!qvars, JobOf, Attempted, Reported

\* A step that changes the abstract state of one submission x is a Move of x.
LEMMA QueueMoves ==
    ASSUME NEW x \in Subs, NEW from, NEW to, UNCHANGED stopped,
           JobOf(x) \in from, JobOf(x)' = to,
           \A s \in Subs \ {x} : JobOf(s)' = JobOf(s)
    PROVE  Queue!Move(x, from, to)
  BY DEF Queue!Move

\* The worker implements the abstract queue: every step is an Accept, a
\* Refuse, an Attempt, a Report, the Close, or invisible.
THEOREM WorkerImplementsQueue == WorkerSpec => ImplementsQueue
<1>1. WorkerInit => Queue!QInit
  BY DEF WorkerInit, Queue!QInit, JobOf, Attempted, Reported
<1>2. ASSUME WorkerInv, WorkerInv', [WorkerNext]_wvars PROVE [Queue!QNext]_(Queue!qvars)
  <2> USE WorkerAssumption DEF lockVars, chanVars, enqVars, runVars, stopVars, ctxVars
  <2> USE <1>2
  <2>1. ASSUME NEW h \in Handlers, NEW s \in Subs, Unused(s), EnqueueCall(h, s)
        PROVE  [Queue!QNext]_(Queue!qvars)
    <3>1. CASE token BY <2>1, <3>1, QueueStutters DEF EnqueueCall
    <3>2. CASE ~token
      <4>1. Queue!Move(s, {"new"}, "refused")
        BY <2>1, <3>2, QueueMoves
        DEF EnqueueCall, Unused, JobOf, Attempted, Reported, WorkerInv, WorkerTypeOK, RunInv
      <4> QED BY <4>1 DEF Queue!QNext, Queue!Refuse
    <3> QED BY <3>1, <3>2
  <2>2. ASSUME NEW h \in Handlers, EnqueueCheck(h) PROVE [Queue!QNext]_(Queue!qvars)
    <3>1. CASE ~stopped BY <2>2, <3>1, QueueStutters DEF EnqueueCheck
    <3>2. CASE stopped
      <4>1. hjob[h] \in Subs /\ verdict[hjob[h]] = "none"
        BY <2>2 DEF EnqueueCheck, WorkerInv, WorkerTypeOK, HandlerInv
      <4>2. Queue!Move(hjob[h], {"new"}, "refused")
        BY <2>2, <3>2, <4>1, QueueMoves
        DEF EnqueueCheck, JobOf, Attempted, Reported, WorkerInv, WorkerTypeOK, RunInv
      <4> QED BY <4>1, <4>2 DEF Queue!QNext, Queue!Refuse
    <3> QED BY <3>1, <3>2
  <2>3. ASSUME NEW h \in Handlers, EnqueueSend(h) PROVE [Queue!QNext]_(Queue!qvars)
    <3>1. hjob[h] \in Subs /\ verdict[hjob[h]] = "none" /\ ~stopped
      BY <2>3 DEF EnqueueSend, WorkerInv, WorkerTypeOK, HandlerInv, CloseInv
    <3>2. CASE verdict' = [verdict EXCEPT ![hjob[h]] = "queued"]
      <4>1. Queue!Move(hjob[h], {"new"}, "accepted")
        BY <2>3, <3>1, <3>2, QueueMoves
        DEF EnqueueSend, JobOf, Attempted, Reported, WorkerInv, WorkerTypeOK, RunInv
      <4> QED BY <3>1, <4>1 DEF Queue!QNext, Queue!Accept
    <3>3. CASE verdict' = [verdict EXCEPT ![hjob[h]] = "full"]
      <4>1. Queue!Move(hjob[h], {"new"}, "refused")
        BY <2>3, <3>1, <3>3, QueueMoves
        DEF EnqueueSend, JobOf, Attempted, Reported, WorkerInv, WorkerTypeOK, RunInv
      <4> QED BY <3>1, <4>1 DEF Queue!QNext, Queue!Refuse
    <3> QED BY <2>3, <3>2, <3>3 DEF EnqueueSend
  <2>4. ASSUME NEW result \in Outcome \ {"none"}, Process(result)
        PROVE  [Queue!QNext]_(Queue!qvars)
    <3>1. cur \in Subs /\ verdict[cur] = "queued" /\ outcome[cur] = "none"
      BY <2>4 DEF Process, WorkerInv, WorkerTypeOK, RunInv
    <3>2. Queue!Move(cur, {"accepted", "reported"}, "attempted")
      BY <2>4, <3>1, QueueMoves
      DEF Process, JobOf, Attempted, Reported, WorkerInv, WorkerTypeOK, Outcome
    <3> QED BY <3>1, <3>2 DEF Queue!QNext, Queue!Attempt
  <2>5. ASSUME NEW st \in Stoppers, StopClose(st) PROVE [Queue!QNext]_(Queue!qvars)
    <3>1. UNCHANGED [s \in Subs |-> JobOf(s)]
      BY <2>5 DEF StopClose, JobOf, Attempted, Reported
    <3>2. stopped' = TRUE
      BY <2>5 DEF StopClose, WorkerInv, WorkerTypeOK
    <3> QED BY <3>1, <3>2 DEF Queue!QNext, Queue!Close
  <2>6. ASSUME NEW st \in Stoppers, StopDeadline(st) PROVE [Queue!QNext]_(Queue!qvars)
    <3>1. CASE inflight = NoSub
      BY <2>6, <3>1, QueueStutters DEF StopDeadline, WorkerInv, WorkerTypeOK
    <3>2. CASE inflight # NoSub
      <4>1. /\ inflight \in Subs /\ verdict[inflight] = "queued"
            /\ dropped' = [dropped EXCEPT ![st] = @ \cup {inflight}]
        BY <2>6, <3>2 DEF StopDeadline, WorkerInv, WorkerTypeOK, RunInv
      <4>2. \A s \in Subs \ {inflight} : JobOf(s)' = JobOf(s)
        BY <2>6, <4>1 DEF StopDeadline, JobOf, Attempted, Reported, WorkerInv, WorkerTypeOK
      <4>3. inflight \in Reported'
        BY <4>1 DEF Reported, WorkerInv, WorkerTypeOK
      <4>4. CASE JobOf(inflight) = "accepted"
        <5>1. inflight \notin Attempted /\ inflight \notin Attempted'
          BY <2>6, <4>4 DEF JobOf, StopDeadline, Attempted
        <5>2. JobOf(inflight)' = "reported"
          BY <4>3, <5>1, <2>6 DEF JobOf, StopDeadline
        <5>3. Queue!Move(inflight, {"accepted"}, "reported")
          BY <2>6, <4>1, <4>2, <4>4, <5>2, QueueMoves DEF StopDeadline
        <5> QED BY <4>1, <5>3 DEF Queue!QNext, Queue!Report
      <4>5. CASE JobOf(inflight) # "accepted"
        <5>1. JobOf(inflight)' = JobOf(inflight)
          BY <2>6, <4>1, <4>3, <4>5 DEF StopDeadline, JobOf, Attempted
        <5>2. UNCHANGED Queue!qvars
          BY <2>6, <4>2, <5>1 DEF StopDeadline, Queue!qvars
        <5> QED BY <5>2
      <4> QED BY <4>4, <4>5
    <3> QED BY <3>1, <3>2
  <2>7. ASSUME NEW st \in Stoppers, StopCollect(st) PROVE [Queue!QNext]_(Queue!qvars)
    <3>1. PICK x \in Subs : x = Head(jobs) /\ verdict[x] = "queued" /\ outcome[x] = "none"
      BY <2>7, EmptySeq DEF StopCollect, WorkerInv, WorkerTypeOK, BufferInv
    <3>2. \A p \in Stoppers : x \notin dropped[p]
      BY <2>7, <3>1, EmptySeq DEF StopCollect, WorkerInv, WorkerTypeOK, BufferInv
    <3>3. dropped' = [dropped EXCEPT ![st] = @ \cup {x}] BY <2>7, <3>1 DEF StopCollect
    <3>4. JobOf(x) = "accepted"
      BY <3>1, <3>2 DEF JobOf, Attempted, Reported
    <3>5. JobOf(x)' = "reported"
      <4>1. x \in Reported' BY <3>3 DEF Reported, WorkerInv, WorkerTypeOK
      <4>2. x \notin Attempted' BY <2>7, <3>1 DEF StopCollect, Attempted
      <4> QED BY <4>1, <4>2 DEF JobOf
    <3>6. \A s \in Subs \ {x} : JobOf(s)' = JobOf(s)
      BY <2>7, <3>3 DEF StopCollect, JobOf, Attempted, Reported, WorkerInv, WorkerTypeOK
    <3>7. Queue!Move(x, {"accepted"}, "reported")
      BY <2>7, <3>1, <3>4, <3>5, <3>6, QueueMoves DEF StopCollect
    <3> QED BY <3>1, <3>7 DEF Queue!QNext, Queue!Report
  <2>8. ASSUME UNCHANGED <<verdict, outcome, dropped, stopped>>
        PROVE  [Queue!QNext]_(Queue!qvars)
    BY <2>8, QueueStutters
  <2>9. CASE \E h \in Handlers : EnqueueRLock(h) \/ EnqueueRUnlock(h)
    BY <2>8, <2>9 DEF EnqueueRLock, EnqueueRUnlock
  <2>10. CASE \/ RunReceive \/ RunExit \/ RunCanceled \/ TrackInflight \/ ClearInflight
              \/ Cancel
    BY <2>8, <2>10
    DEF RunReceive, RunExit, RunCanceled, TrackInflight, ClearInflight, Cancel
  <2>11. CASE \E st \in Stoppers : \/ StopCall(st) \/ StopLock(st) \/ StopUnlock(st)
                                    \/ StopClean(st) \/ StopTimedOut(st)
    BY <2>8, <2>11 DEF StopCall, StopLock, StopUnlock, StopClean, StopTimedOut
  <2>12. CASE UNCHANGED wvars BY <2>8, <2>12 DEF wvars
  <2> QED
    BY <2>1, <2>2, <2>3, <2>4, <2>5, <2>6, <2>7, <2>9, <2>10, <2>11, <2>12
    DEF WorkerNext, EnqueueStep, RunStep, StopStep
<1> QED
  BY <1>1, <1>2, WorkerInvariance, PTL DEF WorkerSpec, ImplementsQueue, Queue!QSpec

-----------------------------------------------------------------------------
(* The server: the inductive invariant.                                    *)

\* The variables Server adds have their types, and the context given to Run
\* is never canceled.
ServerTypeOK ==
    /\ status \in [Subs -> {"absent", "pending", "approved", "rejected"}]
    /\ row \in [Subs -> {"none", "pr", "error"}]
    /\ req \in [Handlers -> {"idle", "approved", "enqueue"}]
    /\ rsub \in [Handlers -> Subs \cup {NoSub}]
    /\ http \in {"serving", "draining", "drained", "timedout"}
    /\ sd \in {"running", "http", "stop", "stopping", "returned", "dbclosed", "exited"}
    /\ cause \in {"none", "signal", "listener", "killed"}
    /\ told \in SUBSET Subs
    /\ ~canceled

\* A submission in a handler's hands is approved, is in no other handler's
\* hands, and reaches Enqueue once: its verdict is open until the call.
RequestInv ==
    /\ \A h \in Handlers : req[h] = "idle" <=> rsub[h] = NoSub
    /\ \A h \in Handlers : rsub[h] # NoSub => status[rsub[h]] = "approved"
    /\ \A g, h \in Handlers : rsub[g] = rsub[h] /\ rsub[g] # NoSub => g = h
    /\ \A h \in Handlers : req[h] = "approved" => verdict[rsub[h]] = "none"
    /\ \A h \in Handlers : hjob[h] # NoSub => req[h] = "enqueue" /\ hjob[h] = rsub[h]
    /\ \A h \in Handlers :
           req[h] = "enqueue" /\ (hjob[h] = NoSub \/ hpc[h] = "runlock")
               => verdict[rsub[h]] # "none"
    /\ \A s \in Subs : verdict[s] # "none" => status[s] = "approved"

\* As long as the process was not killed, an approval without a result is
\* reported, in a handler's hands or in the worker's, and what the worker
\* recorded is in the table.
ApprovalInv ==
    cause # "killed" =>
        /\ \A s \in Subs : status[s] = "approved" /\ row[s] = "none" =>
               s \in told \/ verdict[s] = "queued" \/ \E h \in Handlers : rsub[h] = s
        /\ \A s \in Subs : outcome[s] \in {"pr", "error"} => row[s] # "none"

\* What the phases of awaitShutdown leave behind.
ShutdownInv ==
    /\ sd = "running" => cause = "none"
    /\ sd \in {"http", "stop", "stopping"} => cause = "signal"
    /\ cause = "killed" => sd = "exited"
    /\ sd \in {"stop", "stopping"} => http \in {"drained", "timedout"}
    /\ cause = "signal" /\ sd \in {"returned", "dbclosed", "exited"}
           => spc[Main] \in {"clean", "timeout"} /\ http \in {"drained", "timedout"}
    /\ http = "drained" => \A h \in Handlers : req[h] = "idle"

ServerInv ==
    ServerConfig /\ WorkerInv /\ ServerTypeOK /\ RequestInv /\ ApprovalInv /\ ShutdownInv

-----------------------------------------------------------------------------
\* The initial state satisfies the invariant.
LEMMA ServerInitInv == ServerInit => ServerInv
<1> SUFFICES ASSUME ServerInit PROVE ServerInv
  OBVIOUS
<1> USE WorkerAssumption DEF ServerInit
<1>1. WorkerInv BY WorkerInitInv
<1>2. ServerTypeOK BY DEF ServerTypeOK, WorkerInit
<1>3. RequestInv BY DEF RequestInv, WorkerInit
<1>4. ApprovalInv /\ ShutdownInv BY DEF ApprovalInv, ShutdownInv, WorkerInit
<1> QED BY <1>1, <1>2, <1>3, <1>4 DEF ServerInv

\* A submission an approve handler is about to enqueue is new to the worker.
LEMMA HandOverIsNew ==
    ASSUME ServerInv, NEW h \in Handlers, req[h] = "approved"
    PROVE  rsub[h] \in Subs /\ Unused(rsub[h])
  BY WorkerAssumption DEF ServerInv, ServerTypeOK, RequestInv, Unused

\* Every step of the server but Kill is a step of the worker or leaves it alone.
LEMMA ServerStepsWorker ==
    ASSUME ServerInv, ServerNext, ~Kill
    PROVE  [WorkerNext]_wvars
<1>1. ASSUME NEW h \in Handlers, HandOver(h) PROVE WorkerNext
  BY <1>1, HandOverIsNew DEF HandOver, WorkerNext
<1>2. ASSUME NEW h \in Handlers, ServerEnqueueStep(h) PROVE WorkerNext
  BY <1>2 DEF ServerEnqueueStep, WorkerNext
<1>3. ASSUME ServerRunStep PROVE WorkerNext
  BY <1>3 DEF ServerRunStep, PersistingProcess, WorkerNext, RunStep
<1>4. ASSUME CallStop \/ ServerStopStep PROVE WorkerNext
  BY <1>4 DEF CallStop, ServerStopStep, WorkerNext, ServerInv, ServerConfig
<1>5. ASSUME NEW h \in Handlers, Respond(h) \/ AttachError(h) PROVE UNCHANGED wvars
  BY <1>5 DEF Respond, AttachError, Answer
<1>6. ASSUME \E s \in Subs : CreateStore(s) \/ RejectStore(s) PROVE UNCHANGED wvars
  BY <1>6 DEF CreateStore, RejectStore
<1>7. ASSUME \E h \in Handlers, s \in Subs : ApproveStore(h, s) PROVE UNCHANGED wvars
  BY <1>7 DEF ApproveStore
<1>8. ASSUME \/ Signal \/ ListenerError \/ HTTPShutdown \/ StopReturned \/ CloseStore \/ Exit
             \/ \E s \in Subs, result \in {"pr", "error"} : RetryPR(s, result)
      PROVE  UNCHANGED wvars
  BY <1>8 DEF Signal, ListenerError, HTTPShutdown, StopReturned, CloseStore, Exit, RetryPR
<1> QED
  BY <1>1, <1>2, <1>3, <1>4, <1>5, <1>6, <1>7, <1>8 DEF ServerNext, HandlerStep, MainStep

\* A killed process leaves the worker as a new one would find it.
LEMMA KillResetsWorker ==
    ASSUME ServerInv, Kill
    PROVE  WorkerInv'
<1>1. WorkerInit'
  <2>1. token' \in BOOLEAN /\ canceled' = FALSE /\ atCancel' = {} /\ panicked' = FALSE
    BY DEF Kill, ctxVars, ServerInv, ServerTypeOK, WorkerInv, WorkerTypeOK, CloseInv, EndInv
  <2> QED BY <2>1 DEF Kill, WorkerInit
<1>2. WorkerInit' => WorkerInv' BY WorkerInitInv, PTL
<1> QED BY <1>1, <1>2

\* Every step of handlers, worker, main and operator preserves the invariant.
LEMMA ServerNextInv == ServerInv /\ [ServerNext]_svars => ServerInv'
<1> SUFFICES ASSUME ServerInv, [ServerNext]_svars PROVE ServerInv'
  OBVIOUS
<1> USE WorkerAssumption DEF ServerInv, tableVars, reqVars, mainVars
<1>1. WorkerInv'
  <2>1. CASE Kill BY <2>1, KillResetsWorker
  <2>2. CASE ServerNext /\ ~Kill BY <2>2, ServerStepsWorker, WorkerNextInv
  <2>3. CASE UNCHANGED svars BY <2>3, WorkerNextInv DEF svars
  <2> QED BY <2>1, <2>2, <2>3
<1>2. ASSUME NEW s \in Subs, CreateStore(s) \/ RejectStore(s) PROVE ServerInv'
  <2>1. UNCHANGED <<verdict, outcome, hjob, hpc, spc, canceled>>
    BY <1>2 DEF CreateStore, RejectStore, wvars, enqVars, runVars, stopVars, ctxVars
  <2>2. ServerTypeOK' BY <1>2, <2>1 DEF CreateStore, RejectStore, ServerTypeOK
  <2>3. RequestInv' BY <1>2, <2>1 DEF CreateStore, RejectStore, ServerTypeOK, RequestInv
  <2>4. ApprovalInv' BY <1>2, <2>1 DEF CreateStore, RejectStore, ServerTypeOK, ApprovalInv
  <2>5. ShutdownInv' BY <1>2, <2>1 DEF CreateStore, RejectStore, ShutdownInv
  <2> QED BY <1>1, <2>2, <2>3, <2>4, <2>5
<1>3. ASSUME NEW h \in Handlers, NEW s \in Subs, ApproveStore(h, s) PROVE ServerInv'
  <2>1. UNCHANGED <<verdict, outcome, hjob, hpc, spc, canceled>>
    BY <1>3 DEF ApproveStore, wvars, enqVars, runVars, stopVars, ctxVars
  <2>2. verdict[s] = "none" /\ \A g \in Handlers : rsub[g] # s
    BY <1>3 DEF ApproveStore, RequestInv, ServerTypeOK
  <2>3. hjob[h] = NoSub BY <1>3 DEF ApproveStore, RequestInv
  <2>4. ServerTypeOK' BY <1>3, <2>1 DEF ApproveStore, ServerTypeOK
  <2>5. RequestInv' BY <1>3, <2>1, <2>2, <2>3 DEF ApproveStore, ServerTypeOK, RequestInv
  <2>6. ApprovalInv' BY <1>3, <2>1 DEF ApproveStore, ServerTypeOK, ApprovalInv, RequestInv
  <2>7. ShutdownInv' BY <1>3, <2>1 DEF ApproveStore, ShutdownInv, Accepting
  <2> QED BY <1>1, <2>4, <2>5, <2>6, <2>7
<1>4. ASSUME NEW h \in Handlers, HandOver(h) PROVE ServerInv'
  <2>1. rsub[h] \in Subs /\ Unused(rsub[h]) BY <1>4, HandOverIsNew DEF HandOver
  <2>2. UNCHANGED <<outcome, spc, canceled, tableVars, rsub, mainVars, told>>
    BY <1>4 DEF HandOver, EnqueueCall, runVars, stopVars, ctxVars
  <2>3. \/ verdict' = [verdict EXCEPT ![rsub[h]] = "disabled"] /\ UNCHANGED <<hpc, hjob>>
        \/ /\ hpc' = [hpc EXCEPT ![h] = "rlock"]
           /\ hjob' = [hjob EXCEPT ![h] = rsub[h]]
           /\ UNCHANGED verdict
    BY <1>4 DEF HandOver, EnqueueCall
  <2>4. req' = [req EXCEPT ![h] = "enqueue"] /\ req[h] = "approved" BY <1>4 DEF HandOver
  <2>5. /\ verdict \in [Subs -> Verdict] /\ hjob \in [Handlers -> Subs \cup {NoSub}]
        /\ hpc \in [Handlers -> {"idle", "rlock", "check", "send", "runlock"}]
    BY DEF WorkerInv, WorkerTypeOK
  <2>6. ServerTypeOK' BY <2>2, <2>4 DEF ServerTypeOK
  <2>7. RequestInv'
    <3>1. CASE verdict' = [verdict EXCEPT ![rsub[h]] = "disabled"] /\ UNCHANGED <<hpc, hjob>>
      BY <2>1, <2>2, <2>4, <2>5, <3>1 DEF ServerTypeOK, RequestInv, Unused
    <3>2. CASE /\ hpc' = [hpc EXCEPT ![h] = "rlock"]
               /\ hjob' = [hjob EXCEPT ![h] = rsub[h]]
               /\ UNCHANGED verdict
      BY <2>1, <2>2, <2>4, <2>5, <3>2 DEF ServerTypeOK, RequestInv, Unused
    <3> QED BY <2>3, <3>1, <3>2
  <2>8. ApprovalInv' BY <2>1, <2>2, <2>3, <2>5 DEF ApprovalInv, Unused
  <2>9. ShutdownInv' BY <2>2, <2>4 DEF ShutdownInv, ServerTypeOK
  <2> QED BY <1>1, <2>6, <2>7, <2>8, <2>9
<1>5. ASSUME NEW h \in Handlers, ServerEnqueueStep(h) PROVE ServerInv'
  <2>1. UNCHANGED <<outcome, spc, canceled, tableVars, reqVars, mainVars, told>>
    BY <1>5 DEF ServerEnqueueStep, EnqueueStep, EnqueueRLock, EnqueueCheck, EnqueueSend,
       EnqueueRUnlock, runVars, stopVars, ctxVars
  <2>2. hjob[h] \in Subs /\ rsub[h] = hjob[h] /\ req[h] = "enqueue"
    BY <1>5 DEF ServerEnqueueStep, EnqueueStep, EnqueueRLock, EnqueueCheck, EnqueueSend,
       EnqueueRUnlock, WorkerInv, WorkerTypeOK, HandlerInv, RequestInv
  <2>3. /\ \A g \in Handlers \ {h} : hpc'[g] = hpc[g]
        /\ \/ UNCHANGED <<verdict, hjob>> /\ hpc'[h] # "runlock"
           \/ /\ verdict[hjob[h]] = "none"
              /\ \E v \in {"queued", "stopped", "full"} :
                     verdict' = [verdict EXCEPT ![hjob[h]] = v]
              /\ UNCHANGED hjob
           \/ /\ hpc[h] = "runlock"
              /\ hjob' = [hjob EXCEPT ![h] = NoSub]
              /\ UNCHANGED verdict
    <3> USE DEF WorkerInv, WorkerTypeOK, HandlerInv
    <3>1. CASE EnqueueRLock(h) BY <3>1 DEF EnqueueRLock
    <3>2. CASE EnqueueCheck(h) BY <3>2 DEF EnqueueCheck
    <3>3. CASE EnqueueSend(h) BY <3>3 DEF EnqueueSend
    <3>4. CASE EnqueueRUnlock(h) BY <3>4 DEF EnqueueRUnlock
    <3> QED BY <1>5, <3>1, <3>2, <3>3, <3>4 DEF ServerEnqueueStep, EnqueueStep
  <2>4. verdict \in [Subs -> Verdict] /\ hjob \in [Handlers -> Subs \cup {NoSub}]
    BY DEF WorkerInv, WorkerTypeOK
  <2>5. ServerTypeOK' BY <2>1 DEF ServerTypeOK
  <2>6. RequestInv' BY <2>1, <2>2, <2>3, <2>4 DEF RequestInv, ServerTypeOK
  <2>7. ApprovalInv' BY <2>1, <2>2, <2>3, <2>4 DEF ApprovalInv
  <2>8. ShutdownInv' BY <2>1 DEF ShutdownInv
  <2> QED BY <1>1, <2>5, <2>6, <2>7, <2>8
<1>6. ASSUME NEW h \in Handlers, Respond(h) \/ AttachError(h) PROVE ServerInv'
  <2>1. UNCHANGED <<verdict, outcome, hjob, hpc, spc, canceled, status, mainVars>>
    BY <1>6 DEF Respond, AttachError, Answer, wvars, enqVars, runVars, stopVars, ctxVars
  <2>2. /\ req' = [req EXCEPT ![h] = "idle"] /\ rsub' = [rsub EXCEPT ![h] = NoSub]
        /\ req[h] = "enqueue" /\ hpc[h] = "idle"
    BY <1>6 DEF Respond, AttachError, Answer
  <2>3. rsub[h] \in Subs /\ hjob[h] = NoSub
    BY <2>2 DEF RequestInv, ServerTypeOK, WorkerInv, HandlerInv
  <2>4. \/ verdict[rsub[h]] = "queued" /\ UNCHANGED <<row, told>>
        \/ row' = [row EXCEPT ![rsub[h]] = "error"] /\ UNCHANGED told
        \/ told' = told \cup {rsub[h]} /\ UNCHANGED row
    BY <1>6 DEF Respond, AttachError
  <2>5. ServerTypeOK' BY <2>1, <2>2, <2>3, <2>4 DEF ServerTypeOK
  <2>6. RequestInv' BY <2>1, <2>2, <2>3 DEF RequestInv, ServerTypeOK
  <2>7. ApprovalInv'
    BY <2>1, <2>2, <2>3, <2>4 DEF ApprovalInv, ServerTypeOK
  <2>8. ShutdownInv' BY <2>1, <2>2 DEF ShutdownInv, ServerTypeOK
  <2> QED BY <1>1, <2>5, <2>6, <2>7, <2>8
<1>7. ASSUME ServerRunStep PROVE ServerInv'
  <2>1. UNCHANGED <<verdict, hjob, hpc, spc, canceled, status, reqVars, mainVars, told>>
    BY <1>7 DEF ServerRunStep, PersistingProcess, Process, RunReceive, RunExit, TrackInflight,
       ClearInflight, enqVars, stopVars, ctxVars
  <2>2. CASE UNCHANGED <<row, outcome>>
    <3>1. ServerTypeOK' /\ RequestInv' /\ ApprovalInv' /\ ShutdownInv'
      BY <2>1, <2>2 DEF ServerTypeOK, RequestInv, ApprovalInv, ShutdownInv
    <3> QED BY <1>1, <3>1
  <2>3. ASSUME NEW result \in Outcome \ {"none"}, PersistingProcess(result) PROVE ServerInv'
    <3>1. cur \in Subs /\ outcome \in [Subs -> Outcome]
      BY <2>3 DEF PersistingProcess, Process, WorkerInv, WorkerTypeOK, RunInv
    <3>2. /\ outcome' = [outcome EXCEPT ![cur] = result]
          /\ \/ result = "unrecorded" /\ UNCHANGED row
             \/ result \in {"pr", "error"} /\ row' = [row EXCEPT ![cur] = result]
      BY <2>3 DEF PersistingProcess, Process, Outcome
    <3>3. ServerTypeOK' BY <2>1, <3>1, <3>2 DEF ServerTypeOK
    <3>4. RequestInv' /\ ShutdownInv' BY <2>1 DEF RequestInv, ShutdownInv
    <3>5. ApprovalInv' BY <2>1, <3>1, <3>2 DEF ApprovalInv, ServerTypeOK
    <3> QED BY <1>1, <3>3, <3>4, <3>5
  <2>4. CASE RunReceive \/ RunExit \/ TrackInflight \/ ClearInflight
    BY <1>7, <2>2, <2>3, <2>4
    DEF ServerRunStep, RunReceive, RunExit, TrackInflight, ClearInflight
  <2> QED BY <1>7, <2>3, <2>4 DEF ServerRunStep
<1>8. ASSUME CallStop \/ ServerStopStep PROVE ServerInv'
  <2>1. UNCHANGED <<verdict, outcome, hjob, hpc, canceled, tableVars, reqVars, http, cause, told>>
    BY <1>8 DEF CallStop, ServerStopStep, StopStep, StopCall, StopLock, StopClose, StopUnlock,
       StopClean, StopDeadline, StopCollect, StopTimedOut, enqVars, runVars, ctxVars
  <2>2. spc[Main] \notin {"clean", "timeout"}
    BY <1>8 DEF CallStop, ServerStopStep, StopStep, StopCall, StopLock, StopClose, StopUnlock,
       StopClean, StopDeadline, StopCollect, StopTimedOut
  <2>3. sd' = sd \/ (sd = "stop" /\ sd' = "stopping")
    BY <1>8 DEF CallStop, ServerStopStep
  <2>4. ServerTypeOK' BY <2>1, <2>3 DEF ServerTypeOK
  <2>5. RequestInv' /\ ApprovalInv' BY <2>1 DEF RequestInv, ApprovalInv
  <2>6. ShutdownInv' BY <2>1, <2>2, <2>3 DEF ShutdownInv
  <2> QED BY <1>1, <2>4, <2>5, <2>6
<1>9. ASSUME \/ Signal \/ ListenerError \/ HTTPShutdown \/ StopReturned \/ CloseStore \/ Exit
      PROVE  ServerInv'
  <2> USE DEF Signal, ListenerError, HTTPShutdown, StopReturned, CloseStore, Exit
  <2>1. UNCHANGED <<verdict, outcome, hjob, hpc, spc, canceled, tableVars, reqVars, told>>
    BY <1>9 DEF wvars, enqVars, runVars, stopVars, ctxVars
  <2>2. ServerTypeOK' BY <1>9, <2>1 DEF ServerTypeOK
  <2>3. RequestInv' BY <2>1 DEF RequestInv
  <2>4. cause' = cause \/ (cause = "none" /\ cause' \in {"signal", "listener"})
    BY <1>9 DEF ShutdownInv
  <2>5. ApprovalInv' BY <2>1, <2>4 DEF ApprovalInv
  <2>6. ShutdownInv' BY <1>9, <2>1 DEF ShutdownInv
  <2> QED BY <1>1, <2>2, <2>3, <2>5, <2>6
<1>10. ASSUME Kill PROVE ServerInv'
  <2>1. ServerTypeOK' BY <1>10 DEF Kill, ServerTypeOK, ctxVars
  <2>2. RequestInv' BY <1>10 DEF Kill, RequestInv, ServerTypeOK
  <2>3. ApprovalInv' /\ ShutdownInv' BY <1>10 DEF Kill, ApprovalInv, ShutdownInv
  <2> QED BY <1>1, <2>1, <2>2, <2>3
<1>11. ASSUME NEW s \in Subs, NEW result \in {"pr", "error"}, RetryPR(s, result)
       PROVE  ServerInv'
  <2>1. UNCHANGED <<verdict, outcome, hjob, hpc, spc, canceled, status, reqVars, mainVars, told>>
    BY <1>11 DEF RetryPR, wvars, enqVars, runVars, stopVars, ctxVars
  <2>2. ServerTypeOK' BY <1>11, <2>1 DEF RetryPR, ServerTypeOK
  <2>3. RequestInv' /\ ShutdownInv' BY <2>1 DEF RequestInv, ShutdownInv
  <2>4. ApprovalInv' BY <1>11, <2>1 DEF RetryPR, ApprovalInv, ServerTypeOK
  <2> QED BY <1>1, <2>2, <2>3, <2>4
<1>12. CASE UNCHANGED svars
  <2>1. UNCHANGED <<verdict, outcome, hjob, hpc, spc, canceled, status, row, reqVars, mainVars, told>>
    BY <1>12 DEF svars, wvars, enqVars, runVars, stopVars, ctxVars
  <2>2. ServerTypeOK' /\ RequestInv' /\ ApprovalInv' /\ ShutdownInv'
    BY <2>1 DEF ServerTypeOK, RequestInv, ApprovalInv, ShutdownInv
  <2> QED BY <1>1, <2>2
<1> QED
  BY <1>2, <1>3, <1>4, <1>5, <1>6, <1>7, <1>8, <1>9, <1>10, <1>11, <1>12
  DEF ServerNext, HandlerStep, MainStep

-----------------------------------------------------------------------------
\* The invariant holds in every reachable state.
THEOREM ServerInvariance == ServerSpec => []ServerInv
  BY ServerInitInv, ServerNextInv, PTL DEF ServerSpec

\* However many moderators approve, and however often, a submission enters
\* the worker's channel at most once.
THEOREM ServerEnqueuesOnce == ServerSpec => []ApprovalEnqueuedOnce
<1>1. ServerInv => ApprovalEnqueuedOnce
  <2>1. WorkerInv => ConsumedOnce
    BY DEF WorkerInv, WorkerTypeOK, BufferInv, ConsumedOnce, Attempted, Reported
  <2> QED BY <2>1 DEF ServerInv, RequestInv, ApprovalEnqueuedOnce
<1> QED BY <1>1, ServerInvariance, PTL

\* When the process has ended after a signal, every approved submission has
\* a PR URL or an error on its row, or its loss was answered, logged, listed
\* as dropped, or cut off by a deadline that had passed.
THEOREM ServerLosesNothingSilently == ServerSpec => []NothingSilentlyLost
<1>1. ServerInv => NothingSilentlyLost
  <2> SUFFICES ASSUME ServerInv, sd = "exited", cause = "signal",
                      NEW s \in Subs, status[s] = "approved", row[s] = "none"
               PROVE  Explained(s)
    BY DEF NothingSilentlyLost
  <2> USE WorkerAssumption
  <2>1. spc[Main] \in {"clean", "timeout"} /\ http \in {"drained", "timedout"}
    BY DEF ServerInv, ShutdownInv
  <2>2. s \in told \/ verdict[s] = "queued" \/ \E h \in Handlers : rsub[h] = s
    BY DEF ServerInv, ApprovalInv
  <2>3. ASSUME NEW h \in Handlers, rsub[h] = s PROVE http = "timedout"
    BY <2>1, <2>3 DEF ServerInv, ShutdownInv, RequestInv
  <2>4. CASE verdict[s] = "queued"
    <3>1. outcome[s] \in {"none", "unrecorded"}
      BY DEF ServerInv, ApprovalInv, WorkerInv, WorkerTypeOK, Outcome
    <3>2. jobs = <<>>
      BY <2>1 DEF ServerInv, ServerConfig, ServerTypeOK, WorkerInv, EndInv
    <3>3. CASE s = cur
      BY <2>1, <3>3 DEF Explained, ServerInv, ServerConfig, WorkerInv, EndInv, RunInv
    <3>4. CASE s # cur /\ outcome[s] = "none"
      BY <2>4, <3>2, <3>4, EmptySeq DEF Explained, ServerInv, ServerConfig, WorkerInv, PlaceInv
    <3> QED BY <3>1, <3>3, <3>4 DEF Explained
  <2> QED BY <2>2, <2>3, <2>4 DEF Explained
<1> QED BY <1>1, ServerInvariance, PTL

-----------------------------------------------------------------------------
\* Handlers, worker, main and retry-pr together keep the lifecycle of a
\* submission: every step is a transition out of absent or pending, a result
\* recorded on an approved row, or invisible in the table.
THEOREM ServerImplementsLifecycle == ServerSpec => ImplementsLifecycle
<1>1. ServerInit => Lifecycle!LInit BY DEF ServerInit, Lifecycle!LInit
<1>2. ASSUME ServerInv, [ServerNext]_svars PROVE [Lifecycle!LNext]_(Lifecycle!lvars)
  <2> USE <1>2, WorkerAssumption
      DEF ServerInv, tableVars, Lifecycle!LNext, Lifecycle!lvars, Lifecycle!Become, Lifecycle!Record
  <2>1. ASSUME NEW s \in Subs, CreateStore(s) \/ RejectStore(s) PROVE Lifecycle!LNext
    BY <2>1 DEF CreateStore, RejectStore
  <2>2. ASSUME NEW h \in Handlers, NEW s \in Subs, ApproveStore(h, s) PROVE Lifecycle!LNext
    BY <2>2 DEF ApproveStore
  <2>3. ASSUME NEW h \in Handlers, Respond(h) \/ AttachError(h)
        PROVE  [Lifecycle!LNext]_(Lifecycle!lvars)
    <3>1. rsub[h] \in Subs /\ status[rsub[h]] = "approved"
      BY <2>3 DEF Respond, AttachError, RequestInv, ServerTypeOK
    <3> QED BY <2>3, <3>1 DEF Respond, AttachError, Answer
  <2>4. ASSUME ServerRunStep PROVE [Lifecycle!LNext]_(Lifecycle!lvars)
    <3>1. ASSUME NEW result \in Outcome \ {"none"}, PersistingProcess(result)
          PROVE  [Lifecycle!LNext]_(Lifecycle!lvars)
      <4>1. cur \in Subs /\ verdict[cur] = "queued"
        BY <3>1 DEF PersistingProcess, Process, WorkerInv, WorkerTypeOK, RunInv
      <4>2. status[cur] = "approved" BY <4>1 DEF RequestInv
      <4> QED BY <3>1, <4>1, <4>2 DEF PersistingProcess, Outcome
    <3> QED BY <2>4, <3>1 DEF ServerRunStep
  <2>5. ASSUME NEW s \in Subs, NEW result \in {"pr", "error"}, RetryPR(s, result)
        PROVE  Lifecycle!LNext
    BY <2>5 DEF RetryPR
  <2>6. ASSUME \/ \E h \in Handlers : HandOver(h) \/ ServerEnqueueStep(h)
               \/ Signal \/ ListenerError \/ MainStep \/ Kill \/ UNCHANGED svars
        PROVE  UNCHANGED Lifecycle!lvars
    BY <2>6 DEF HandOver, ServerEnqueueStep, Signal, ListenerError, MainStep, HTTPShutdown,
       CallStop, ServerStopStep, StopReturned, CloseStore, Exit, Kill, svars
  <2> QED
    BY <2>1, <2>2, <2>3, <2>4, <2>5, <2>6 DEF ServerNext, HandlerStep
<1> QED
  BY <1>1, <1>2, ServerInvariance, PTL DEF ServerSpec, ImplementsLifecycle, Lifecycle!LSpec

=============================================================================
