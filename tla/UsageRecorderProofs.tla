------------------------- MODULE UsageRecorderProofs -------------------------
(***************************************************************************)
(* Safety of the usage recorder for any set of keys, any retention, buffer *)
(* cap, clock and number of events, with a store that may or may not fail. *)
(***************************************************************************)
EXTENDS UsageRecorder, FiniteSetTheorems, TLAPS

-----------------------------------------------------------------------------
(* The inductive invariant.                                                *)

\* The type invariant needs the buffered keys to be finitely many.
BoundInv == UsageTypeOK /\ IsFiniteSet(Held)

\* A flusher that is not about to write holds no counts, and one that will
\* prune does so at a cutoff that is old enough on any later day.
FlushInv ==
    \A p \in Flushers :
        /\ fpc[p] # "upsert" => batch[p] = Empty
        /\ fpc[p] # "idle" => cutoff[p] <= day - KeepDays

\* Who can still write: nobody before Wait is called, or after it has
\* returned, flushes for main, and a goroutine that has exited is idle.
OwnerInv ==
    /\ mpc # "join" => fpc["main"] = "idle"
    /\ rpc = "exited" => fpc["run"] = "idle"
    /\ result # "none" => mpc \in {"done", "closed"}
    /\ result = "nil" => rpc = "exited"

\* Once the HTTP server has drained and Wait's flush has begun, the buffer
\* stays empty.
DrainInv ==
    /\ http = "drained" => mpc \notin {"serving", "http"}
    /\ http = "drained" /\ mpc # "wait" => buf = Empty

UsageInv == BoundInv /\ CountedOnce /\ FlushInv /\ OwnerInv /\ DrainInv

-----------------------------------------------------------------------------
\* The sum of two tables of counts is a table of counts.
LEMMA PlusType ==
    ASSUME NEW f \in [Buckets -> Nat], NEW g \in [Buckets -> Nat]
    PROVE  /\ Plus(f, g) \in [Buckets -> Nat]
           /\ \A b \in Buckets : Plus(f, g)[b] = f[b] + g[b]
  BY DEF Plus

\* A buffer that holds no key is empty.
LEMMA NothingHeld ==
    ASSUME buf \in [Buckets -> Nat], Held = {}
    PROVE  buf = Empty
  BY DEF Held, Empty

\* An empty buffer holds no key.
LEMMA EmptyHeld ==
    ASSUME buf' = Empty
    PROVE  Held' = {}
  BY DEF Held, Empty

\* Adding an element to a set with room, or one it has, keeps the set's bound.
LEMMA AddBounded ==
    ASSUME NEW S, NEW x, NEW n \in Nat, IsFiniteSet(S), Cardinality(S) <= n,
           x \in S \/ ~(Cardinality(S) >= n)
    PROVE  IsFiniteSet(S \cup {x}) /\ Cardinality(S \cup {x}) <= n
<1>1. Cardinality(S) \in Nat BY FS_CardinalityType
<1> QED BY <1>1, FS_AddElement

\* The initial state satisfies the invariant.
LEMMA UsageInitInv == UsageInit => UsageInv
<1> SUFFICES ASSUME UsageInit PROVE UsageInv
  OBVIOUS
<1> USE UsageAssumption DEF UsageInit
<1>1. Held = {} BY DEF Held, Empty
<1>2. Empty \in [Buckets -> Nat] /\ \A b \in Buckets : Empty[b] = 0 BY DEF Empty
<1>3. IsFiniteSet(Held) /\ Cardinality(Held) <= MaxBufferedKeys BY <1>1, FS_EmptySet
<1>6. BoundInv
  <2>1. day \in Days /\ events \in 0 .. MaxEvents BY DEF Days
  <2>2. canceled \in BOOLEAN /\ flushErr \in BOOLEAN BY Zenon
  <2> QED BY <1>2, <1>3, <2>1, <2>2 DEF BoundInv, UsageTypeOK
<1>4. CountedOnce BY <1>2 DEF CountedOnce, Flushers
<1>5. FlushInv /\ OwnerInv /\ DrainInv BY DEF FlushInv, OwnerInv, DrainInv, Flushers
<1> QED BY <1>4, <1>5, <1>6 DEF UsageInv

\* Increment keeps the cap on the buffered keys.
LEMMA IncrementInv ==
    ASSUME UsageInv, NEW k \in Keys, Increment(k)
    PROVE  UsageInv'
<1> USE UsageAssumption
    DEF UsageInv, storeVars, flushVars, mainVars
<1>1. PICK d \in Buckets : d = <<day, k>> BY DEF BoundInv, UsageTypeOK, Buckets
<1>2. CASE UNCHANGED <<buf, counted>>
  <2>1. Held' = Held BY <1>2 DEF Held
  <2>2. BoundInv' BY <1>2, <2>1 DEF Increment, BoundInv, UsageTypeOK
  <2>3. CountedOnce' BY <1>2 DEF Increment, CountedOnce
  <2>4. FlushInv' /\ OwnerInv' /\ DrainInv' BY <1>2 DEF Increment, FlushInv, OwnerInv, DrainInv
  <2> QED BY <2>2, <2>3, <2>4
<1>3. CASE /\ ~(buf[d] = 0 /\ Cardinality(Held) >= MaxBufferedKeys)
           /\ buf' = [buf EXCEPT ![d] = @ + 1]
           /\ counted' = [counted EXCEPT ![d] = @ + 1]
  <2>1. buf' \in [Buckets -> Nat] /\ counted' \in [Buckets -> Nat]
    BY <1>3 DEF BoundInv, UsageTypeOK
  <2>2. Held' = Held \cup {d}
    BY <1>3 DEF BoundInv, UsageTypeOK, Held
  <2>3. d \in Held \/ ~(Cardinality(Held) >= MaxBufferedKeys)
    BY <1>3 DEF BoundInv, UsageTypeOK, Held
  <2>4. IsFiniteSet(Held)' /\ (Cardinality(Held) <= MaxBufferedKeys)'
    BY <2>2, <2>3, AddBounded DEF BoundInv, UsageTypeOK
  <2>5. BoundInv' BY <2>1, <2>4 DEF Increment, BoundInv, UsageTypeOK
  <2>6. CountedOnce'
    <3>1. UNCHANGED <<day, stored, pruned, batch, lost>> BY DEF Increment
    <3> QED BY <1>3, <3>1 DEF CountedOnce, BoundInv, UsageTypeOK, Flushers
  <2>7. FlushInv' /\ OwnerInv' BY DEF Increment, FlushInv, OwnerInv
  <2>8. DrainInv' BY DEF Increment, DrainInv
  <2> QED BY <2>5, <2>6, <2>7, <2>8
<1> QED BY <1>1, <1>2, <1>3 DEF Increment

\* Taking the buffer moves its counts into the flusher's batch.
LEMMA SnapshotInv ==
    ASSUME UsageInv, NEW p \in Flushers, Snapshot(p),
           UNCHANGED <<day, stored, pruned, counted, lost>>
    PROVE  /\ buf' = Empty
           /\ IsFiniteSet(Held)' /\ (Cardinality(Held) <= MaxBufferedKeys)'
           /\ buf' \in [Buckets -> Nat]
           /\ fpc' \in [Flushers -> {"idle", "upsert", "prune"}]
           /\ batch' \in [Flushers -> [Buckets -> Nat]]
           /\ cutoff' \in [Flushers -> Int]
           /\ \A q \in Flushers \ {p} : fpc'[q] = fpc[q]
           /\ CountedOnce' /\ FlushInv'
<1> USE UsageAssumption DEF UsageInv, flushVars
<1>1. Empty \in [Buckets -> Nat] /\ \A b \in Buckets : Empty[b] = 0 BY DEF Empty
<1>2. buf' = Empty
  BY NothingHeld DEF Snapshot, BoundInv, UsageTypeOK
<1>3. IsFiniteSet(Held)' /\ (Cardinality(Held) <= MaxBufferedKeys)'
  BY <1>2, EmptyHeld, FS_EmptySet
<1>4. CASE UNCHANGED <<buf, fpc, batch, cutoff>>
  BY <1>1, <1>2, <1>3, <1>4 DEF BoundInv, UsageTypeOK, CountedOnce, FlushInv
<1>5. CASE /\ fpc' = [fpc EXCEPT ![p] = "upsert"]
           /\ batch' = [batch EXCEPT ![p] = buf]
           /\ cutoff' = [cutoff EXCEPT ![p] = day - KeepDays]
  <2>1. day \in Int BY DEF BoundInv, UsageTypeOK, Days
  <2>2. /\ fpc' \in [Flushers -> {"idle", "upsert", "prune"}]
        /\ batch' \in [Flushers -> [Buckets -> Nat]]
        /\ cutoff' \in [Flushers -> Int]
    BY <1>5, <2>1 DEF BoundInv, UsageTypeOK
  <2>3. FlushInv' BY <1>5, <2>1 DEF BoundInv, UsageTypeOK, FlushInv
  <2>4. fpc[p] = "idle" /\ batch[p] = Empty BY DEF Snapshot, FlushInv
  <2>5. CountedOnce'
    <3> SUFFICES ASSUME NEW b \in Buckets
                 PROVE  /\ counted'[b] = buf'[b] + batch'["run"][b] + batch'["main"][b]
                                          + stored'[b] + pruned'[b] + lost'[b]
                        /\ pruned'[b] > 0 => b[1] < day' - KeepDays
      BY DEF CountedOnce
    <3>1. batch'["run"][b] + batch'["main"][b] = buf[b] + batch["run"][b] + batch["main"][b]
      BY <1>1, <1>5, <2>4 DEF BoundInv, UsageTypeOK, Flushers
    <3>2. batch'["run"][b] \in Nat /\ batch'["main"][b] \in Nat
      BY <2>2 DEF Flushers
    <3> QED
      BY <1>1, <1>2, <3>1, <3>2 DEF BoundInv, UsageTypeOK, CountedOnce, Flushers
  <2> QED BY <1>1, <1>2, <1>3, <1>5, <2>2, <2>3, <2>5 DEF BoundInv, UsageTypeOK
<1> QED BY <1>4, <1>5 DEF Snapshot

\* Flush's store calls move or drop a batch, and prune only old days.
LEMMA FlushStepInv ==
    ASSUME UsageInv, NEW p \in Flushers, FlushStep(p)
    PROVE  UsageInv'
<1> USE UsageAssumption DEF UsageInv, mainVars, storeVars
<1>1. Empty \in [Buckets -> Nat] /\ \A b \in Buckets : Empty[b] = 0 BY DEF Empty
<1>2. /\ UNCHANGED <<day, buf, cutoff, rpc, canceled, http, mpc, result, events, counted>>
      /\ fpc[p] # "idle" /\ \A q \in Flushers \ {p} : fpc'[q] = fpc[q]
      /\ fpc' \in [Flushers -> {"idle", "upsert", "prune"}]
      /\ flushErr' \in BOOLEAN
  BY DEF FlushStep, UpsertOK, UpsertFails, PruneOK, PruneFails, BoundInv, UsageTypeOK, obsVars
<1>3. Held' = Held BY <1>2 DEF Held
<1>4. OwnerInv' /\ DrainInv' BY <1>2 DEF OwnerInv, DrainInv, Flushers
<1>5. ASSUME batch' \in [Flushers -> [Buckets -> Nat]], stored' \in [Buckets -> Nat],
             pruned' \in [Buckets -> Nat], lost' \in [Buckets -> Nat]
      PROVE  BoundInv'
  BY <1>2, <1>3, <1>5 DEF BoundInv, UsageTypeOK
<1>6. CASE UpsertOK(p) \/ UpsertFails(p)
  <2>1. batch' = [batch EXCEPT ![p] = Empty] /\ UNCHANGED pruned
    BY <1>6 DEF UpsertOK, UpsertFails, Release
  <2>2. batch' \in [Flushers -> [Buckets -> Nat]]
    BY <1>1, <2>1 DEF BoundInv, UsageTypeOK
  <2>3. \/ stored' = Plus(stored, batch[p]) /\ UNCHANGED lost
        \/ lost' = Plus(lost, batch[p]) /\ UNCHANGED stored
    BY <1>6 DEF UpsertOK, UpsertFails
  <2>4. /\ stored' \in [Buckets -> Nat] /\ lost' \in [Buckets -> Nat]
        /\ \A b \in Buckets : stored'[b] + lost'[b] = stored[b] + lost[b] + batch[p][b]
    <3>1. batch[p] \in [Buckets -> Nat] /\ stored \in [Buckets -> Nat] /\ lost \in [Buckets -> Nat]
      BY DEF BoundInv, UsageTypeOK
    <3>2. CASE stored' = Plus(stored, batch[p]) /\ UNCHANGED lost
      BY <3>1, <3>2, PlusType
    <3>3. CASE lost' = Plus(lost, batch[p]) /\ UNCHANGED stored
      BY <3>1, <3>3, PlusType
    <3> QED BY <2>3, <3>2, <3>3
  <2>5. CountedOnce'
    <3> SUFFICES ASSUME NEW b \in Buckets
                 PROVE  /\ counted'[b] = buf'[b] + batch'["run"][b] + batch'["main"][b]
                                          + stored'[b] + pruned'[b] + lost'[b]
                        /\ pruned'[b] > 0 => b[1] < day' - KeepDays
      BY DEF CountedOnce
    <3>1. batch'["run"][b] + batch'["main"][b] + batch[p][b] = batch["run"][b] + batch["main"][b]
      BY <1>1, <2>1 DEF BoundInv, UsageTypeOK, Flushers
    <3>2. batch'["run"][b] \in Nat /\ batch'["main"][b] \in Nat
      BY <2>2 DEF Flushers
    <3>3. stored'[b] \in Nat /\ lost'[b] \in Nat /\ batch[p][b] \in Nat
      BY <2>4 DEF BoundInv, UsageTypeOK
    <3>4. /\ buf[b] \in Nat /\ stored[b] \in Nat /\ pruned[b] \in Nat /\ lost[b] \in Nat
          /\ batch["run"][b] \in Nat /\ batch["main"][b] \in Nat
      BY DEF BoundInv, UsageTypeOK, Flushers
    <3>5. /\ counted[b] = buf[b] + batch["run"][b] + batch["main"][b]
                          + stored[b] + pruned[b] + lost[b]
          /\ pruned[b] > 0 => b[1] < day - KeepDays
      BY DEF CountedOnce
    <3>6. stored'[b] + lost'[b] = stored[b] + lost[b] + batch[p][b] BY <2>4
    <3>7. UNCHANGED <<day, buf, counted, pruned>> BY <1>2, <2>1
    <3>8. pruned'[b] > 0 => b[1] < day' - KeepDays BY <3>5, <3>7
    <3>9. buf'[b] + batch'["run"][b] + batch'["main"][b] + stored'[b] + pruned'[b] + lost'[b]
          = buf[b] + (batch'["run"][b] + batch'["main"][b]) + (stored'[b] + lost'[b]) + pruned[b]
      BY <3>2, <3>3, <3>4, <3>7
    <3> QED BY <3>1, <3>2, <3>3, <3>4, <3>5, <3>6, <3>7, <3>8, <3>9
  <2>6. FlushInv'
    BY <1>2, <1>6, <2>1 DEF FlushInv, UpsertOK, UpsertFails, BoundInv, UsageTypeOK
  <2> QED BY <1>4, <1>5, <2>1, <2>2, <2>4, <2>5, <2>6 DEF BoundInv, UsageTypeOK
<1>7. CASE PruneOK(p)
  <2>1. cutoff[p] <= day - KeepDays /\ cutoff[p] \in Int /\ day \in Int
    BY <1>7 DEF PruneOK, FlushInv, BoundInv, UsageTypeOK, Days
  <2>2. /\ stored' \in [Buckets -> Nat] /\ pruned' \in [Buckets -> Nat]
        /\ UNCHANGED <<batch, lost>>
        /\ \A b \in Buckets :
              /\ stored'[b] + pruned'[b] = stored[b] + pruned[b]
              /\ pruned'[b] = pruned[b] \/ b[1] < cutoff[p]
    BY <1>7 DEF PruneOK, BoundInv, UsageTypeOK
  <2>3. \A b \in Buckets : b[1] \in Int BY DEF Buckets, Days
  <2>4. CountedOnce'
    <3> SUFFICES ASSUME NEW b \in Buckets
                 PROVE  /\ counted'[b] = buf'[b] + batch'["run"][b] + batch'["main"][b]
                                          + stored'[b] + pruned'[b] + lost'[b]
                        /\ pruned'[b] > 0 => b[1] < day' - KeepDays
      BY DEF CountedOnce
    <3>1. /\ buf[b] \in Nat /\ stored[b] \in Nat /\ pruned[b] \in Nat /\ lost[b] \in Nat
          /\ batch["run"][b] \in Nat /\ batch["main"][b] \in Nat
      BY DEF BoundInv, UsageTypeOK, Flushers
    <3>2. /\ counted[b] = buf[b] + batch["run"][b] + batch["main"][b]
                          + stored[b] + pruned[b] + lost[b]
          /\ pruned[b] > 0 => b[1] < day - KeepDays
      BY DEF CountedOnce
    <3>3. stored'[b] \in Nat /\ pruned'[b] \in Nat BY <2>2
    <3>4. /\ stored'[b] + pruned'[b] = stored[b] + pruned[b]
          /\ pruned'[b] = pruned[b] \/ b[1] < cutoff[p]
      BY <2>2
    <3>5. UNCHANGED <<day, buf, counted, batch, lost>> BY <1>2, <2>2
    <3>6. pruned'[b] > 0 => b[1] < day' - KeepDays
      <4>1. CASE pruned'[b] = pruned[b] BY <3>2, <3>5, <4>1
      <4>2. CASE b[1] < cutoff[p] BY <2>1, <2>3, <3>5, <4>2
      <4> QED BY <3>4, <4>1, <4>2
    <3>7. buf[b] + batch["run"][b] + batch["main"][b] + stored'[b] + pruned'[b] + lost[b]
          = buf[b] + batch["run"][b] + batch["main"][b] + stored[b] + pruned[b] + lost[b]
      BY <3>1, <3>3, <3>4
    <3> QED BY <3>2, <3>5, <3>6, <3>7
  <2>5. FlushInv' BY <1>2, <1>7, <2>2 DEF PruneOK, FlushInv, BoundInv, UsageTypeOK
  <2> QED BY <1>4, <1>5, <2>2, <2>4, <2>5 DEF BoundInv, UsageTypeOK
<1>8. CASE PruneFails(p)
  <2>1. UNCHANGED <<batch, stored, pruned, lost>> BY <1>8 DEF PruneFails
  <2>2. CountedOnce' BY <1>2, <2>1 DEF CountedOnce
  <2>3. FlushInv' BY <1>2, <1>8 DEF PruneFails, FlushInv, BoundInv, UsageTypeOK
  <2> QED BY <1>4, <1>5, <2>1, <2>2, <2>3 DEF BoundInv, UsageTypeOK
<1> QED BY <1>6, <1>7, <1>8 DEF FlushStep

\* Every step of the handlers, the goroutine and main preserves the invariant.
LEMMA UsageNextInv == UsageInv /\ [UsageNext]_uvars => UsageInv'
<1> SUFFICES ASSUME UsageInv, [UsageNext]_uvars PROVE UsageInv'
  OBVIOUS
<1> USE UsageAssumption DEF UsageInv, storeVars, flushVars, mainVars, obsVars
<1>1. ASSUME Midnight PROVE UsageInv'
  <2>1. Held' = Held BY <1>1 DEF Midnight, Held
  <2>2. day \in Int /\ day' = day + 1 /\ day' \in Days
    BY <1>1 DEF Midnight, BoundInv, UsageTypeOK, Days
  <2>3. BoundInv' BY <1>1, <2>1, <2>2 DEF Midnight, BoundInv, UsageTypeOK
  <2>4. CountedOnce'
    <3>1. \A b \in Buckets : b[1] \in Int BY DEF Buckets, Days
    <3>2. UNCHANGED <<counted, buf, batch, stored, pruned, lost>> BY <1>1 DEF Midnight
    <3> QED BY <2>2, <3>1, <3>2 DEF CountedOnce
  <2>5. FlushInv' BY <1>1, <2>2 DEF Midnight, FlushInv, BoundInv, UsageTypeOK
  <2>6. OwnerInv' /\ DrainInv' BY <1>1 DEF Midnight, OwnerInv, DrainInv
  <2> QED BY <2>3, <2>4, <2>5, <2>6
<1>2. ASSUME RunTick PROVE UsageInv'
  <2>1. Snapshot("run") /\ "run" \in Flushers BY <1>2 DEF RunTick, Flushers
  <2>2. UNCHANGED <<day, stored, pruned, counted, lost>> BY <1>2 DEF RunTick
  <2>3. BoundInv' BY <1>2, <2>1, <2>2, SnapshotInv DEF RunTick, BoundInv, UsageTypeOK
  <2>4. OwnerInv' BY <1>2, <2>1, <2>2, SnapshotInv DEF RunTick, OwnerInv, Flushers
  <2>5. DrainInv' BY <1>2, <2>1, <2>2, SnapshotInv DEF RunTick, DrainInv
  <2> QED BY <2>1, <2>2, <2>3, <2>4, <2>5, SnapshotInv
<1>3. ASSUME RunFinal PROVE UsageInv'
  <2>1. Snapshot("run") /\ "run" \in Flushers BY <1>3 DEF RunFinal, Flushers
  <2>2. UNCHANGED <<day, stored, pruned, counted, lost>> BY <1>3 DEF RunFinal
  <2>3. BoundInv' BY <1>3, <2>1, <2>2, SnapshotInv DEF RunFinal, BoundInv, UsageTypeOK
  <2>4. OwnerInv' BY <1>3, <2>1, <2>2, SnapshotInv DEF RunFinal, OwnerInv, Flushers
  <2>5. DrainInv' BY <1>3, <2>1, <2>2, SnapshotInv DEF RunFinal, DrainInv
  <2> QED BY <2>1, <2>2, <2>3, <2>4, <2>5, SnapshotInv
<1>4. ASSUME WaitFlush PROVE UsageInv'
  <2>1. Snapshot("main") /\ "main" \in Flushers BY <1>4 DEF WaitFlush, Flushers
  <2>2. UNCHANGED <<day, stored, pruned, counted, lost>> BY <1>4 DEF WaitFlush
  <2>3. BoundInv' BY <1>4, <2>1, <2>2, SnapshotInv DEF WaitFlush, BoundInv, UsageTypeOK
  <2>4. OwnerInv' BY <1>4, <2>1, <2>2, SnapshotInv DEF WaitFlush, OwnerInv, Flushers
  <2>5. DrainInv' BY <1>4, <2>1, <2>2, SnapshotInv DEF WaitFlush, DrainInv
  <2> QED BY <2>1, <2>2, <2>3, <2>4, <2>5, SnapshotInv
<1>5. ASSUME UNCHANGED <<day, buf, storeVars, flushVars, obsVars, lost>>
      PROVE  CountedOnce' /\ FlushInv' /\ Held' = Held
  BY <1>5 DEF CountedOnce, FlushInv, Held
<1>6. ASSUME RunExit PROVE UsageInv'
  <2>1. BoundInv' BY <1>5, <1>6 DEF RunExit, BoundInv, UsageTypeOK
  <2>2. OwnerInv' /\ DrainInv' BY <1>6 DEF RunExit, OwnerInv, DrainInv
  <2> QED BY <1>5, <1>6, <2>1, <2>2 DEF RunExit
<1>7. ASSUME Signal PROVE UsageInv'
  <2>1. BoundInv' BY <1>5, <1>7 DEF Signal, BoundInv, UsageTypeOK
  <2>2. OwnerInv' /\ DrainInv' BY <1>7 DEF Signal, OwnerInv, DrainInv
  <2> QED BY <1>5, <1>7, <2>1, <2>2 DEF Signal
<1>8. ASSUME HTTPShutdown PROVE UsageInv'
  <2>1. BoundInv' BY <1>5, <1>8 DEF HTTPShutdown, BoundInv, UsageTypeOK
  <2>2. OwnerInv' /\ DrainInv' BY <1>8 DEF HTTPShutdown, OwnerInv, DrainInv
  <2> QED BY <1>5, <1>8, <2>1, <2>2 DEF HTTPShutdown
<1>9. ASSUME WaitJoin \/ WaitDeadline PROVE UsageInv'
  <2>1. BoundInv' BY <1>5, <1>9 DEF WaitJoin, WaitDeadline, BoundInv, UsageTypeOK
  <2>2. OwnerInv' /\ DrainInv' BY <1>9 DEF WaitJoin, WaitDeadline, OwnerInv, DrainInv
  <2> QED BY <1>5, <1>9, <2>1, <2>2 DEF WaitJoin, WaitDeadline
<1>10. ASSUME CloseStore PROVE UsageInv'
  <2>1. BoundInv' BY <1>5, <1>10 DEF CloseStore, BoundInv, UsageTypeOK
  <2>2. OwnerInv' /\ DrainInv' BY <1>10 DEF CloseStore, OwnerInv, DrainInv
  <2> QED BY <1>5, <1>10, <2>1, <2>2 DEF CloseStore
<1>11. CASE UNCHANGED uvars
  <2>1. BoundInv' BY <1>5, <1>11 DEF uvars, BoundInv, UsageTypeOK
  <2>2. OwnerInv' /\ DrainInv' BY <1>11 DEF uvars, OwnerInv, DrainInv
  <2> QED BY <1>5, <1>11, <2>1, <2>2 DEF uvars
<1> QED
  BY <1>1, <1>2, <1>3, <1>4, <1>6, <1>7, <1>8, <1>9, <1>10, <1>11, IncrementInv,
     FlushStepInv
  DEF UsageNext, RunStep, MainStep, Flushers

-----------------------------------------------------------------------------
\* The invariant holds in every reachable state.
THEOREM UsageInvariance == UsageSpec => []UsageInv
  BY UsageInitInv, UsageNextInv, PTL DEF UsageSpec

\* No event is counted twice or disappears untracked between handlers, two
\* concurrent flushers and a store whose commit errors prove nothing, and
\* pruning spares the last KeepDays days.
THEOREM UsageCountedOnce == UsageSpec => []CountedOnce
<1>1. UsageInv => CountedOnce BY DEF UsageInv
<1> QED BY <1>1, UsageInvariance, PTL

\* When Wait has returned after a complete HTTP drain, nothing is left in
\* the recorder's memory.
THEOREM UsageDrained == UsageSpec => []DrainLeavesNoCounts
<1>1. UsageInv => DrainLeavesNoCounts
  BY DEF UsageInv, OwnerInv, DrainInv, DrainLeavesNoCounts
<1> QED BY <1>1, UsageInvariance, PTL

\* After Wait's nil no write reaches the usage_daily table.
THEOREM UsageWaitNilIsFinal == UsageSpec => WaitNilIsFinal
<1>1. UsageInv /\ [UsageNext]_uvars => [result = "nil" => stored' = stored]_uvars
  <2> SUFFICES ASSUME UsageInv, UsageNext, result = "nil" PROVE stored' = stored
    OBVIOUS
  <2>1. fpc["run"] = "idle" /\ fpc["main"] = "idle" /\ mpc \in {"done", "closed"}
    BY DEF UsageInv, OwnerInv
  <2>2. ~FlushStep("run") /\ ~FlushStep("main")
    BY <2>1 DEF FlushStep, UpsertOK, UpsertFails, PruneOK, PruneFails
  <2> QED
    BY <2>2
    DEF UsageNext, Midnight, Increment, RunStep, RunTick, RunFinal, RunExit, Signal, MainStep,
        HTTPShutdown, WaitFlush, WaitJoin, WaitDeadline, CloseStore, storeVars
<1> QED BY <1>1, UsageInvariance, PTL DEF UsageSpec, WaitNilIsFinal

\* Every variable keeps its type, and the buffer never holds more than
\* MaxBufferedKeys keys.
THEOREM UsageTypeCorrect == UsageSpec => []UsageTypeOK
<1>1. UsageInv => UsageTypeOK BY DEF UsageInv, BoundInv
<1> QED BY <1>1, UsageInvariance, PTL

=============================================================================
