----------------------- MODULE CoverageRecorderProofs -----------------------
(***************************************************************************)
(* Safety of the coverage recorder for any number of concurrent writers,   *)
(* any cap on the table and any number of samples.                         *)
(***************************************************************************)
EXTENDS CoverageRecorder, FiniteSetTheorems, WellFoundedInduction, TLAPS

-----------------------------------------------------------------------------
(* The inductive invariant.                                                *)

WriterStates == {"none", "stamp", "insert", "prune", "release", "exit", "done"}
Row == [id : Nat, at : Nat]

CoverageTypes ==
    /\ now \in Nat /\ calls \in 0 .. MaxSamples
    /\ wpc \in [Samples -> WriterStates]
    /\ stamp \in [Samples -> Nat]
    /\ nextId \in Nat /\ unpruned \in Nat /\ panicked \in BOOLEAN
    /\ everRows \subseteq Row /\ rows \subseteq everRows /\ IsFiniteSet(everRows)

\* A token is held by each writer that has not released it, the WaitGroup
\* counts the writers that have not exited, and a sample that was not taken
\* yet has no writer.
CountInv ==
    /\ sem = Cardinality(Active({"stamp", "insert", "prune", "release"}))
    /\ sem <= MaxWrites
    /\ wg = Cardinality(Active({"stamp", "insert", "prune", "release", "exit"}))
    /\ \A n \in Samples : n > calls => wpc[n] = "none"

\* The waiter exists from Wait on; after a complete drain it is woken only
\* when no writer is left, and Wait returns nil only after it.
WaitInv ==
    /\ http = "drained" => mpc # "serving"
    /\ mpc \in {"serving", "http"} => waiter = "none" /\ ~panicked
    /\ http = "drained" /\ waiter \in {"woken", "done"} => wg = 0
    /\ mpc \in {"serving", "http", "wait"} => result = "none"
    /\ result = "nil" => waiter = "done"

CoverageInv ==
    CoverageTypes /\ CountInv /\ WaitInv /\ NewestRowsKept /\ NoReuseAfterDrain

-----------------------------------------------------------------------------
(* Operators.                                                              *)

\* A nonempty set of natural numbers has a least element.
LEMMA NatMin ==
    ASSUME NEW A, A \subseteq Nat, A # {}
    PROVE  \E m \in A : \A x \in A : m <= x
<1>1. PICK m \in A : \A y \in A : ~(<<y, m>> \in OpToRel(<, Nat))
  BY NatLessThanWellFounded, WFMin
<1>2. \A y \in A : ~(y < m)
  BY <1>1 DEF OpToRel
<1> QED BY <1>2

\* A nonempty table has an oldest row: every other row is newer.
LEMMA OldestRow ==
    ASSUME NEW T, T \subseteq Row, T # {}
    PROVE  \E m \in T : \A q \in T \ {m} : Newer(q, m)
<1>1. PICK a \in {r.at : r \in T} : \A x \in {r.at : r \in T} : a <= x
  <2>1. {r.at : r \in T} \subseteq Nat /\ {r.at : r \in T} # {} BY DEF Row
  <2> QED BY <2>1, NatMin
<1> DEFINE U == {r \in T : r.at = a}
<1>2. PICK i \in {r.id : r \in U} : \A x \in {r.id : r \in U} : i <= x
  <2>1. {r.id : r \in U} \subseteq Nat /\ {r.id : r \in U} # {} BY <1>1 DEF Row
  <2> HIDE DEF U
  <2> QED BY <2>1, NatMin
<1>3. PICK m \in U : m.id = i BY <1>2
<1>4. ASSUME NEW q \in T \ {m} PROVE Newer(q, m)
  <2>1. /\ q.at \in Nat /\ q.id \in Nat /\ m.at \in Nat /\ m.id \in Nat
        /\ q = [id |-> q.id, at |-> q.at] /\ m = [id |-> m.id, at |-> m.at]
    BY <1>3, <1>4 DEF Row
  <2>2. m.at = a /\ a <= q.at BY <1>1, <1>3
  <2>3. CASE q.at = a
    <3>1. i <= q.id BY <1>2, <2>3
    <3>2. q.id # m.id BY <1>4, <2>1, <2>2, <2>3
    <3> QED BY <1>3, <2>1, <2>2, <2>3, <3>1, <3>2 DEF Newer
  <2>4. CASE q.at # a BY <2>1, <2>2, <2>4 DEF Newer
  <2> QED BY <2>3, <2>4
<1> QED BY <1>3, <1>4

\* The k newest rows of a table are at most k.
LEMMA NewestBound ==
    ASSUME NEW S, S \subseteq Row, IsFiniteSet(S), NEW k \in Nat
    PROVE  IsFiniteSet(Newest(S, k)) /\ Cardinality(Newest(S, k)) <= k
<1> DEFINE T == Newest(S, k)
<1>1. T \subseteq S BY DEF Newest
<1>2. IsFiniteSet(T) /\ Cardinality(T) \in Nat BY <1>1, FS_Subset, FS_CardinalityType
<1>3. CASE T = {} BY <1>2, <1>3, FS_EmptySet
<1>4. CASE T # {}
  <2>1. PICK m \in T : \A q \in T \ {m} : Newer(q, m) BY <1>1, <1>4, OldestRow
  <2> DEFINE N == {q \in S : Newer(q, m)}
  <2>2. T \ {m} \subseteq N BY <1>1, <2>1
  <2>3. IsFiniteSet(N) /\ Cardinality(N) \in Nat BY FS_Subset, FS_CardinalityType
  <2>4. Cardinality(N) < k BY <2>1 DEF Newest
  <2>5. Cardinality(T \ {m}) <= Cardinality(N) BY <2>2, <2>3, FS_Subset
  <2>6. Cardinality(T \ {m}) = Cardinality(T) - 1 BY <1>2, <2>1, FS_RemoveElement
  <2> HIDE DEF N, T
  <2>7. Cardinality(T) <= k BY <1>2, <2>3, <2>4, <2>5, <2>6
  <2> QED BY <1>2, <2>7 DEF T
<1> QED BY <1>3, <1>4

\* How one writer's step changes the number of writers in a set of states.
LEMMA Moved ==
    ASSUME wpc \in [Samples -> WriterStates], NEW n \in Samples, NEW p, Goto(n, p),
           NEW S
    PROVE  /\ Cardinality(Active(S)) \in Nat /\ Cardinality(Active(S)') \in Nat
           /\ Cardinality(Active(S)') = Cardinality(Active(S))
                 + (IF p \in S THEN 1 ELSE 0) - (IF wpc[n] \in S THEN 1 ELSE 0)
           /\ wpc[n] \in S => Cardinality(Active(S)) > 0
<1>1. IsFiniteSet(Samples) BY CoverageAssumption, FS_Interval DEF Samples
<1>2. IsFiniteSet(Active(S)) /\ Cardinality(Active(S)) \in Nat
  BY <1>1, FS_Subset, FS_CardinalityType DEF Active
<1>3. n \in Active(S) <=> wpc[n] \in S BY DEF Active
<1>4. wpc[n] \in S => Cardinality(Active(S)) > 0 BY <1>2, <1>3, FS_EmptySet
<1>5. CASE p \in S
  <2>1. Active(S)' = Active(S) \cup {n} BY <1>5 DEF Active, Goto
  <2>2. Cardinality(Active(S)') = IF wpc[n] \in S THEN Cardinality(Active(S))
                                  ELSE Cardinality(Active(S)) + 1
    BY <1>2, <1>3, <2>1, FS_AddElement
  <2> QED BY <1>2, <1>4, <1>5, <2>2
<1>6. CASE p \notin S
  <2>1. Active(S)' = Active(S) \ {n} BY <1>6 DEF Active, Goto
  <2>2. Cardinality(Active(S)') = IF wpc[n] \in S THEN Cardinality(Active(S)) - 1
                                  ELSE Cardinality(Active(S))
    BY <1>2, <1>3, <2>1, FS_RemoveElement
  <2> QED BY <1>2, <1>4, <1>6, <2>2
<1> QED BY <1>5, <1>6

\* A WaitGroup at zero has no writer left.
LEMMA NobodyLeft ==
    ASSUME CoverageInv, wg = 0
    PROVE  \A n \in Samples : wpc[n] \in {"none", "done"}
<1> DEFINE A == Active({"stamp", "insert", "prune", "release", "exit"})
<1>1. IsFiniteSet(Samples) BY CoverageAssumption, FS_Interval DEF Samples
<1>2. IsFiniteSet(A) BY <1>1, FS_Subset DEF Active
<1>3. A = {} BY <1>2, FS_EmptySet DEF CoverageInv, CountInv
<1> QED BY <1>3 DEF Active, CoverageInv, CoverageTypes, WriterStates

-----------------------------------------------------------------------------
(* The parts of the invariant, step by step.                               *)

\* The initial state satisfies the invariant.
LEMMA CoverageInitInv == CoverageInit => CoverageInv
<1> SUFFICES ASSUME CoverageInit PROVE CoverageInv
  OBVIOUS
<1> USE CoverageAssumption DEF CoverageInit
<1>1. \A S : "none" \notin S => Active(S) = {} BY DEF Active
<1>2. CoverageTypes
  <2>1. panicked \in BOOLEAN BY Zenon
  <2>2. IsFiniteSet(everRows) BY FS_EmptySet
  <2> QED BY <2>1, <2>2 DEF CoverageTypes, WriterStates
<1>3. CountInv BY <1>1, FS_EmptySet DEF CountInv
<1>4. WaitInv /\ NoReuseAfterDrain BY DEF WaitInv, NoReuseAfterDrain
<1>5. NewestRowsKept
  <2>1. Cardinality(rows) = 0 /\ Cardinality(Active({"prune"})) = 0
    BY <1>1, FS_EmptySet
  <2> QED BY <2>1 DEF NewestRowsKept
<1> QED BY <1>2, <1>3, <1>4, <1>5 DEF CoverageInv

\* Finitely many rows, so their number is a number.
LEMMA RowsFinite ==
    ASSUME CoverageTypes
    PROVE  /\ IsFiniteSet(rows) /\ Cardinality(rows) \in Nat /\ rows \subseteq Row
           /\ \A S : S \subseteq everRows => IsFiniteSet(S) /\ Cardinality(S) \in Nat
<1>1. \A S : S \subseteq everRows => IsFiniteSet(S) /\ Cardinality(S) \in Nat
  <2> TAKE S
  <2> HAVE S \subseteq everRows
  <2> QED BY FS_Subset, FS_CardinalityType DEF CoverageTypes
<1> QED BY <1>1 DEF CoverageTypes

\* Steps that leave the table alone and move no writer in or out of "prune".
LEMMA TableKept ==
    ASSUME CoverageInv, UNCHANGED <<rows, everRows, unpruned>>,
           Active({"prune"})' = Active({"prune"})
    PROVE  NewestRowsKept'
  BY DEF NewestRowsKept, CoverageInv

\* An inserted row is accounted for, and leaves the deleted rows deleted.
LEMMA RowAdded ==
    ASSUME CoverageInv, NEW n \in Samples, AddRow(n)
    PROVE  /\ IsFiniteSet(everRows') /\ everRows' \subseteq Row /\ rows' \subseteq everRows'
           /\ Cardinality(rows') \in Nat /\ Cardinality(rows') <= Cardinality(rows) + 1
           /\ nextId' \in Nat
           /\ MaxRows > 0 => \A r \in everRows' \ rows' :
                  Cardinality({q \in everRows' : Newer(q, r)}) >= MaxRows
<1> DEFINE new == [id |-> nextId, at |-> stamp[n]]
<1>0. CoverageTypes /\ MaxRows \in Nat BY CoverageAssumption DEF CoverageInv
<1>1. new \in Row /\ nextId' \in Nat BY <1>0 DEF CoverageTypes, Row, AddRow
<1>2. rows' = rows \cup {new} /\ everRows' = everRows \cup {new} BY DEF AddRow
<1> HIDE DEF new
<1>3. IsFiniteSet(everRows') BY <1>0, <1>2, FS_AddElement DEF CoverageTypes
<1>4. Cardinality(rows') \in Nat /\ Cardinality(rows') <= Cardinality(rows) + 1
  <2>1. IsFiniteSet(rows) /\ Cardinality(rows) \in Nat BY <1>0, RowsFinite
  <2>2. Cardinality(rows') = IF new \in rows THEN Cardinality(rows) ELSE Cardinality(rows) + 1
    BY <1>2, <2>1, FS_AddElement
  <2> QED BY <2>1, <2>2
<1>5. ASSUME MaxRows > 0, NEW r \in everRows' \ rows'
      PROVE  Cardinality({q \in everRows' : Newer(q, r)}) >= MaxRows
  <2> DEFINE A == {q \in everRows : Newer(q, r)}
             B == {q \in everRows' : Newer(q, r)}
  <2>1. r \in everRows \ rows BY <1>2, <1>5
  <2>2. Cardinality(A) >= MaxRows BY <1>5, <2>1 DEF CoverageInv, NewestRowsKept
  <2>3. A \subseteq B /\ A \subseteq everRows /\ B \subseteq everRows' BY <1>2
  <2>4. IsFiniteSet(B) /\ Cardinality(B) \in Nat BY <1>3, <2>3, FS_Subset, FS_CardinalityType
  <2>5. Cardinality(A) \in Nat BY <1>0, <2>3, RowsFinite
  <2>6. Cardinality(A) <= Cardinality(B) BY <2>3, <2>4, FS_Subset
  <2> HIDE DEF A, B
  <2>7. Cardinality(B) >= MaxRows BY <1>0, <2>2, <2>4, <2>5, <2>6
  <2> QED BY <2>7 DEF B
<1> QED BY <1>0, <1>1, <1>2, <1>3, <1>4, <1>5 DEF CoverageTypes

\* Pruning leaves at most MaxRows rows and deletes only rows that MaxRows newer
\* ones outrank.
LEMMA RowsPruned ==
    ASSUME CoverageInv, MaxRows > 0, rows' = Newest(rows, MaxRows), UNCHANGED everRows
    PROVE  /\ rows' \subseteq everRows' /\ Cardinality(rows') \in Nat
           /\ Cardinality(rows') <= MaxRows
           /\ \A r \in everRows' \ rows' :
                  Cardinality({q \in everRows' : Newer(q, r)}) >= MaxRows
<1>0. CoverageTypes /\ MaxRows \in Nat BY CoverageAssumption DEF CoverageInv
<1>1. rows' \subseteq rows BY DEF Newest
<1>2. Cardinality(rows') \in Nat /\ Cardinality(rows') <= MaxRows
  BY <1>0, RowsFinite, NewestBound, FS_CardinalityType
<1>3. ASSUME NEW r \in everRows \ rows'
      PROVE  Cardinality({q \in everRows : Newer(q, r)}) >= MaxRows
  <2>1. CASE r \notin rows BY <1>3, <2>1 DEF CoverageInv, NewestRowsKept
  <2>2. CASE r \in rows
    <3> DEFINE A == {q \in rows : Newer(q, r)}
               B == {q \in everRows : Newer(q, r)}
    <3>1. ~(Cardinality(A) < MaxRows) BY <1>3, <2>2 DEF Newest
    <3>2. A \subseteq B /\ B \subseteq everRows /\ A \subseteq everRows
      BY <1>0 DEF CoverageTypes
    <3>3. IsFiniteSet(B) /\ Cardinality(B) \in Nat /\ Cardinality(A) \in Nat
      BY <1>0, <3>2, RowsFinite
    <3>4. Cardinality(A) <= Cardinality(B) BY <3>2, <3>3, FS_Subset
    <3> HIDE DEF A, B
    <3>5. Cardinality(B) >= MaxRows BY <1>0, <3>1, <3>3, <3>4
    <3> QED BY <3>5 DEF B
  <2> QED BY <2>1, <2>2
<1> QED BY <1>0, <1>1, <1>2, <1>3 DEF CoverageTypes

\* The counts and the types after a writer's step.  A writer in "stamp" ..
\* "exit" is one of the samples taken.
LEMMA WriterKeepsCounts ==
    ASSUME CoverageInv, NEW n \in Samples, WriterStep(n)
    PROVE  CountInv'
<1>0. CoverageTypes /\ CountInv BY DEF CoverageInv
<1>1. wpc \in [Samples -> WriterStates] BY <1>0 DEF CoverageTypes
<1>2. \A S, p : Goto(n, p) =>
         /\ Cardinality(Active(S)) \in Nat /\ Cardinality(Active(S)') \in Nat
         /\ Cardinality(Active(S)') = Cardinality(Active(S))
               + (IF p \in S THEN 1 ELSE 0) - (IF wpc[n] \in S THEN 1 ELSE 0)
  BY <1>1, Moved
<1> DEFINE T == {"stamp", "insert", "prune", "release"}
           W == {"stamp", "insert", "prune", "release", "exit"}
<1>3. /\ sem = Cardinality(Active(T)) /\ sem <= MaxWrites
      /\ wg = Cardinality(Active(W)) /\ MaxWrites \in Nat
  BY <1>0, CoverageAssumption DEF CountInv
<1>4. \A m \in Samples : m > calls' => wpc'[m] = "none"
  <2>1. UNCHANGED calls /\ wpc[n] # "none"
    BY DEF WriterStep, TakeStamp, InsertOK, InsertFails, PruneOK, PruneFails, ReleaseToken, Done
  <2>2. \E p : Goto(n, p)
    BY DEF WriterStep, TakeStamp, InsertOK, InsertFails, PruneOK, PruneFails, ReleaseToken, Done
  <2> QED BY <1>0, <1>1, <2>1, <2>2 DEF CountInv, Goto
<1>5. CASE TakeStamp(n) \/ InsertOK(n) \/ InsertFails(n) \/ PruneOK(n) \/ PruneFails(n)
  <2>1. /\ UNCHANGED <<sem, wg>> /\ wpc[n] \in {"stamp", "insert", "prune"}
        /\ \E p \in {"insert", "prune", "release"} : Goto(n, p)
    BY <1>5 DEF TakeStamp, InsertOK, InsertFails, PruneOK, PruneFails, syncVars
  <2>2. PICK p \in {"insert", "prune", "release"} : Goto(n, p) BY <2>1
  <2>3. p \in T /\ p \in W /\ wpc[n] \in T /\ wpc[n] \in W BY <2>1
  <2> HIDE DEF T, W
  <2>4. Cardinality(Active(T)') = sem' /\ Cardinality(Active(W)') = wg' /\ sem' <= MaxWrites
    <3>1. Cardinality(Active(T)') = Cardinality(Active(T)) + 1 - 1
          /\ Cardinality(Active(T)) \in Nat
      BY <1>2, <2>2, <2>3
    <3>2. Cardinality(Active(W)') = Cardinality(Active(W)) + 1 - 1
          /\ Cardinality(Active(W)) \in Nat
      BY <1>2, <2>2, <2>3
    <3> QED BY <1>3, <2>1, <3>1, <3>2
  <2> QED BY <1>4, <2>4 DEF CountInv, T, W
<1>6. CASE ReleaseToken(n)
  <2>1. wpc[n] = "release" /\ Goto(n, "exit") /\ sem' = sem - 1 /\ UNCHANGED wg
    BY <1>6 DEF ReleaseToken
  <2>2. "exit" \notin T /\ "exit" \in W /\ wpc[n] \in T /\ wpc[n] \in W BY <2>1
  <2> HIDE DEF T, W
  <2>3. Cardinality(Active(T)') = Cardinality(Active(T)) + 0 - 1
        /\ Cardinality(Active(T)) \in Nat
    BY <1>2, <2>1, <2>2
  <2>4. Cardinality(Active(W)') = Cardinality(Active(W)) + 1 - 1
        /\ Cardinality(Active(W)) \in Nat
    BY <1>2, <2>1, <2>2
  <2>5. Cardinality(Active(T)') = sem' /\ Cardinality(Active(W)') = wg' /\ sem' <= MaxWrites
    BY <1>3, <2>1, <2>3, <2>4
  <2> QED BY <1>4, <2>5 DEF CountInv, T, W
<1>7. CASE Done(n)
  <2>1. wpc[n] = "exit" /\ Goto(n, "done") /\ wg' = wg - 1 /\ UNCHANGED sem
    BY <1>7 DEF Done
  <2>2. "done" \notin T /\ "done" \notin W /\ wpc[n] \notin T /\ wpc[n] \in W BY <2>1
  <2> HIDE DEF T, W
  <2>3. Cardinality(Active(T)') = Cardinality(Active(T)) + 0 - 0
        /\ Cardinality(Active(T)) \in Nat
    BY <1>2, <2>1, <2>2
  <2>4. Cardinality(Active(W)') = Cardinality(Active(W)) + 0 - 1
        /\ Cardinality(Active(W)) \in Nat
    BY <1>2, <2>1, <2>2
  <2>5. Cardinality(Active(T)') = sem' /\ Cardinality(Active(W)') = wg' /\ sem' <= MaxWrites
    BY <1>3, <2>1, <2>3, <2>4
  <2> QED BY <1>4, <2>5 DEF CountInv, T, W
<1> QED BY <1>5, <1>6, <1>7 DEF WriterStep

\* A sample that gets a token starts a writer.
LEMMA RecordKeepsCounts ==
    ASSUME CoverageInv, RecordEmpty
    PROVE  CountInv' /\ Active({"prune"})' = Active({"prune"}) /\ CoverageTypes'
<1>0. CoverageTypes /\ CountInv BY DEF CoverageInv
<1>1. /\ wpc \in [Samples -> WriterStates] /\ calls \in 0 .. MaxSamples
      /\ MaxSamples \in Nat /\ MaxWrites \in Nat
  BY <1>0, CoverageAssumption DEF CoverageTypes
<1>2. calls' = calls + 1 /\ calls' \in Samples /\ wpc[calls'] = "none"
  BY <1>0, <1>1 DEF RecordEmpty, CountInv, Samples
<1> DEFINE T == {"stamp", "insert", "prune", "release"}
           W == {"stamp", "insert", "prune", "release", "exit"}
<1>3. /\ sem = Cardinality(Active(T)) /\ sem <= MaxWrites /\ wg = Cardinality(Active(W))
  BY <1>0 DEF CountInv
<1>4. UNCHANGED <<now, stamp, nextId, unpruned, panicked, everRows, rows>>
  BY DEF RecordEmpty, tableVars
<1>5. CASE sem < MaxWrites
  <2>1. sem' = sem + 1 /\ wg' = wg + 1 /\ Goto(calls', "stamp")
    <3>1. /\ sem' = sem + 1 /\ wg' = wg + 1
          /\ wpc' = [wpc EXCEPT ![calls'] = "stamp"]
      <4>1. sem \in Nat
        <5>1. IsFiniteSet(Samples) BY CoverageAssumption, FS_Interval DEF Samples
        <5>2. IsFiniteSet(Active(T)) BY <5>1, FS_Subset DEF Active
        <5> QED BY <1>3, <5>2, FS_CardinalityType
      <4>2. ~(sem >= MaxWrites) BY <1>1, <1>5, <4>1
      <4> QED BY <4>2 DEF RecordEmpty
    <3> QED BY <3>1 DEF Goto
  <2>2. wpc' = [wpc EXCEPT ![calls'] = "stamp"] BY <2>1 DEF Goto
  <2>3. /\ Cardinality(Active(T)) \in Nat
        /\ Cardinality(Active(T)') = Cardinality(Active(T)) + 1 - 0
        /\ Cardinality(Active(W)) \in Nat
        /\ Cardinality(Active(W)') = Cardinality(Active(W)) + 1 - 0
    <3> DEFINE c == calls'
    <3>1. c \in Samples /\ wpc[c] = "none" /\ wpc' = [wpc EXCEPT ![c] = "stamp"]
      BY <1>2, <2>2
    <3> HIDE DEF c
    <3>2. Goto(c, "stamp") BY <3>1 DEF Goto
    <3>3. "stamp" \in T /\ "stamp" \in W /\ wpc[c] \notin T /\ wpc[c] \notin W BY <3>1
    <3> HIDE DEF T, W
    <3> QED BY <1>1, <3>1, <3>2, <3>3, Moved
  <2>4. Cardinality(Active(T)') = sem' /\ Cardinality(Active(W)') = wg' /\ sem' <= MaxWrites
    <3> HIDE DEF T, W
    <3> QED BY <1>1, <1>3, <1>5, <2>1, <2>3
  <2>5. \A m \in Samples : m > calls' => wpc'[m] = "none"
    BY <1>0, <1>1, <1>2, <2>2 DEF CountInv, Samples
  <2>6. Active({"prune"})' = Active({"prune"}) BY <1>1, <1>2, <2>2 DEF Active
  <2>7. CoverageTypes'
    <3>1. wpc' \in [Samples -> WriterStates] BY <1>1, <1>2, <2>2 DEF WriterStates
    <3>2. calls' \in 0 .. MaxSamples BY <1>1, <1>2 DEF Samples
    <3> QED BY <1>0, <1>4, <3>1, <3>2 DEF CoverageTypes
  <2> QED BY <2>4, <2>5, <2>6, <2>7 DEF CountInv, T, W
<1>6. CASE ~(sem < MaxWrites)
  <2>1. UNCHANGED <<sem, wg, wpc>> BY <1>6 DEF RecordEmpty
  <2>2. Active({"prune"})' = Active({"prune"}) /\ Active(T)' = Active(T) /\ Active(W)' = Active(W)
    BY <2>1 DEF Active
  <2>3. \A m \in Samples : m > calls' => wpc'[m] = "none"
    BY <1>0, <1>1, <1>2, <2>1 DEF CountInv, Samples
  <2>4. CoverageTypes'
    <3>1. calls' \in 0 .. MaxSamples BY <1>1, <1>2 DEF Samples
    <3> QED BY <1>0, <1>4, <2>1, <3>1 DEF CoverageTypes
  <2> QED BY <1>3, <2>1, <2>2, <2>3, <2>4 DEF CountInv
<1> QED BY <1>5, <1>6

\* The types and the table after a writer's step.
LEMMA WriterKeepsTable ==
    ASSUME CoverageInv, NEW n \in Samples, WriterStep(n)
    PROVE  CoverageTypes' /\ NewestRowsKept'
<1>0. CoverageTypes /\ NewestRowsKept /\ MaxRows \in Nat
  BY CoverageAssumption DEF CoverageInv
<1>1. /\ wpc \in [Samples -> WriterStates] /\ now \in Nat /\ unpruned \in Nat
      /\ stamp \in [Samples -> Nat] /\ Cardinality(rows) \in Nat
  BY <1>0, RowsFinite DEF CoverageTypes
<1> DEFINE P == {"prune"}
           c == Cardinality(Active(P))
<1>2. \A p : Goto(n, p) =>
         /\ c \in Nat /\ c' \in Nat
         /\ c' = c + (IF p \in P THEN 1 ELSE 0) - (IF wpc[n] \in P THEN 1 ELSE 0)
  BY <1>1, Moved
<1>3. MaxRows > 0 =>
        /\ Cardinality(rows) <= MaxRows + unpruned + c
        /\ \A r \in everRows \ rows : Cardinality({q \in everRows : Newer(q, r)}) >= MaxRows
  BY <1>0 DEF NewestRowsKept
<1>4. \E p \in WriterStates : Goto(n, p)
  BY DEF WriterStep, TakeStamp, InsertOK, InsertFails, PruneOK, PruneFails, ReleaseToken,
         Done, WriterStates
<1>5. wpc' \in [Samples -> WriterStates] BY <1>1, <1>4 DEF Goto
<1>6. UNCHANGED <<now, calls, panicked>>
  BY DEF WriterStep, TakeStamp, InsertOK, InsertFails, PruneOK, PruneFails, ReleaseToken,
         Done, syncVars
<1> SUFFICES /\ stamp' \in [Samples -> Nat]
             /\ nextId' \in Nat /\ unpruned' \in Nat
             /\ everRows' \subseteq Row /\ rows' \subseteq everRows' /\ IsFiniteSet(everRows')
             /\ MaxRows > 0 =>
                  /\ Cardinality(rows') <= MaxRows + unpruned' + c'
                  /\ \A r \in everRows' \ rows' :
                        Cardinality({q \in everRows' : Newer(q, r)}) >= MaxRows
  BY <1>0, <1>5, <1>6 DEF CoverageTypes, NewestRowsKept
<1>7. CASE TakeStamp(n) \/ ReleaseToken(n) \/ Done(n)
  <2>1. UNCHANGED <<rows, nextId, everRows, unpruned>> /\ stamp' \in [Samples -> Nat]
    BY <1>1, <1>7 DEF TakeStamp, ReleaseToken, Done, tableVars
  <2>2. wpc[n] \notin P /\ \E p \in {"insert", "exit", "done"} : Goto(n, p)
    BY <1>7 DEF TakeStamp, ReleaseToken, Done
  <2>3. PICK p \in {"insert", "exit", "done"} : Goto(n, p) BY <2>2
  <2>4. p \notin P OBVIOUS
  <2> HIDE DEF P, c
  <2>5. c \in Nat /\ c' = c + 0 - 0 BY <1>2, <2>2, <2>3, <2>4
  <2>6. c' = c BY <2>5
  <2> QED BY <1>0, <1>3, <2>1, <2>6 DEF CoverageTypes
<1>8. CASE InsertOK(n)
  <2>1. wpc[n] = "insert" /\ Goto(n, "prune") /\ AddRow(n) /\ UNCHANGED <<stamp, unpruned>>
    BY <1>8 DEF InsertOK
  <2>2. wpc[n] \notin P /\ "prune" \in P BY <2>1
  <2> HIDE DEF P, c
  <2>3. c \in Nat /\ c' = c + 1 - 0 BY <1>2, <2>1, <2>2
  <2>4. Cardinality(rows') \in Nat /\ Cardinality(rows') <= Cardinality(rows) + 1
    BY <2>1, RowAdded
  <2>5. MaxRows > 0 => Cardinality(rows') <= MaxRows + unpruned' + c'
    BY <1>0, <1>1, <1>3, <2>1, <2>3, <2>4
  <2> QED BY <1>1, <2>1, <2>5, RowAdded
<1>9. CASE InsertFails(n)
  <2>1. wpc[n] = "insert" /\ Goto(n, "release") /\ UNCHANGED stamp
    BY <1>9 DEF InsertFails
  <2>2. wpc[n] \notin P /\ "release" \notin P BY <2>1
  <2> HIDE DEF P, c
  <2>3. c \in Nat /\ c' = c + 0 - 0 BY <1>2, <2>1, <2>2
  <2>4. CASE UNCHANGED tableVars
    BY <1>0, <1>1, <1>3, <2>1, <2>3, <2>4 DEF CoverageTypes, tableVars
  <2>5. CASE AddRow(n) /\ unpruned' = unpruned + 1
    <3>1. Cardinality(rows') \in Nat /\ Cardinality(rows') <= Cardinality(rows) + 1
      BY <2>5, RowAdded
    <3>2. MaxRows > 0 => Cardinality(rows') <= MaxRows + unpruned' + c'
      BY <1>0, <1>1, <1>3, <2>3, <2>5, <3>1
    <3> QED BY <1>1, <2>1, <2>5, <3>2, RowAdded
  <2> QED BY <1>9, <2>4, <2>5 DEF InsertFails
<1>10. CASE PruneOK(n)
  <2>1. /\ Goto(n, "release") /\ unpruned' = 0 /\ UNCHANGED <<stamp, nextId, everRows>>
        /\ rows' = IF MaxRows = 0 THEN rows ELSE Newest(rows, MaxRows)
    BY <1>10 DEF PruneOK
  <2> HIDE DEF P, c
  <2>2. c' \in Nat BY <1>2, <2>1
  <2>3. CASE MaxRows = 0 BY <1>0, <1>1, <2>1, <2>3 DEF CoverageTypes
  <2>4. CASE MaxRows > 0
    <3>1. rows' = Newest(rows, MaxRows) BY <2>1, <2>4
    <3>2. Cardinality(rows') \in Nat /\ Cardinality(rows') <= MaxRows
      BY <2>1, <2>4, <3>1, RowsPruned
    <3>3. Cardinality(rows') <= MaxRows + unpruned' + c' BY <1>0, <2>1, <2>2, <3>2
    <3> QED BY <1>0, <1>1, <2>1, <2>4, <3>1, <3>3, RowsPruned DEF CoverageTypes
  <2> QED BY <1>0, <2>3, <2>4
<1>11. CASE PruneFails(n)
  <2>1. /\ wpc[n] = "prune" /\ Goto(n, "release") /\ unpruned' = unpruned + 1
        /\ UNCHANGED <<stamp, rows, nextId, everRows>>
    BY <1>11 DEF PruneFails
  <2>2. wpc[n] \in P /\ "release" \notin P BY <2>1
  <2> HIDE DEF P, c
  <2>3. c \in Nat /\ c' = c + 0 - 1 BY <1>2, <2>1, <2>2
  <2>4. MaxRows > 0 => Cardinality(rows') <= MaxRows + unpruned' + c'
    BY <1>0, <1>1, <1>3, <2>1, <2>3
  <2> QED BY <1>0, <1>1, <1>3, <2>1, <2>4 DEF CoverageTypes
<1> QED BY <1>7, <1>8, <1>9, <1>10, <1>11 DEF WriterStep

\* Who waits for whom, after a writer's step: after a drain, the writer whose
\* Done wakes the waiter is the last.
LEMMA WriterKeepsWait ==
    ASSUME CoverageInv, NEW n \in Samples, WriterStep(n)
    PROVE  WaitInv' /\ NoReuseAfterDrain'
<1>1. UNCHANGED <<http, mpc, result, panicked>>
  BY DEF WriterStep, TakeStamp, InsertOK, InsertFails, PruneOK, PruneFails, ReleaseToken,
         Done, syncVars
<1>2. NoReuseAfterDrain' BY <1>1 DEF CoverageInv, NoReuseAfterDrain
<1>3. CASE Done(n)
  <2>1. wg' = wg - 1 /\ wpc[n] = "exit"
        /\ waiter' = IF wg' = 0 /\ waiter = "blocked" THEN "woken" ELSE waiter
    BY <1>3 DEF Done
  <2>2. wg # 0 BY <2>1, NobodyLeft
  <2> QED BY <1>1, <1>2, <2>1, <2>2 DEF CoverageInv, WaitInv
<1>4. CASE ~Done(n)
  <2>1. UNCHANGED <<wg, waiter>>
    BY <1>4 DEF WriterStep, TakeStamp, InsertOK, InsertFails, PruneOK, PruneFails,
         ReleaseToken, syncVars
  <2> QED BY <1>1, <1>2, <2>1 DEF CoverageInv, WaitInv
<1> QED BY <1>3, <1>4

\* The steps of main and of the waiter, and the clock's.
LEMMA MainKeepsInv ==
    ASSUME CoverageInv,
           \/ Tick \/ HTTPShutdown \/ WaitStart \/ WaiterWakes \/ WaitNil \/ WaitDeadline
           \/ CloseStore \/ UNCHANGED cvars
    PROVE  CoverageInv'
<1>0. CoverageTypes /\ CountInv /\ WaitInv /\ NoReuseAfterDrain BY DEF CoverageInv
<1>1. UNCHANGED <<calls, wpc, stamp, sem, wg, rows, nextId, everRows, unpruned>>
  BY DEF Tick, HTTPShutdown, WaitStart, WaiterWakes, WaitNil, WaitDeadline, CloseStore,
         cvars, syncVars, tableVars
<1>2. \A S : Active(S)' = Active(S) BY <1>1 DEF Active
<1>3. CountInv' BY <1>0, <1>1, <1>2 DEF CountInv
<1>4. NewestRowsKept' BY <1>1, <1>2, TableKept
<1>5. panicked' = panicked \/ (waiter = "woken" /\ panicked' = (panicked \/ wg # 0)
                               /\ UNCHANGED http)
  BY DEF Tick, HTTPShutdown, WaitStart, WaiterWakes, WaitNil, WaitDeadline, CloseStore,
         cvars, syncVars
<1>6. CoverageTypes'
  <2>1. now' \in Nat
    BY <1>0 DEF CoverageTypes, Tick, HTTPShutdown, WaitStart, WaiterWakes, WaitNil,
         WaitDeadline, CloseStore, cvars
  <2>2. panicked' \in BOOLEAN
    <3>1. panicked \in BOOLEAN BY <1>0 DEF CoverageTypes
    <3> QED BY <1>5, <3>1, Zenon
  <2> QED BY <1>0, <1>1, <2>1, <2>2 DEF CoverageTypes
<1>7. http' = "drained" => (http = "drained" \/ (mpc = "serving" /\ UNCHANGED panicked))
  BY DEF Tick, HTTPShutdown, WaitStart, WaiterWakes, WaitNil, WaitDeadline, CloseStore,
         cvars, syncVars
<1>8. WaitInv'
  <2>1. CASE Tick \/ UNCHANGED cvars
    BY <1>0, <1>1, <2>1 DEF WaitInv, Tick, cvars, syncVars
  <2>2. CASE HTTPShutdown BY <1>0, <1>1, <2>2 DEF WaitInv, HTTPShutdown, syncVars
  <2>3. CASE WaitStart BY <1>0, <1>1, <2>3 DEF WaitInv, WaitStart
  <2>4. CASE WaiterWakes BY <1>0, <1>1, <2>4 DEF WaitInv, WaiterWakes
  <2>5. CASE WaitNil \/ WaitDeadline
    BY <1>0, <1>1, <2>5 DEF WaitInv, WaitNil, WaitDeadline, syncVars
  <2>6. CASE CloseStore BY <1>0, <1>1, <2>6 DEF WaitInv, CloseStore, syncVars
  <2> QED BY <2>1, <2>2, <2>3, <2>4, <2>5, <2>6
\* The HTTP drain happens before Wait, when nothing can have panicked yet.
<1>9. NoReuseAfterDrain'
  <2>1. CASE WaiterWakes
    BY <1>0, <2>1 DEF WaiterWakes, WaitInv, NoReuseAfterDrain
  <2>2. CASE ~WaiterWakes
    <3>1. UNCHANGED panicked
      BY <2>2 DEF Tick, HTTPShutdown, WaitStart, WaitNil, WaitDeadline, CloseStore,
           cvars, syncVars
    <3>2. mpc = "serving" => ~panicked BY <1>0 DEF WaitInv
    <3> QED BY <1>0, <1>7, <3>1, <3>2 DEF NoReuseAfterDrain
  <2> QED BY <2>1, <2>2
<1> QED BY <1>3, <1>4, <1>6, <1>8, <1>9 DEF CoverageInv

\* Every step keeps the invariant.
LEMMA CoverageStepInv == CoverageInv /\ [CoverageNext]_cvars => CoverageInv'
<1> SUFFICES ASSUME CoverageInv, [CoverageNext]_cvars PROVE CoverageInv'
  OBVIOUS
<1>1. CASE RecordEmpty
  <2>1. UNCHANGED <<waiter, panicked, http, mpc, result, rows, everRows, unpruned>>
        /\ http # "drained"
    BY <1>1 DEF RecordEmpty, tableVars
  <2>2. WaitInv' /\ NoReuseAfterDrain'
    BY <2>1 DEF CoverageInv, WaitInv, NoReuseAfterDrain
  <2>3. NewestRowsKept' BY <1>1, <2>1, RecordKeepsCounts, TableKept
  <2> QED BY <1>1, <2>2, <2>3, RecordKeepsCounts DEF CoverageInv
<1>2. CASE \E n \in Samples : WriterStep(n)
  BY <1>2, WriterKeepsCounts, WriterKeepsTable, WriterKeepsWait DEF CoverageInv
<1>3. CASE ~RecordEmpty /\ ~(\E n \in Samples : WriterStep(n))
  BY <1>3, MainKeepsInv DEF CoverageNext
<1> QED BY <1>1, <1>2, <1>3

\* CoverageInv is an invariant of the recorder, for every value of its bounds.
THEOREM CoverageInvariance == CoverageSpec => []CoverageInv
  BY CoverageInitInv, CoverageStepInv, PTL DEF CoverageSpec

\* However the writers' inserts and prunes interleave and fail, the table
\* exceeds Recorder.maxRows only by rows whose prune is to come or failed, and
\* a row is deleted only when that many newer ones were inserted.
THEOREM CoverageKeepsNewest == CoverageSpec => []NewestRowsKept
<1>1. CoverageInv => NewestRowsKept BY DEF CoverageInv
<1> QED BY <1>1, CoverageInvariance, PTL

\* Unless the HTTP drain timed out, wg.Go never meets a waiter that is waking
\* up, so Wait does not panic.
THEOREM CoverageNoReuse == CoverageSpec => []NoReuseAfterDrain
<1>1. CoverageInv => NoReuseAfterDrain BY DEF CoverageInv
<1> QED BY <1>1, CoverageInvariance, PTL

\* The tokens of Recorder.sem bound the writers that insert and prune.
WritersBounded == Cardinality(Active({"stamp", "insert", "prune"})) <= MaxWrites

\* At most maxConcurrentWrites writers are at work on the store at a time.
THEOREM CoverageWritersBounded == CoverageSpec => []WritersBounded
<1>1. CoverageInv => WritersBounded
  <2> SUFFICES ASSUME CoverageInv PROVE WritersBounded
    OBVIOUS
  <2> DEFINE A == Active({"stamp", "insert", "prune"})
             B == Active({"stamp", "insert", "prune", "release"})
  <2>1. IsFiniteSet(Samples) BY CoverageAssumption, FS_Interval DEF Samples
  <2>2. IsFiniteSet(B) /\ A \subseteq B BY <2>1, FS_Subset DEF Active
  <2>3. IsFiniteSet(A) /\ Cardinality(A) <= Cardinality(B) BY <2>2, FS_Subset
  <2>4. Cardinality(A) \in Nat /\ Cardinality(B) \in Nat BY <2>2, <2>3, FS_CardinalityType
  <2>5. Cardinality(B) <= MaxWrites BY DEF CoverageInv, CountInv
  <2> HIDE DEF A, B
  <2>6. Cardinality(A) <= MaxWrites BY <2>3, <2>4, <2>5, CoverageAssumption
  <2> QED BY <2>6 DEF WritersBounded, A
<1> QED BY <1>1, CoverageInvariance, PTL

\* After a complete HTTP drain, Wait's nil means that the table is final: no
\* writer is left to touch it before or after the store is closed.
THEOREM CoverageWaitNilIsFinal == CoverageSpec => WaitNilIsFinal
<1>1. CoverageInv /\ [CoverageNext]_cvars =>
          [result = "nil" /\ http = "drained" => UNCHANGED tableVars]_cvars
  <2> SUFFICES ASSUME CoverageInv, CoverageNext, result = "nil", http = "drained"
               PROVE  UNCHANGED tableVars
    OBVIOUS
  <2>1. \A n \in Samples : wpc[n] \in {"none", "done"}
    <3>1. wg = 0 BY DEF CoverageInv, WaitInv
    <3> QED BY <3>1, NobodyLeft
  <2>2. \A n \in Samples : ~WriterStep(n)
    BY <2>1 DEF WriterStep, TakeStamp, InsertOK, InsertFails, PruneOK, PruneFails,
         ReleaseToken, Done
  <2> QED BY <2>2 DEF CoverageNext, Tick, RecordEmpty, HTTPShutdown, WaitStart,
         WaiterWakes, WaitNil, WaitDeadline, CloseStore
<1> QED BY <1>1, CoverageInvariance, PTL DEF CoverageSpec, WaitNilIsFinal

=============================================================================
