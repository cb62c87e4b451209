----------------------- MODULE SubmissionPagesProofs -----------------------
(***************************************************************************)
(* Paging shows every row once and in order, and the queue's count is      *)
(* exact, for every table, limit and cap.                                  *)
(***************************************************************************)
EXTENDS SubmissionPages, SequenceTheorems, FiniteSetTheorems, TLAPS

-----------------------------------------------------------------------------
(* The order of the table.                                                 *)

TableTypes == created \in [Ids -> Nat] /\ status \in [Ids -> Statuses \cup {"none"}]

\* An id is a number, and not the one of NoCursor.
LEMMA IdNumbers == \A i \in Ids : i \in Nat /\ i # 0
  BY PagesAssumption

\* Newer is a strict total order.
LEMMA NewerOrder ==
    ASSUME TableTypes, NEW i \in Ids, NEW j \in Ids, NEW k \in Ids
    PROVE  /\ ~Newer(i, i)
           /\ Newer(i, j) => ~Newer(j, i)
           /\ Newer(i, j) /\ Newer(j, k) => Newer(i, k)
           /\ Newer(i, j) \/ Newer(j, i) \/ i = j
<1>1. created[i] \in Nat /\ created[j] \in Nat /\ created[k] \in Nat BY DEF TableTypes
<1>2. i \in Nat /\ j \in Nat /\ k \in Nat BY IdNumbers
<1> QED BY <1>1, <1>2 DEF Newer

\* The rows after a row's cursor are the ones it is newer than.
LEMMA AfterCursor ==
    ASSUME TableTypes, NEW i \in Ids, NEW j \in Ids
    PROVE  CursorAt(i) # NoCursor /\ (After(j, CursorAt(i)) <=> Newer(i, j))
<1>1. created[i] \in Nat /\ created[j] \in Nat BY DEF TableTypes
<1>2. i \in Nat /\ j \in Nat /\ i # 0 BY IdNumbers
<1>3. CursorAt(i) # NoCursor BY <1>2 DEF CursorAt, NoCursor
<1>4. CursorAt(i).at = created[i] /\ CursorAt(i).id = i BY DEF CursorAt
<1> QED BY <1>1, <1>2, <1>3, <1>4 DEF After, Newer

\* A row's rank is smaller than the number of rows.
LEMMA RankBound ==
    ASSUME TableTypes, NEW S \in SUBSET Ids, NEW i \in S
    PROVE  /\ IsFiniteSet(S) /\ Cardinality(S) \in Nat
           /\ Rank(S, i) \in Nat /\ Rank(S, i) < Cardinality(S)
<1> DEFINE P == {j \in S : Newer(j, i)}
<1>1. IsFiniteSet(S) /\ Cardinality(S) \in Nat
  BY PagesAssumption, FS_Subset, FS_CardinalityType
<1>2. P \in SUBSET S /\ i \notin P BY NewerOrder
<1>3. P # S BY <1>2
<1>4. /\ IsFiniteSet(P) /\ Cardinality(P) <= Cardinality(S)
      /\ Cardinality(S) # Cardinality(P)
  BY <1>1, <1>2, <1>3, FS_Subset
<1>5. Cardinality(P) \in Nat BY <1>4, FS_CardinalityType
<1>6. Rank(S, i) = Cardinality(P) BY DEF Rank
<1> HIDE DEF P
<1> QED BY <1>1, <1>4, <1>5, <1>6

\* A newer row has a smaller rank.
LEMMA RankOrder ==
    ASSUME TableTypes, NEW S \in SUBSET Ids, NEW i \in S, NEW j \in S, Newer(i, j)
    PROVE  Rank(S, i) < Rank(S, j)
<1> DEFINE P == {k \in S : Newer(k, i)}
           Q == {k \in S : Newer(k, j)}
<1>1. IsFiniteSet(S) /\ Rank(S, i) \in Nat /\ Rank(S, j) \in Nat BY RankBound
<1>2. P \in SUBSET Q /\ i \in Q /\ i \notin P BY NewerOrder
<1>3. Q \in SUBSET S /\ IsFiniteSet(Q) BY <1>1, FS_Subset
<1>4. P # Q BY <1>2
<1>5. Cardinality(P) <= Cardinality(Q) /\ Cardinality(Q) # Cardinality(P)
  BY <1>2, <1>3, <1>4, FS_Subset
<1>6. Rank(S, i) = Cardinality(P) /\ Rank(S, j) = Cardinality(Q) BY DEF Rank
<1> HIDE DEF P, Q
<1> QED BY <1>1, <1>5, <1>6

\* Two rows do not have the same rank.
LEMMA RankUnique ==
    ASSUME TableTypes, NEW S \in SUBSET Ids, NEW i \in S, NEW j \in S, Rank(S, i) = Rank(S, j)
    PROVE  i = j
<1>1. Rank(S, i) \in Nat BY RankBound
<1>2. ~(Rank(S, i) < Rank(S, j)) /\ ~(Rank(S, j) < Rank(S, i)) BY <1>1
<1>3. ~Newer(i, j) /\ ~Newer(j, i) BY <1>2, RankOrder
<1> QED BY <1>3, NewerOrder

\* Every position has its row.
LEMMA RankOnto ==
    ASSUME TableTypes, NEW S \in SUBSET Ids, NEW k \in 1 .. Cardinality(S)
    PROVE  \E i \in S : Rank(S, i) = k - 1
<1> DEFINE n == Cardinality(S)
           f == [i \in S |-> Rank(S, i) + 1]
<1>1. IsFiniteSet(S) /\ n \in Nat BY PagesAssumption, FS_Subset, FS_CardinalityType
<1>2. \A i \in S : Rank(S, i) \in Nat /\ Rank(S, i) < n BY RankBound
<1>3. IsFiniteSet(1 .. n) /\ Cardinality(1 .. n) = n BY <1>1, FS_Interval
<1> HIDE DEF n
<1>4. f \in [S -> 1 .. n] BY <1>1, <1>2
<1>5. \A i, j \in S : f[i] = f[j] => i = j
  <2> SUFFICES ASSUME NEW i \in S, NEW j \in S, f[i] = f[j] PROVE i = j
    OBVIOUS
  <2>1. Rank(S, i) + 1 = Rank(S, j) + 1 OBVIOUS
  <2>2. Rank(S, i) = Rank(S, j) BY <1>2, <2>1
  <2> QED BY <2>2, RankUnique
<1>6. f \in Injection(S, 1 .. n) BY <1>4, <1>5 DEF Injection, IsInjective
<1>7. f \in Surjection(S, 1 .. n)
  <2>1. Cardinality(S) = Cardinality(1 .. n) BY <1>3 DEF n
  <2> QED BY <1>3, <1>6, <2>1, FS_Injection
<1>8. PICK i \in S : f[i] = k BY <1>7 DEF Surjection, n
<1>9. Rank(S, i) + 1 = k /\ Rank(S, i) \in Nat BY <1>2, <1>8
<1>10. Rank(S, i) = k - 1 BY <1>9
<1> QED BY <1>10

\* What the query returns: as many rows as there are, at most n, the newest,
\* in order.
LEMMA NewestRows ==
    ASSUME TableTypes, NEW S \in SUBSET Ids, NEW n \in Nat
    PROVE  /\ Newest(S, n) \in Seq(S) /\ Newest(S, n) \in Seq(Ids)
           /\ Cardinality(S) \in Nat
           /\ Len(Newest(S, n)) = IF Cardinality(S) < n THEN Cardinality(S) ELSE n
           /\ \A k \in 1 .. Len(Newest(S, n)) :
                 Newest(S, n)[k] \in S /\ Rank(S, Newest(S, n)[k]) = k - 1
           /\ \A i \in S : Rank(S, i) < Len(Newest(S, n)) => Newest(S, n)[Rank(S, i) + 1] = i
<1> DEFINE m == IF Cardinality(S) < n THEN Cardinality(S) ELSE n
           rows == Newest(S, n)
<1>1. Cardinality(S) \in Nat BY PagesAssumption, FS_Subset, FS_CardinalityType
<1>2. m \in Nat /\ m <= Cardinality(S) BY <1>1
<1>3. rows = [k \in 1 .. m |-> CHOOSE i \in S : Rank(S, i) = k - 1] BY DEF Newest
<1> HIDE DEF m, rows
<1>4. ASSUME NEW k \in 1 .. m PROVE rows[k] \in S /\ Rank(S, rows[k]) = k - 1
  <2>1. k \in 1 .. Cardinality(S) BY <1>1, <1>2
  <2>2. \E i \in S : Rank(S, i) = k - 1 BY <2>1, RankOnto
  <2>3. rows[k] = CHOOSE i \in S : Rank(S, i) = k - 1 BY <1>3
  <2> QED BY <2>2, <2>3
<1>5. rows \in [1 .. m -> S] BY <1>3, <1>4
<1>6. rows \in Seq(S) /\ rows \in Seq(Ids)
  <2>1. rows \in Seq(S) BY <1>2, <1>5, SeqDef
  <2> QED BY <2>1, SeqMonotonic
<1>7. Len(rows) = m
  <2>1. DOMAIN rows = 1 .. m BY <1>5
  <2>2. DOMAIN rows = 1 .. Len(rows) /\ Len(rows) \in Nat BY <1>6, LenProperties
  <2> QED BY <1>2, <2>1, <2>2
<1>8. ASSUME NEW i \in S, Rank(S, i) < m PROVE rows[Rank(S, i) + 1] = i
  <2>1. Rank(S, i) \in Nat BY RankBound
  <2>2. Rank(S, i) + 1 \in 1 .. m BY <1>2, <1>8, <2>1
  <2>3. PICK k \in 1 .. m : k = Rank(S, i) + 1 BY <2>2
  <2>4. rows[k] \in S /\ Rank(S, rows[k]) = k - 1 BY <1>4
  <2>5. Rank(S, rows[k]) = Rank(S, i) BY <2>1, <2>3, <2>4
  <2>6. rows[k] = i BY <2>4, <2>5, RankUnique
  <2> QED BY <2>3, <2>6
<1> QED BY <1>1, <1>4, <1>6, <1>7, <1>8 DEF m, rows

-----------------------------------------------------------------------------
(* A page.                                                                 *)

Ordered(s) == \A k \in 1 .. Len(s) - 1 : Newer(s[k], s[k + 1])
LastOf(s)  == s[Len(s)]
Behind(f, c) == {i \in Ids : Matches(i, f) /\ After(i, c)}

\* A page has between one row and the cap.
LEMMA ClampedLimit == \A n \in Nat : clampLimit(n) \in Nat /\ clampLimit(n) >= 1
  BY PagesAssumption DEF clampLimit

\* The cursor of a page is that of its last row, and every row that matches is
\* before the old cursor, on the page or behind the new one.
LEMMA PageRows ==
    ASSUME TableTypes, NEW f, NEW n \in Nat, NEW c
    PROVE  \E rows, nxt :
             /\ rows \in Seq(Ids)
             /\ ListPage(f, n, c) = [rows |-> rows, next |-> nxt, sent |-> TRUE]
             /\ Ordered(rows)
             /\ \A k \in 1 .. Len(rows) : rows[k] \in Behind(f, c)
             /\ nxt = NoCursor \/ (rows # <<>> /\ nxt = CursorAt(LastOf(rows)))
             /\ \A i \in Behind(f, c) :
                   i \in ToSet(rows) \/ (nxt # NoCursor /\ After(i, nxt))
<1> DEFINE S == Behind(f, c)
           lim == clampLimit(n)
           all == Newest(S, lim + 1)
           rows == SubSeq(all, 1, lim)
<1>0. lim \in Nat /\ lim >= 1 /\ lim + 1 \in Nat BY ClampedLimit
<1>1. S \in SUBSET Ids BY DEF Behind
<1>2. ListPage(f, n, c) =
        IF Len(all) > lim
        THEN [rows |-> rows, next |-> CursorAt(all[lim]), sent |-> TRUE]
        ELSE [rows |-> all, next |-> NoCursor, sent |-> TRUE]
  BY DEF ListPage, Behind
<1> HIDE DEF S, lim
<1>3. /\ all \in Seq(S) /\ all \in Seq(Ids) /\ Cardinality(S) \in Nat
      /\ Len(all) = IF Cardinality(S) < lim + 1 THEN Cardinality(S) ELSE lim + 1
      /\ \A k \in 1 .. Len(all) : all[k] \in S /\ Rank(S, all[k]) = k - 1
      /\ \A i \in S : Rank(S, i) < Len(all) => all[Rank(S, i) + 1] = i
  BY <1>0, <1>1, NewestRows
<1> HIDE DEF all
<1>4. Len(all) \in Nat BY <1>0, <1>3
<1>5. ASSUME NEW k \in 1 .. Len(all), NEW l \in 1 .. Len(all), k < l
      PROVE  Newer(all[k], all[l])
  <2>1. /\ all[k] \in S /\ all[l] \in S
        /\ Rank(S, all[k]) = k - 1 /\ Rank(S, all[l]) = l - 1
    BY <1>3
  <2>2. k \in Nat /\ l \in Nat BY <1>4
  <2>3. Rank(S, all[k]) < Rank(S, all[l]) /\ ~(Rank(S, all[l]) < Rank(S, all[k]))
    BY <1>5, <2>1, <2>2
  <2>4. Rank(S, all[k]) # Rank(S, all[l]) BY <1>5, <2>1, <2>2
  <2>5. all[k] # all[l] BY <2>4
  <2>6. ~Newer(all[l], all[k]) BY <1>1, <2>1, <2>3, RankOrder
  <2> QED BY <1>1, <2>1, <2>5, <2>6, NewerOrder
<1>6. CASE ~(Len(all) > lim)
  <2>1. Len(all) = Cardinality(S) BY <1>0, <1>3, <1>6
  <2>2. Ordered(all)
    <3> SUFFICES ASSUME NEW k \in 1 .. Len(all) - 1 PROVE Newer(all[k], all[k + 1])
      BY DEF Ordered
    <3>1. k \in 1 .. Len(all) /\ k + 1 \in 1 .. Len(all) /\ k < k + 1 BY <1>4
    <3> QED BY <1>5, <3>1
  <2>3. ASSUME NEW i \in S PROVE i \in ToSet(all)
    <3>1. Rank(S, i) \in Nat /\ Rank(S, i) < Cardinality(S) BY <1>1, RankBound
    <3>2. all[Rank(S, i) + 1] = i BY <1>3, <2>1, <3>1
    <3>3. Rank(S, i) + 1 \in DOMAIN all
      <4>1. DOMAIN all = 1 .. Len(all) BY <1>3, LenProperties
      <4> QED BY <1>4, <2>1, <3>1, <4>1
    <3> QED BY <3>2, <3>3 DEF ToSet
  <2>4. ListPage(f, n, c) = [rows |-> all, next |-> NoCursor, sent |-> TRUE] BY <1>2, <1>6
  <2> QED BY <1>3, <2>2, <2>3, <2>4 DEF S
<1>7. CASE Len(all) > lim
  <2>1. \A k \in 1 .. lim : k \in 1 .. Len(all) /\ all[k] \in S /\ all[k] \in Ids
    BY <1>0, <1>1, <1>3, <1>4, <1>7
  <2>2. /\ rows \in Seq(Ids) /\ Len(rows) = lim
        /\ \A k \in 1 .. lim : rows[k] = all[k]
    <3>1. /\ SubSeq(all, 1, lim) \in Seq(Ids)
          /\ Len(SubSeq(all, 1, lim)) = IF 1 <= lim THEN lim - 1 + 1 ELSE 0
          /\ \A k \in 1 .. lim - 1 + 1 : SubSeq(all, 1, lim)[k] = all[1 + k - 1]
      BY <1>0, <2>1, SubSeqProperties
    <3> HIDE DEF rows
    <3>2. rows = SubSeq(all, 1, lim) BY DEF rows
    <3>3. Len(rows) = lim BY <1>0, <3>1, <3>2
    <3>4. ASSUME NEW k \in 1 .. lim PROVE rows[k] = all[k]
      <4>1. k \in 1 .. lim - 1 + 1 /\ 1 + k - 1 = k BY <1>0
      <4> QED BY <3>1, <3>2, <4>1
    <3> QED BY <3>1, <3>2, <3>3, <3>4
  <2> HIDE DEF rows
  <2>3. Ordered(rows)
    <3> SUFFICES ASSUME NEW k \in 1 .. lim - 1 PROVE Newer(rows[k], rows[k + 1])
      BY <2>2 DEF Ordered
    <3>1. k \in 1 .. lim /\ k + 1 \in 1 .. lim /\ k < k + 1 BY <1>0
    <3>2. rows[k] = all[k] /\ rows[k + 1] = all[k + 1] BY <2>2, <3>1
    <3>3. k \in 1 .. Len(all) /\ k + 1 \in 1 .. Len(all) BY <2>1, <3>1
    <3> QED BY <1>5, <3>1, <3>2, <3>3
  <2>4. lim \in 1 .. lim /\ lim \in 1 .. Len(all) BY <1>0, <2>1
  <2>5. LastOf(rows) = all[lim] /\ all[lim] \in S /\ Rank(S, all[lim]) = lim - 1
    BY <1>3, <2>2, <2>4 DEF LastOf
  <2>6. rows # <<>>
    <3>1. Len(<<>>) = 0 BY EmptySeq
    <3> QED BY <1>0, <2>2, <3>1
  <2>7. ASSUME NEW i \in S
        PROVE  i \in ToSet(rows) \/ After(i, CursorAt(all[lim]))
    <3>1. Rank(S, i) \in Nat BY <1>1, RankBound
    <3>2. CASE Rank(S, i) < lim
      <4>1. PICK k \in 1 .. lim : k = Rank(S, i) + 1 BY <1>0, <3>1, <3>2
      <4>2. Rank(S, i) < Len(all) BY <1>0, <1>4, <1>7, <3>1, <3>2
      <4>3. rows[k] = i BY <1>3, <2>2, <4>1, <4>2
      <4>4. k \in DOMAIN rows
        <5>1. DOMAIN rows = 1 .. Len(rows) BY <2>2, LenProperties
        <5> QED BY <2>2, <5>1
      <4> QED BY <4>3, <4>4 DEF ToSet
    <3>3. CASE ~(Rank(S, i) < lim)
      <4>1. ~(Rank(S, i) < Rank(S, all[lim])) /\ Rank(S, i) # Rank(S, all[lim])
        BY <1>0, <2>5, <3>1, <3>3
      <4>2. ~Newer(i, all[lim]) BY <1>1, <2>5, <4>1, RankOrder
      <4>3. i # all[lim] BY <4>1
      <4>4. Newer(all[lim], i) BY <1>1, <2>5, <4>2, <4>3, NewerOrder
      <4> QED BY <1>1, <2>5, <4>4, AfterCursor
    <3> QED BY <3>2, <3>3
  <2>8. CursorAt(all[lim]) # NoCursor BY <1>1, <2>5, AfterCursor
  <2>9. \A k \in 1 .. Len(rows) : rows[k] \in S BY <2>1, <2>2
  <2>10. ListPage(f, n, c) = [rows |-> rows, next |-> CursorAt(all[lim]), sent |-> TRUE]
    BY <1>2, <1>7
  <2> QED BY <2>2, <2>3, <2>5, <2>6, <2>7, <2>8, <2>9, <2>10 DEF S
<1> QED BY <1>6, <1>7

-----------------------------------------------------------------------------
(* The inductive invariant.                                                *)

\* A response under way continues the listing where the cursor left it.
AnswerInv ==
    /\ phase = "listing"
    /\ answer.rows \in Seq(Ids) /\ Ordered(answer.rows)
    /\ \A k \in 1 .. Len(answer.rows) : After(answer.rows[k], cursor)
    /\ \/ answer.next = NoCursor
       \/ answer.rows # <<>> /\ answer.next = CursorAt(LastOf(answer.rows))
    /\ \A i \in stayed : \/ i \in ToSet(shown) \cup ToSet(answer.rows)
                         \/ answer.next # NoCursor /\ After(i, answer.next)

\* The cursor is that of the last row shown, and a row that kept its status is
\* shown or behind it.
PagesInv ==
    /\ TableTypes
    /\ limit \in Nat /\ filter \in Statuses \cup {""} /\ phase \in {"new", "listing", "done"}
    /\ shown \in Seq(Ids) /\ Ordered(shown)
    /\ stayed \subseteq Ids /\ \A i \in stayed : Matches(i, filter)
    /\ phase = "new" => shown = <<>> /\ cursor = NoCursor /\ stayed = {}
    /\ phase = "listing" =>
          /\ shown = <<>> => cursor = NoCursor
          /\ shown # <<>> => cursor = CursorAt(LastOf(shown))
          /\ \A i \in stayed : i \in ToSet(shown) \/ After(i, cursor)
    /\ phase = "done" => stayed \subseteq ToSet(shown)
    /\ answer.sent => AnswerInv

-----------------------------------------------------------------------------
(* The steps.                                                              *)

\* Nothing is listed in the initial states.
LEMMA PagesInitInv == PagesInit => PagesInv
<1> SUFFICES ASSUME PagesInit PROVE PagesInv
  OBVIOUS
<1> USE DEF PagesInit
<1>1. TableTypes BY PagesAssumption DEF TableTypes, Statuses
<1>2. shown \in Seq(Ids) /\ Len(shown) = 0 BY EmptySeq
<1>3. Ordered(shown)
  <2> HIDE DEF PagesInit
  <2>1. \A k : k \notin 1 .. Len(shown) - 1 BY <1>2
  <2> QED BY <2>1 DEF Ordered
<1>4. ~answer.sent BY DEF NoAnswer
<1> QED BY <1>1, <1>2, <1>3, <1>4 DEF PagesInv

\* A row changes its status.
LEMMA SetStatusStep ==
    ASSUME PagesInv, NEW i \in Ids, NEW s \in Statuses, SetStatus(i, s)
    PROVE  PagesInv'
<1> USE DEF SetStatus, ask
<1>0. UNCHANGED <<created, filter, limit, cursor, answer, shown, phase>> OBVIOUS
<1>1. TableTypes' BY DEF PagesInv, TableTypes
<1>2. stayed' \subseteq stayed OBVIOUS
<1>3. \A j \in stayed' : Matches(j, filter)'
  <2> SUFFICES ASSUME NEW j \in stayed' PROVE Matches(j, filter)'
    OBVIOUS
  <2>1. j \in stayed /\ j \in Ids /\ Matches(j, filter) BY <1>2 DEF PagesInv
  <2>2. CASE j = i
    <3>1. filter \in {"", s} BY <2>2
    <3>2. status'[i] = s BY DEF PagesInv, TableTypes
    <3> QED BY <1>0, <2>2, <3>1, <3>2 DEF Matches, Statuses
  <2>3. CASE j # i
    <3>1. status'[j] = status[j] BY <2>1, <2>3 DEF PagesInv, TableTypes
    <3> QED BY <1>0, <2>1, <3>1 DEF Matches
  <2> QED BY <2>2, <2>3
<1> HIDE DEF SetStatus
<1>4. AnswerInv => AnswerInv'
  BY <1>0, <1>2 DEF AnswerInv, Ordered, Newer, After, CursorAt
<1>5. Ordered(shown) => Ordered(shown)' BY <1>0 DEF Ordered, Newer
<1>6. \A j \in stayed : After(j, cursor) <=> After(j, cursor)' BY <1>0 DEF After
<1>7. CursorAt(LastOf(shown))' = CursorAt(LastOf(shown)) BY <1>0 DEF CursorAt, LastOf
<1> QED BY <1>0, <1>1, <1>2, <1>3, <1>4, <1>5, <1>6, <1>7 DEF PagesInv

\* A client begins to list.
LEMMA BeginStep ==
    ASSUME PagesInv, NEW f \in Statuses \cup {""}, NEW n \in Limits, Begin(f, n)
    PROVE  PagesInv'
<1> USE DEF Begin, table
<1>0. UNCHANGED <<created, status, cursor, answer, shown>> OBVIOUS
<1>1. TableTypes' /\ limit' \in Nat BY PagesAssumption DEF PagesInv, TableTypes
<1>2. Ordered(shown)' BY <1>0 DEF PagesInv, Ordered, Newer
<1>3. ~answer'.sent BY DEF PagesInv, AnswerInv
<1>4. shown' = <<>> /\ cursor' = NoCursor BY DEF PagesInv
<1>5. \A i \in Ids : After(i, cursor)' BY <1>4 DEF After
<1>6. \A i \in stayed' : Matches(i, filter)' BY <1>0 DEF Matches
<1>7. stayed' \subseteq Ids /\ phase' = "listing" /\ filter' = f OBVIOUS
<1>8. shown' \in Seq(Ids) BY DEF PagesInv
<1> HIDE DEF Begin
<1> QED BY <1>1, <1>2, <1>3, <1>4, <1>5, <1>6, <1>7, <1>8 DEF PagesInv

\* The list handler queries a page.
LEMMA QueryStep == ASSUME PagesInv, Query PROVE PagesInv'
<1> USE DEF Query, table, ask
<1>0. UNCHANGED <<created, status, filter, limit, cursor, shown, phase, stayed>> OBVIOUS
<1>1. TableTypes /\ limit \in Nat /\ phase = "listing" BY DEF PagesInv
<1>2. PICK rows, nxt :
             /\ rows \in Seq(Ids)
             /\ ListPage(filter, limit, cursor) = [rows |-> rows, next |-> nxt, sent |-> TRUE]
             /\ Ordered(rows)
             /\ \A k \in 1 .. Len(rows) : rows[k] \in Behind(filter, cursor)
             /\ nxt = NoCursor \/ (rows # <<>> /\ nxt = CursorAt(LastOf(rows)))
             /\ \A i \in Behind(filter, cursor) :
                   i \in ToSet(rows) \/ (nxt # NoCursor /\ After(i, nxt))
  BY <1>1, PageRows
<1>3. answer'.rows = rows /\ answer'.next = nxt BY <1>2
<1> HIDE DEF Query
<1>4. Ordered(answer.rows)' BY <1>0, <1>2, <1>3 DEF Ordered, Newer
<1>5. \A k \in 1 .. Len(rows) : After(rows[k], cursor)' BY <1>0, <1>2 DEF Behind, After
<1>6. \/ nxt = NoCursor
      \/ rows # <<>> /\ nxt = CursorAt(LastOf(rows))'
  BY <1>0, <1>2 DEF CursorAt
<1>7. ASSUME NEW i \in stayed
      PROVE  \/ i \in ToSet(shown) \cup ToSet(rows)
             \/ nxt # NoCursor /\ After(i, nxt)'
  <2>1. i \in Ids /\ Matches(i, filter) /\ (i \in ToSet(shown) \/ After(i, cursor))
    BY <1>1 DEF PagesInv
  <2>2. i \in ToSet(shown) \/ i \in Behind(filter, cursor) BY <2>1 DEF Behind
  <2>3. After(i, nxt)' <=> After(i, nxt) BY <1>0 DEF After
  <2> QED BY <1>2, <2>2, <2>3
<1>8. AnswerInv'
  BY <1>0, <1>1, <1>2, <1>3, <1>4, <1>5, <1>6, <1>7 DEF AnswerInv
<1>9. Ordered(shown)' BY <1>0 DEF PagesInv, Ordered, Newer
<1>10. \A i \in stayed : After(i, cursor)' <=> After(i, cursor) BY <1>0 DEF After
<1>11. \A i \in stayed : Matches(i, filter)' <=> Matches(i, filter) BY <1>0 DEF Matches
<1>12. CursorAt(LastOf(shown))' = CursorAt(LastOf(shown)) BY <1>0 DEF CursorAt, LastOf
<1>13. TableTypes' BY <1>0, <1>1 DEF TableTypes
<1> QED BY <1>0, <1>8, <1>9, <1>10, <1>11, <1>12, <1>13 DEF PagesInv

\* A response is lost.
LEMMA LoseStep == ASSUME PagesInv, Lose PROVE PagesInv'
<1> USE DEF Lose, table, ask
<1>0. UNCHANGED <<created, status, filter, limit, cursor, shown, phase, stayed>> OBVIOUS
<1>1. ~answer'.sent BY DEF NoAnswer
<1> HIDE DEF Lose
<1> QED BY <1>0, <1>1
        DEF PagesInv, TableTypes, Ordered, Newer, After, Matches, CursorAt, LastOf

\* A page arrives.
LEMMA DeliverStep == ASSUME PagesInv, Deliver PROVE PagesInv'
<1> USE DEF Deliver, table, ask
<1>0. UNCHANGED <<created, status, filter, limit, stayed>> OBVIOUS
<1> DEFINE rows == answer.rows
           n == Len(shown)
           m == Len(rows)
<1>1. AnswerInv /\ TableTypes BY DEF PagesInv
<1>2. rows \in Seq(Ids) /\ shown \in Seq(Ids) /\ shown' = shown \o rows
  BY <1>1 DEF PagesInv, AnswerInv
<1>3. /\ cursor' = answer.next
      /\ phase' = IF answer.next = NoCursor THEN "done" ELSE "listing"
      /\ ~answer'.sent
  BY DEF NoAnswer
<1> HIDE DEF Deliver, rows
<1>4. /\ shown' \in Seq(Ids) /\ Len(shown') = n + m /\ n \in Nat /\ m \in Nat
      /\ \A k \in 1 .. n + m : shown'[k] = IF k <= n THEN shown[k] ELSE rows[k - n]
  BY <1>2, ConcatProperties, LenProperties
<1>5. /\ \A k \in 1 .. n : shown[k] \in Ids
      /\ \A k \in 1 .. m : rows[k] \in Ids
  BY <1>2, ElementOfSeq
<1>6. DOMAIN shown = 1 .. n /\ DOMAIN rows = 1 .. m /\ DOMAIN shown' = 1 .. n + m
  BY <1>2, <1>4, LenProperties
<1> HIDE DEF n, m
<1>7. Ordered(shown')
  <2> SUFFICES ASSUME NEW k \in 1 .. n + m - 1 PROVE Newer(shown'[k], shown'[k + 1])
    <3>1. 1 .. Len(shown') - 1 = 1 .. n + m - 1 BY <1>4
    <3> QED BY <3>1 DEF Ordered
  <2>0. k \in Nat /\ k \in 1 .. n + m /\ k + 1 \in 1 .. n + m BY <1>4
  <2>1. CASE k < n
    <3>1. shown'[k] = shown[k] /\ shown'[k + 1] = shown[k + 1] BY <1>4, <2>0, <2>1
    <3>2. k \in 1 .. n - 1 BY <1>4, <2>0, <2>1
    <3>3. Newer(shown[k], shown[k + 1]) BY <3>2 DEF PagesInv, Ordered, n
    <3> QED BY <3>1, <3>3
  <2>2. CASE k = n
    <3>1. shown'[k] = shown[n] /\ shown'[k + 1] = rows[1] /\ n \in 1 .. n /\ 1 \in 1 .. m
      BY <1>4, <2>0, <2>2
    <3>2. shown # <<>>
      <4>1. Len(<<>>) = 0 /\ n # 0 BY <1>4, <3>1, EmptySeq
      <4> QED BY <4>1 DEF n
    <3>3. cursor = CursorAt(shown[n]) BY <1>1, <3>2 DEF PagesInv, AnswerInv, LastOf, n
    <3>4. After(rows[1], cursor) BY <1>1, <3>1 DEF AnswerInv, rows, m
    <3>5. Newer(shown[n], rows[1]) BY <1>1, <1>5, <3>1, <3>3, <3>4, AfterCursor
    <3> QED BY <3>1, <3>5
  <2>3. CASE k > n
    <3>0. k - n \in 1 .. m - 1 BY <1>4, <2>0, <2>3
    <3>1. PICK j \in 1 .. m - 1 : j = k - n BY <3>0
    <3>2. shown'[k] = rows[j] /\ shown'[k + 1] = rows[j + 1]
      <4>1. k + 1 - n = j + 1 BY <1>4, <2>0, <3>1
      <4> QED BY <1>4, <2>0, <2>3, <3>1, <4>1
    <3>3. Newer(rows[j], rows[j + 1]) BY <1>1 DEF AnswerInv, Ordered, rows, m
    <3> QED BY <3>2, <3>3
  <2> QED BY <1>4, <2>0, <2>1, <2>2, <2>3
<1>8. ToSet(shown') = ToSet(shown) \cup ToSet(rows)
  <2>1. \A k \in 1 .. n : k \in 1 .. n + m /\ shown'[k] = shown[k] BY <1>4
  <2>2. \A k \in 1 .. m : k + n \in 1 .. n + m /\ shown'[k + n] = rows[k]
    <3> SUFFICES ASSUME NEW k \in 1 .. m
                 PROVE  k + n \in 1 .. n + m /\ shown'[k + n] = rows[k]
      OBVIOUS
    <3>1. k + n \in 1 .. n + m /\ ~(k + n <= n) /\ k + n - n = k BY <1>4
    <3> QED BY <1>4, <3>1
  <2>3. \A k \in 1 .. n + m : k \in 1 .. n \/ \E j \in 1 .. m : k = j + n
    <3> SUFFICES ASSUME NEW k \in 1 .. n + m, k \notin 1 .. n PROVE \E j \in 1 .. m : k = j + n
      OBVIOUS
    <3>1. k - n \in 1 .. m /\ k = (k - n) + n BY <1>4
    <3> QED BY <3>1
  <2>4. ToSet(shown') \subseteq ToSet(shown) \cup ToSet(rows)
    <3> SUFFICES ASSUME NEW e \in ToSet(shown') PROVE e \in ToSet(shown) \cup ToSet(rows)
      OBVIOUS
    <3>1. PICK k \in 1 .. n + m : e = shown'[k] BY <1>6 DEF ToSet
    <3>2. CASE k \in 1 .. n BY <1>6, <2>1, <3>1, <3>2 DEF ToSet
    <3>3. CASE \E j \in 1 .. m : k = j + n BY <1>6, <2>2, <3>1, <3>3 DEF ToSet
    <3> QED BY <2>3, <3>2, <3>3
  <2>5. ToSet(shown) \subseteq ToSet(shown') BY <1>6, <2>1 DEF ToSet
  <2>6. ToSet(rows) \subseteq ToSet(shown') BY <1>6, <2>2 DEF ToSet
  <2> QED BY <2>4, <2>5, <2>6
<1>9. ASSUME NEW i \in stayed
      PROVE  i \in ToSet(shown') \/ (answer.next # NoCursor /\ After(i, answer.next))
  BY <1>1, <1>8 DEF AnswerInv, rows
<1>10. answer.next # NoCursor => /\ shown' # <<>>
                                 /\ answer.next = CursorAt(LastOf(shown'))
  <2> SUFFICES ASSUME answer.next # NoCursor
               PROVE  shown' # <<>> /\ answer.next = CursorAt(LastOf(shown'))
    OBVIOUS
  <2>1. rows # <<>> /\ answer.next = CursorAt(LastOf(rows)) BY <1>1 DEF AnswerInv, rows
  <2>2. m \in Nat \ {0} BY <1>2, <2>1, EmptySeq DEF m
  <2>3. LastOf(shown') = rows[m]
    <3>1. n + m \in 1 .. n + m /\ ~(n + m <= n) /\ n + m - n = m BY <1>4, <2>2
    <3> QED BY <1>4, <3>1 DEF LastOf
  <2>4. shown' # <<>>
    <3>1. Len(<<>>) = 0 BY EmptySeq
    <3> QED BY <1>4, <2>2, <3>1
  <2> QED BY <2>1, <2>3, <2>4 DEF LastOf, m
<1>11. TableTypes' /\ limit' \in Nat /\ filter' \in Statuses \cup {""}
      /\ stayed' \subseteq Ids /\ \A i \in stayed' : Matches(i, filter)'
  BY <1>0 DEF PagesInv, TableTypes, Matches
<1>12. Ordered(shown)' BY <1>0, <1>7 DEF Ordered, Newer
<1>13. \A i : After(i, cursor)' <=> After(i, answer.next) BY <1>0, <1>3 DEF After
<1>14. CursorAt(LastOf(shown))' = CursorAt(LastOf(shown')) BY <1>0 DEF CursorAt, LastOf
<1>15. CASE answer.next = NoCursor
  <2>1. phase' = "done" BY <1>3, <1>15
  <2>2. stayed' \subseteq ToSet(shown') BY <1>0, <1>9, <1>15
  <2> QED BY <1>3, <1>4, <1>11, <1>12, <2>1, <2>2 DEF PagesInv
<1>16. CASE answer.next # NoCursor
  <2>1. phase' = "listing" BY <1>3, <1>16
  <2>2. shown' # <<>> /\ cursor' = CursorAt(LastOf(shown))' BY <1>3, <1>10, <1>14, <1>16
  <2>3. \A i \in stayed' : i \in ToSet(shown') \/ After(i, cursor)' BY <1>0, <1>9, <1>13
  <2> QED BY <1>3, <1>4, <1>11, <1>12, <2>1, <2>2, <2>3 DEF PagesInv
<1> QED BY <1>15, <1>16

\* Nothing changes.
LEMMA PagesStutter == ASSUME PagesInv, UNCHANGED pvars PROVE PagesInv'
<1>1. UNCHANGED <<created, status, filter, limit, cursor, answer, shown, phase, stayed>>
  BY DEF pvars, table, ask
<1> QED BY <1>1
        DEF PagesInv, AnswerInv, TableTypes, Ordered, Newer, After, Matches, CursorAt, LastOf

-----------------------------------------------------------------------------
(* The theorems.                                                           *)

\* Every reachable state of the table and of a listing satisfies PagesInv.
THEOREM PagesInvariance == PagesSpec => []PagesInv
<1>1. PagesInit => PagesInv BY PagesInitInv
<1>2. PagesInv /\ [PagesNext]_pvars => PagesInv'
  <2> SUFFICES ASSUME PagesInv, [PagesNext]_pvars PROVE PagesInv'
    OBVIOUS
  <2>1. ASSUME NEW i \in Ids, Create(i) \/ Approve(i) \/ Reject(i) PROVE PagesInv'
    <3>1. \E s \in Statuses : SetStatus(i, s) BY <2>1 DEF Create, Approve, Reject, Statuses
    <3> QED BY <3>1, SetStatusStep
  <2>2. ASSUME NEW f \in Statuses \cup {""}, NEW n \in Limits, Begin(f, n) PROVE PagesInv'
    BY <2>2, BeginStep
  <2>3. CASE Query BY <2>3, QueryStep
  <2>4. CASE Deliver BY <2>4, DeliverStep
  <2>5. CASE Lose BY <2>5, LoseStep
  <2>6. CASE UNCHANGED pvars BY <2>6, PagesStutter
  <2> QED BY <2>1, <2>2, <2>3, <2>4, <2>5, <2>6 DEF PagesNext
<1> QED BY <1>1, <1>2, PTL DEF PagesSpec

\* Paging is exact for every table, limit and cap: a row that keeps its status
\* is shown exactly once, newest first, however many rows share a millisecond,
\* arrive or are decided between the pages, and however often a page is lost.
THEOREM PagingIsExact == PagesSpec => []PagingExact
<1>1. PagesInv => PagingExact BY DEF PagesInv, PagingExact, Ordered
<1> QED BY <1>1, PagesInvariance, PTL

\* The pending-queue guard's count is exact at its limit, as long as that is
\* within the cap of a page.
THEOREM QueueCountIsExact == PagesSpec => []QueueCountExact
<1>1. PagesInv => QueueCountExact
  <2> SUFFICES ASSUME PagesInv PROVE QueueCountExact
    OBVIOUS
  <2> DEFINE S == {i \in Ids : Matches(i, "pending") /\ After(i, NoCursor)}
             P == {i \in Ids : status[i] = "pending"}
             all == Newest(S, QueueLimit + 1)
             page == List("pending", QueueLimit)
  <2>0. TableTypes BY DEF PagesInv
  <2>1. QueueLimit \in Nat /\ QueueLimit >= 1 /\ clampLimit(QueueLimit) = QueueLimit
    BY PagesAssumption DEF clampLimit
  <2>2. S = P BY DEF Matches, After
  <2>3. page = IF Len(all) > QueueLimit THEN SubSeq(all, 1, QueueLimit) ELSE all
    <3>1. ListPage("pending", QueueLimit, NoCursor) =
            IF Len(all) > QueueLimit
            THEN [rows |-> SubSeq(all, 1, QueueLimit), next |-> CursorAt(all[QueueLimit]),
                  sent |-> TRUE]
            ELSE [rows |-> all, next |-> NoCursor, sent |-> TRUE]
      BY <2>1, Zenon DEF ListPage
    <3> HIDE DEF all
    <3>2. CASE Len(all) > QueueLimit BY <3>1, <3>2 DEF List
    <3>3. CASE ~(Len(all) > QueueLimit) BY <3>1, <3>3 DEF List
    <3> QED BY <3>2, <3>3
  <2>4. S \in SUBSET Ids OBVIOUS
  <2> HIDE DEF S, P, page
  <2>5. QueueLimit + 1 \in Nat BY <2>1
  <2>6. /\ all \in Seq(Ids) /\ Cardinality(S) \in Nat
        /\ Len(all) = IF Cardinality(S) < QueueLimit + 1 THEN Cardinality(S) ELSE QueueLimit + 1
    BY <2>0, <2>4, <2>5, NewestRows
  <2> HIDE DEF all
  <2>7. Len(page) >= QueueLimit <=> Cardinality(S) >= QueueLimit
    <3>1. CASE Len(all) > QueueLimit
      <4>1. \A k \in 1 .. QueueLimit : all[k] \in Ids
        <5>1. Len(all) \in Nat BY <2>1, <2>6
        <5>2. \A k \in 1 .. QueueLimit : k \in 1 .. Len(all) BY <2>1, <3>1, <5>1
        <5> QED BY <2>6, <5>2, ElementOfSeq
      <4>2. Len(SubSeq(all, 1, QueueLimit))
              = IF 1 <= QueueLimit THEN QueueLimit - 1 + 1 ELSE 0
        BY <2>1, <4>1, SubSeqProperties
      <4>3. Len(page) = QueueLimit BY <2>1, <2>3, <3>1, <4>2
      <4>4. Cardinality(S) >= QueueLimit BY <2>1, <2>6, <3>1
      <4> QED BY <2>1, <4>3, <4>4
    <3>2. CASE ~(Len(all) > QueueLimit)
      <4>1. page = all BY <2>3, <3>2
      <4>2. Len(all) = Cardinality(S) BY <2>1, <2>6, <3>2
      <4> QED BY <4>1, <4>2
    <3> QED BY <3>1, <3>2
  <2> QED BY <2>2, <2>7 DEF QueueCountExact, P, page
<1> QED BY <1>1, PagesInvariance, PTL

=============================================================================
