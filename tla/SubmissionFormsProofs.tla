------------------------ MODULE SubmissionFormsProofs ------------------------
(***************************************************************************)
(* Safety of the seed loader, the region graph, postal codes and submitted *)
(* forms for any seed, any rows, any queries and any forms.                *)
(***************************************************************************)
EXTENDS SubmissionForms, SequenceTheorems, FiniteSetTheorems, WellFoundedInduction, TLAPS

-----------------------------------------------------------------------------
(* Loops.  The walks of the model are loops over a state: a function that  *)
(* is its own value at the next state until the state is done.             *)

\* A nonempty set of natural numbers has a least element.
LEMMA LeastNat ==
    ASSUME NEW A, A \subseteq Nat, A # {}
    PROVE  \E m \in A : \A x \in A : m <= x
<1>1. PICK m \in A : \A y \in A : ~(<<y, m>> \in OpToRel(<, Nat))
  BY NatLessThanWellFounded, WFMin
<1>2. \A y \in A : ~(y < m)
  BY <1>1 DEF OpToRel
<1> QED BY <1>2

\* A set of loop states that the loop does not leave before it is done.
Invariant(X, D, step) == \A x \in X \ D : step[x] \in X

\* The last states a loop can have that starts at s.
Ends(S, D, step, s) ==
    {t \in D : \A X \in SUBSET S : s \in X /\ Invariant(X, D, step) => t \in X}

\* The loop as a function of its state.
IsLoop(g, S, D, step, res) ==
    /\ g = [s \in S |-> g[s]]
    /\ \A s \in S : g[s] = IF s \in D THEN res[s] ELSE g[step[s]]

\* A loop exists, whether it ends or not.
LEMMA LoopDefined ==
    ASSUME NEW S, NEW D \in SUBSET S, NEW step, \A s \in S \ D : step[s] \in S, NEW res
    PROVE  \E g : IsLoop(g, S, D, step, res)
<1> DEFINE g == [s \in S |-> res[CHOOSE t : t \in Ends(S, D, step, s)]]
<1>1. ASSUME NEW s \in D PROVE Ends(S, D, step, s) = {s}
  <2>1. s \in Ends(S, D, step, s) BY DEF Ends
  <2>2. {s} \in SUBSET S /\ Invariant({s}, D, step) BY DEF Invariant
  <2> QED BY <2>1, <2>2 DEF Ends
<1>2. ASSUME NEW s \in S \ D PROVE Ends(S, D, step, s) = Ends(S, D, step, step[s])
  <2>1. ASSUME NEW X \in SUBSET S, s \in X, Invariant(X, D, step) PROVE step[s] \in X
    BY <2>1 DEF Invariant
  <2>2. ASSUME NEW X \in SUBSET S, step[s] \in X, Invariant(X, D, step)
        PROVE  X \cup {s} \in SUBSET S /\ Invariant(X \cup {s}, D, step)
    BY <2>2 DEF Invariant
  <2>3. ASSUME NEW t \in Ends(S, D, step, s) PROVE t \in Ends(S, D, step, step[s])
    <3>1. SUFFICES ASSUME NEW X \in SUBSET S, step[s] \in X, Invariant(X, D, step) PROVE t \in X
      BY <2>3 DEF Ends
    <3>2. t \in X \cup {s} BY <2>2, <2>3, <3>1 DEF Ends
    <3>3. t \in D BY <2>3 DEF Ends
    <3> QED BY <3>2, <3>3
  <2>4. ASSUME NEW t \in Ends(S, D, step, step[s]) PROVE t \in Ends(S, D, step, s)
    BY <2>1, <2>4 DEF Ends
  <2> QED BY <2>3, <2>4
<1>3. ASSUME NEW s \in D PROVE g[s] = res[s]
  BY <1>1
<1>4. ASSUME NEW s \in S \ D PROVE g[s] = g[step[s]]
  BY <1>2
<1>5. g = [s \in S |-> g[s]] OBVIOUS
<1> HIDE DEF g
<1>6. IsLoop(g, S, D, step, res) BY <1>3, <1>4, <1>5 DEF IsLoop
<1> QED BY <1>6

\* A loop whose states get smaller, by one measure or, with that unchanged, by
\* another, ends in a state that satisfies each of its invariants.
LEMMA LoopEnds ==
    ASSUME NEW S, NEW D \in SUBSET S, NEW step, \A s \in S \ D : step[s] \in S, NEW res,
           NEW a \in [S -> Nat], NEW b \in [S -> Nat],
           \A s \in S \ D : a[step[s]] < a[s] \/ (a[step[s]] = a[s] /\ b[step[s]] < b[s]),
           NEW g, IsLoop(g, S, D, step, res),
           NEW X \in SUBSET S, Invariant(X, D, step)
    PROVE  \A s \in X : \E t \in X \cap D : g[s] = res[t]
<1> DEFINE Bad == {s \in X : \A t \in X \cap D : g[s] # res[t]}
<1> SUFFICES ASSUME Bad # {} PROVE FALSE OBVIOUS
<1>1. PICK m \in {a[s] : s \in Bad} : \A x \in {a[s] : s \in Bad} : m <= x
  <2>1. {a[s] : s \in Bad} \subseteq Nat /\ {a[s] : s \in Bad} # {} OBVIOUS
  <2> QED BY <2>1, LeastNat
<1> DEFINE Low == {s \in Bad : a[s] = m}
<1>2. PICK n \in {b[s] : s \in Low} : \A x \in {b[s] : s \in Low} : n <= x
  <2>1. {b[s] : s \in Low} \subseteq Nat /\ {b[s] : s \in Low} # {} BY <1>1
  <2> HIDE DEF Low
  <2> QED BY <2>1, LeastNat
<1>3. PICK s \in Low : b[s] = n BY <1>2
<1>4. s \in X /\ a[s] = m /\ s \in S BY <1>3
<1>5. s \notin D
  <2> SUFFICES ASSUME s \in D PROVE FALSE OBVIOUS
  <2>1. g[s] = res[s] BY <1>4 DEF IsLoop
  <2> QED BY <1>3, <1>4, <2>1
<1>6. step[s] \in X /\ step[s] \in S BY <1>4, <1>5 DEF Invariant
<1>7. g[s] = g[step[s]] BY <1>4, <1>5 DEF IsLoop
<1>8. step[s] \in Bad BY <1>3, <1>6, <1>7
<1>9. a[step[s]] \in Nat /\ a[s] \in Nat /\ b[step[s]] \in Nat /\ b[s] \in Nat BY <1>4, <1>6
<1>10. m <= a[step[s]] BY <1>1, <1>8
<1>11. a[step[s]] = a[s] /\ b[step[s]] < b[s] BY <1>4, <1>5, <1>9, <1>10
<1>12. step[s] \in Low BY <1>4, <1>8, <1>11
<1>13. n <= b[step[s]] BY <1>2, <1>12
<1> QED BY <1>3, <1>9, <1>11, <1>13

-----------------------------------------------------------------------------
(* Sequences.                                                              *)

\* What a loop over a sequence has collected before position n: only elements
\* from positions it keeps, all of those, its first and its last one if they are
\* kept, and all of the sequence if nothing is dropped.
OnlyKept(s, keep, n, out) ==
    \A k \in 1 .. Len(out) : \E i \in keep \cap (1 .. Len(s)) : i < n /\ out[k] = s[i]
AllKept(s, keep, n, out) ==
    \A i \in keep \cap (1 .. Len(s)) : i < n => \E k \in 1 .. Len(out) : out[k] = s[i]
FirstKept(s, keep, n, out) == 1 \in keep /\ n > 1 => Len(out) >= 1 /\ out[1] = s[1]
LastKept(s, keep, n, out) ==
    n > 1 /\ n - 1 \in keep => Len(out) >= 1 /\ out[Len(out)] = s[n - 1]
NoneDropped(s, keep, n, out) ==
    (\A i \in 1 .. n - 1 : i \in keep) => Len(out) = n - 1 /\ \A k \in 1 .. n - 1 : out[k] = s[k]

Collected(s, keep, n, out) ==
    /\ OnlyKept(s, keep, n, out) /\ AllKept(s, keep, n, out)
    /\ FirstKept(s, keep, n, out) /\ LastKept(s, keep, n, out) /\ NoneDropped(s, keep, n, out)

\* Picked collects exactly the elements at the positions it is given, in order.
LEMMA PickedCollects ==
    ASSUME NEW T, NEW s \in Seq(T), NEW keep
    PROVE  Picked(s, keep) \in Seq(T) /\ Collected(s, keep, Len(s) + 1, Picked(s, keep))
<1> DEFINE S == [next : 1 .. Len(s) + 1, out : Seq(Range(s))]
           D == {st \in S : st.next > Len(s)}
           step == [st \in S |-> pickStep(s, keep, st)]
           res == [st \in S |-> st.out]
           a == [st \in S |-> Len(s) + 1 - st.next]
           b == [st \in S |-> 0]
           X == {st \in S : Collected(s, keep, st.next, st.out)}
           init == [next |-> 1, out |-> <<>>]
<1>1. /\ Len(s) \in Nat /\ DOMAIN s = 1 .. Len(s) /\ Range(s) \subseteq T
      /\ \A i \in 1 .. Len(s) : s[i] \in Range(s) /\ s[i] \in T
  BY DEF Range
<1>2. ASSUME NEW st \in S \ D
      PROVE  /\ pickStep(s, keep, st) \in S
             /\ pickStep(s, keep, st).next = st.next + 1
             /\ pickStep(s, keep, st).out
                   = IF st.next \in keep THEN Append(st.out, s[st.next]) ELSE st.out
             /\ st.next \in 1 .. Len(s) /\ st.out \in Seq(Range(s))
  <2>1. st.next \in 1 .. Len(s) /\ st.out \in Seq(Range(s)) BY <1>1
  <2>2. Append(st.out, s[st.next]) \in Seq(Range(s)) BY <1>1, <2>1
  <2>3. st.next + 1 \in 1 .. Len(s) + 1 BY <1>1, <2>1
  <2> QED BY <2>1, <2>2, <2>3 DEF pickStep
<1>3. \A st \in S \ D : step[st] \in S BY <1>2
<1>4. D \in SUBSET S OBVIOUS
<1>5. PICK g : IsLoop(g, S, D, step, res) /\ Picked(s, keep) = g[init]
  <2> DEFINE Eq(g) == g = [st \in S |-> IF st.next > Len(s) THEN st.out
                                        ELSE g[pickStep(s, keep, st)]]
  <2>1. ASSUME NEW g, IsLoop(g, S, D, step, res) PROVE Eq(g)
    BY <2>1 DEF IsLoop
  <2>2. \E g : IsLoop(g, S, D, step, res)
    <3> HIDE DEF S, D, step, res
    <3> QED BY <1>3, <1>4, LoopDefined
  <2>3. \E g : Eq(g) BY <2>1, <2>2
  <2>4. PICK g : Eq(g) /\ Picked(s, keep) = g[init] BY <2>3 DEF Picked
  <2>5. IsLoop(g, S, D, step, res) BY <2>4 DEF IsLoop
  <2> QED BY <2>4, <2>5
<1>6. a \in [S -> Nat] /\ b \in [S -> Nat]
      /\ \A st \in S \ D : a[step[st]] < a[st]
  <2>1. a \in [S -> Nat] /\ b \in [S -> Nat] BY <1>1
  <2>2. ASSUME NEW st \in S \ D PROVE a[step[st]] < a[st]
    <3>1. step[st] \in S /\ step[st].next = st.next + 1 /\ st.next \in Nat BY <1>2
    <3>2. a[step[st]] = Len(s) + 1 - (st.next + 1) /\ a[st] = Len(s) + 1 - st.next BY <3>1
    <3> QED BY <1>1, <3>1, <3>2
  <2> QED BY <2>1, <2>2
<1>7. X \in SUBSET S /\ Invariant(X, D, step)
  <2> SUFFICES ASSUME NEW st \in X \ D PROVE step[st] \in X
    BY DEF Invariant
  <2> DEFINE n == st.next
             old == st.out
             new == step[st].out
  <2>1. /\ step[st] \in S /\ step[st].next = n + 1 /\ n \in 1 .. Len(s) /\ old \in Seq(Range(s))
        /\ new = IF n \in keep THEN Append(old, s[n]) ELSE old
    BY <1>2
  <2>2. Collected(s, keep, n, old) OBVIOUS
  <2>3. new \in Seq(Range(s)) BY <2>1
  <2> SUFFICES Collected(s, keep, n + 1, new) BY <2>1
  <2> HIDE DEF n, old, new
  <2>4. /\ OnlyKept(s, keep, n, old) /\ AllKept(s, keep, n, old)
         /\ FirstKept(s, keep, n, old) /\ NoneDropped(s, keep, n, old)
    BY <2>2 DEF Collected
  <2>5. CASE n \notin keep
    <3>1. new = old BY <2>1, <2>5
    <3>2. OnlyKept(s, keep, n + 1, old)
      <4>1. \A i \in 1 .. Len(s) : i < n => i < n + 1 BY <1>1, <2>1
      <4> QED BY <2>4, <4>1 DEF OnlyKept
    <3>3. AllKept(s, keep, n + 1, old)
      <4>1. \A i \in keep \cap (1 .. Len(s)) : i < n + 1 => i < n BY <1>1, <2>1, <2>5
      <4> QED BY <2>4, <4>1 DEF AllKept
    <3>4. 1 \in keep => n > 1 BY <2>1, <2>5
    <3>5. n + 1 - 1 = n /\ n \in 1 .. n + 1 - 1 BY <2>1
    <3>6. FirstKept(s, keep, n + 1, old) BY <2>4, <3>4 DEF FirstKept
    <3>7. LastKept(s, keep, n + 1, old) BY <2>5, <3>5 DEF LastKept
    <3>8. NoneDropped(s, keep, n + 1, old) BY <2>5, <3>5 DEF NoneDropped
    <3> QED BY <3>1, <3>2, <3>3, <3>6, <3>7, <3>8 DEF Collected
  <2>6. CASE n \in keep
    <3>1. /\ Len(new) = Len(old) + 1 /\ Len(old) \in Nat /\ new[Len(new)] = s[n]
          /\ \A k \in 1 .. Len(old) : new[k] = old[k]
      BY <1>1, <2>1, <2>6
    <3>2. OnlyKept(s, keep, n + 1, new)
      <4> SUFFICES ASSUME NEW k \in 1 .. Len(new)
                   PROVE  \E i \in keep \cap (1 .. Len(s)) : i < n + 1 /\ new[k] = s[i]
        BY DEF OnlyKept
      <4>1. CASE k = Len(new) BY <2>1, <2>6, <3>1, <4>1
      <4>2. CASE k \in 1 .. Len(old)
        <5>1. PICK i \in keep \cap (1 .. Len(s)) : i < n /\ old[k] = s[i]
          BY <2>4, <4>2 DEF OnlyKept
        <5>2. i < n + 1 BY <1>1, <2>1, <5>1
        <5> QED BY <3>1, <4>2, <5>1, <5>2
      <4> QED BY <3>1, <4>1, <4>2
    <3>3. AllKept(s, keep, n + 1, new)
      <4> SUFFICES ASSUME NEW i \in keep \cap (1 .. Len(s)), i < n + 1
                   PROVE  \E k \in 1 .. Len(new) : new[k] = s[i]
        BY DEF AllKept
      <4>1. CASE i = n BY <3>1, <4>1
      <4>2. CASE i < n BY <2>4, <3>1, <4>2 DEF AllKept
      <4> QED BY <1>1, <2>1, <4>1, <4>2
    <3>4. FirstKept(s, keep, n + 1, new)
      <4> SUFFICES ASSUME 1 \in keep PROVE Len(new) >= 1 /\ new[1] = s[1]
        BY DEF FirstKept
      <4>1. CASE n = 1
        <5>1. CASE Len(old) = 0 BY <3>1, <4>1, <5>1
        <5>2. CASE Len(old) # 0
          <6>1. 1 \in 1 .. Len(old) BY <3>1, <5>2
          <6>2. \E i \in 1 .. Len(s) : i < 1 BY <2>4, <4>1, <6>1 DEF OnlyKept
          <6> QED BY <6>2
        <5> QED BY <5>1, <5>2
      <4>2. CASE n > 1 BY <2>4, <3>1, <4>2 DEF FirstKept
      <4> QED BY <2>1, <4>1, <4>2
    <3>5. n + 1 - 1 = n /\ Len(new) >= 1 BY <2>1, <3>1
    <3>6. LastKept(s, keep, n + 1, new)
      <4>1. new[Len(new)] = s[n + 1 - 1] BY <3>1, <3>5
      <4>2. Len(new) >= 1 /\ new[Len(new)] = s[n + 1 - 1] BY <3>5, <4>1
      <4> QED BY <2>1, <2>3, <3>1, <4>2 DEF LastKept
    <3>7. NoneDropped(s, keep, n + 1, new)
      <4> SUFFICES ASSUME \A i \in 1 .. n : i \in keep
                   PROVE  Len(new) = n /\ \A k \in 1 .. n : new[k] = s[k]
        <5>1. 1 .. n + 1 - 1 = 1 .. n BY <3>5
        <5> QED BY <2>1, <3>5, <5>1 DEF NoneDropped
      <4>1. Len(old) = n - 1 /\ \A k \in 1 .. n - 1 : old[k] = s[k] BY <2>1, <2>4 DEF NoneDropped
      <4> QED BY <2>1, <3>1, <4>1
    <3> QED BY <3>2, <3>3, <3>4, <3>6, <3>7 DEF Collected
  <2> QED BY <2>5, <2>6
<1>8. init \in X
  <2>1. init \in S BY <1>1
  <2>2. Collected(s, keep, 1, <<>>)
    BY DEF Collected, OnlyKept, AllKept, FirstKept, LastKept, NoneDropped
  <2> QED BY <2>1, <2>2
<1>9. \E t \in X \cap D : g[init] = res[t]
  <2> HIDE DEF S, D, step, res, a, b, X, init
  <2>1. \A st \in X : \E t \in X \cap D : g[st] = res[t]
    BY <1>3, <1>4, <1>5, <1>6, <1>7, LoopEnds
  <2> QED BY <1>8, <2>1
<1>10. PICK t \in X \cap D : g[init] = res[t] BY <1>9
<1>11. t.next = Len(s) + 1 /\ t.out = Picked(s, keep) /\ t.out \in Seq(Range(s))
       /\ Collected(s, keep, t.next, t.out)
  BY <1>1, <1>5, <1>10 DEF IsLoop
<1> QED BY <1>1, <1>11, SeqMonotonic

\* The same, of the result.
LEMMA PickedFacts ==
    ASSUME NEW T, NEW s \in Seq(T), NEW keep \in SUBSET (1 .. Len(s))
    PROVE  /\ Picked(s, keep) \in Seq(T)
           /\ Range(Picked(s, keep)) = {s[i] : i \in keep}
           /\ keep = 1 .. Len(s) => Picked(s, keep) = s
           /\ 1 \in keep => Len(Picked(s, keep)) >= 1 /\ Picked(s, keep)[1] = s[1]
           /\ Len(s) \in keep =>
                 /\ Len(Picked(s, keep)) >= 1
                 /\ Picked(s, keep)[Len(Picked(s, keep))] = s[Len(s)]
<1> DEFINE out == Picked(s, keep)
           n == Len(s) + 1
<1>1. out \in Seq(T) /\ Collected(s, keep, n, out) BY PickedCollects
<1>2. Len(s) \in Nat /\ n \in Nat /\ n - 1 = Len(s) /\ \A i \in 1 .. Len(s) : i < n OBVIOUS
<1> HIDE DEF out, n
<1>3. DOMAIN out = 1 .. Len(out) /\ Len(out) \in Nat BY <1>1
<1>4. Range(out) = {s[i] : i \in keep}
  <2>1. OnlyKept(s, keep, n, out) /\ AllKept(s, keep, n, out) BY <1>1 DEF Collected
  <2>2. ASSUME NEW x \in Range(out) PROVE x \in {s[i] : i \in keep}
    BY <1>3, <2>1, <2>2 DEF Range, OnlyKept
  <2>3. ASSUME NEW i \in keep PROVE s[i] \in Range(out)
    BY <1>2, <1>3, <2>1, <2>3 DEF Range, AllKept
  <2> QED BY <2>2, <2>3
<1>5. keep = 1 .. Len(s) => out = s
  <2> SUFFICES ASSUME keep = 1 .. Len(s) PROVE out = s OBVIOUS
  <2>1. Len(out) = Len(s) /\ \A k \in 1 .. Len(s) : out[k] = s[k]
    BY <1>1, <1>2 DEF Collected, NoneDropped
  <2> QED BY <1>1, <2>1, SeqEqual
<1>6. 1 \in keep => Len(out) >= 1 /\ out[1] = s[1]
  BY <1>1, <1>2 DEF Collected, FirstKept
<1>7. Len(s) \in keep => Len(out) >= 1 /\ out[Len(out)] = s[Len(s)]
  BY <1>1, <1>2 DEF Collected, LastKept
<1> QED BY <1>1, <1>4, <1>5, <1>6, <1>7 DEF out

-----------------------------------------------------------------------------
(* Submitted forms.                                                        *)

\* Every field keeps its type, and what is trimmed has no blanks around it.
LEMMA NormalizedForm ==
    ASSUME NEW f \in Forms
    PROVE  LET in == normalizeSubmission(f)
           IN  /\ in.name \in Text /\ in.short_desc \in Text /\ in.website_url \in Text
               /\ in.contact_url \in Text
               /\ in.region_slugs \in Seq(TypedSlug)
               /\ \A i \in 1 .. Len(in.region_slugs) : ~in.region_slugs[i].pad
               /\ in = [name |-> in.name, short_desc |-> in.short_desc,
                        website_url |-> in.website_url, contact_url |-> in.contact_url,
                        submitter_name |-> in.submitter_name,
                        submitter_email |-> in.submitter_email,
                        submitter_note |-> in.submitter_note, region_slugs |-> in.region_slugs]
<1> DEFINE in == normalizeSubmission(f)
           slugs == f.region_slugs
           typed == Picked(slugs, {i \in DOMAIN slugs : slugs[i].len # 0})
           trimmed == TrimmedSlugs(slugs)
<1>1. f \in [name : Text, short_desc : Text, website_url : Text, contact_url : Text,
             submitter_name : Text, submitter_email : Text, submitter_note : Text,
             region_slugs : Seq(TypedSlug)]
  BY FormsAssumption
<1>2. \A t \in Text : Trimmed(t) \in Text BY DEF Trimmed, Text
<1>3. \A t \in TypedSlug : Trimmed(t) \in TypedSlug /\ ~Trimmed(t).pad BY DEF Trimmed, TypedSlug
<1>4. typed \in Seq(TypedSlug)
  <2>1. slugs \in Seq(TypedSlug) /\ {i \in DOMAIN slugs : slugs[i].len # 0} \in SUBSET (1 .. Len(slugs))
    BY <1>1
  <2> QED BY <2>1, PickedFacts
<1>5. in = [name |-> Trimmed(f.name), short_desc |-> Trimmed(f.short_desc),
            website_url |-> Trimmed(f.website_url), contact_url |-> Trimmed(f.contact_url),
            submitter_name |-> Trimmed(f.submitter_name),
            submitter_email |-> Trimmed(f.submitter_email),
            submitter_note |-> f.submitter_note, region_slugs |-> trimmed]
  BY DEF normalizeSubmission
<1>6. trimmed = [i \in DOMAIN typed |-> Trimmed(typed[i])] BY DEF TrimmedSlugs
<1> HIDE DEF typed, trimmed
<1>7. trimmed \in Seq(TypedSlug) /\ \A i \in 1 .. Len(trimmed) : ~trimmed[i].pad
  <2>1. /\ DOMAIN typed = 1 .. Len(typed) /\ Len(typed) \in Nat
        /\ \A i \in 1 .. Len(typed) : typed[i] \in TypedSlug
    BY <1>4
  <2>2. \A i \in 1 .. Len(typed) : trimmed[i] \in TypedSlug /\ ~trimmed[i].pad BY <1>3, <1>6, <2>1
  <2>3. trimmed \in Seq(TypedSlug) /\ Len(trimmed) = Len(typed) BY <1>6, <2>1, <2>2
  <2> QED BY <2>2, <2>3
<1> HIDE DEF in, slugs
<1> QED BY <1>1, <1>2, <1>5, <1>7 DEF in

\* An injective sequence has as many values as it has elements.
LEMMA InjectiveSize ==
    ASSUME NEW T, NEW s \in Seq(T), \A i, j \in 1 .. Len(s) : s[i] = s[j] => i = j
    PROVE  IsFiniteSet(Range(s)) /\ Cardinality(Range(s)) = Len(s)
<1>1. IsFiniteSet(1 .. Len(s)) /\ Cardinality(1 .. Len(s)) = Len(s)
  <2>1. PICK n \in Nat : n = Len(s) OBVIOUS
  <2>2. IsFiniteSet(1 .. n) /\ Cardinality(1 .. n) = n BY FS_Interval
  <2> QED BY <2>1, <2>2
<1>2. s \in Bijection(1 .. Len(s), Range(s))
  BY DEF Bijection, Injection, Surjection, IsInjective, Range
<1> QED BY <1>1, <1>2, FS_Bijection DEF ExistsBijection

\* What the shape checks refuse is all the loader refuses in a single field.
LEMMA ShapeChecked ==
    ASSUME NEW f, submissionShapeErrors(f) = {}
    PROVE  /\ ~BadText(f.name, TRUE, MaxNameLen)
           /\ ~BadText(f.short_desc, TRUE, MaxShortDescLen)
           /\ Length(f.website_url) # 0 /\ ~BadURL(f.website_url, FALSE)
           /\ Length(f.contact_url) = 0 \/ ~BadURL(f.contact_url, TRUE)
           /\ ~(Len(f.region_slugs) > MaxRegionSlugs)
           /\ \A s \in Range(f.region_slugs) : ~BadText(s, TRUE, MaxRegionSlugLen)
<1>1. \A bad, field : ErrorIf(bad, field) = {} => ~bad BY DEF ErrorIf
<1> QED BY <1>1 DEF submissionShapeErrors

\* An accepted form becomes an entry whose slug and regions the loader accepts,
\* whatever the graph, and whose fields it accepts if it names a region.
LEMMA PromotedChecked ==
    ASSUME NEW entry \in Promoted
    PROVE  /\ entry.slug.words # NoWords /\ entry.slug.lower
           /\ ValidateOrgFields(entry) <=> entry.region_slugs # <<>>
           /\ \A i \in resolveOrgRegions(entry.region_slugs) : i # 0 /\ HasPage(i)
           /\ Cardinality(resolveOrgRegions(entry.region_slugs)) = Len(entry.region_slugs)
<1> PICK f \in Forms : /\ ValidateSubmission(f).errors = {}
                       /\ entry \in RenderOrgBlock(ValidateSubmission(f).stored)
  BY DEF Promoted
<1> DEFINE in == normalizeSubmission(f)
           slugs == in.region_slugs
           listed == [i \in DOMAIN slugs |-> [slugs[i] EXCEPT !.exact = TRUE]]
           found == [i \in DOMAIN slugs |-> ResolveRegionBySlug(slugs[i])]
<1>1. /\ slugs \in Seq(TypedSlug) /\ \A i \in 1 .. Len(slugs) : ~slugs[i].pad
      /\ in = [name |-> in.name, short_desc |-> in.short_desc,
               website_url |-> in.website_url, contact_url |-> in.contact_url,
               submitter_name |-> in.submitter_name, submitter_email |-> in.submitter_email,
               submitter_note |-> in.submitter_note, region_slugs |-> slugs]
  BY NormalizedForm
<1>2. submissionShapeErrors(in) = {} /\ Resolvable(slugs)
  BY DEF ValidateSubmission, canonicalRegionSlugs
<1>3. ValidateSubmission(f).stored = [in EXCEPT !.region_slugs = listed]
  BY <1>2 DEF ValidateSubmission, canonicalRegionSlugs
<1>4. /\ entry = [slug |-> DeriveSlug(in.name), name |-> in.name, short_desc |-> in.short_desc,
                  website_url |-> in.website_url, contact_url |-> in.contact_url,
                  region_slugs |-> listed]
      /\ DeriveSlug(in.name).words # NoWords
  BY <1>1, <1>3 DEF RenderOrgBlock
<1> HIDE DEF in, slugs
<1>5. DOMAIN slugs = 1 .. Len(slugs) /\ Len(slugs) \in Nat
      /\ \A i \in 1 .. Len(slugs) : slugs[i] \in TypedSlug
  BY <1>1
<1>6. /\ \A i \in 1 .. Len(slugs) :
            /\ listed[i] \in TypedSlug /\ listed[i].exact /\ ~listed[i].pad
            /\ listed[i].slug = slugs[i].slug /\ listed[i].len = slugs[i].len
      /\ listed \in Seq(TypedSlug) /\ Len(listed) = Len(slugs) /\ DOMAIN listed = 1 .. Len(slugs)
  <2>1. \A i \in 1 .. Len(slugs) :
            /\ listed[i] \in TypedSlug /\ listed[i].exact /\ ~listed[i].pad
            /\ listed[i].slug = slugs[i].slug /\ listed[i].len = slugs[i].len
    BY <1>1, <1>5 DEF TypedSlug
  <2>2. listed \in Seq(TypedSlug) /\ Len(listed) = Len(slugs) BY <1>5, <2>1
  <2> QED BY <1>5, <2>1, <2>2
<1>7. /\ 0 \notin Range(found) /\ DOMAIN found = 1 .. Len(slugs)
      /\ \A i, j \in 1 .. Len(slugs) : found[i] = found[j] => i = j
  BY <1>2, <1>5 DEF Resolvable, IsInjective
<1>8. \A i \in 1 .. Len(slugs) : /\ found[i] = IdOf(listed[i].slug)
                                 /\ found[i] # 0 /\ HasPage(found[i])
  BY <1>5, <1>6, <1>7 DEF ResolveRegionBySlug, Range
<1>9. resolveOrgRegions(listed) = Range(found)
  <2>1. resolveOrgRegions(listed) = {IdOf(listed[i].slug) : i \in 1 .. Len(slugs)}
    <3> HIDE DEF listed
    <3>1. Range(listed) = {listed[i] : i \in 1 .. Len(slugs)} BY <1>6 DEF Range
    <3> QED BY <1>6, <3>1 DEF resolveOrgRegions
  <2>2. Range(found) = {found[i] : i \in 1 .. Len(slugs)} BY <1>7 DEF Range
  <2> HIDE DEF listed, found
  <2> QED BY <1>8, <2>1, <2>2
<1> HIDE DEF listed, found
<1>10. Cardinality(Range(found)) = Len(listed)
  <2>1. found \in Seq(Range(found)) /\ Len(found) = Len(slugs)
    <3>1. found \in [1 .. Len(slugs) -> Range(found)] BY <1>7 DEF Range, found
    <3> QED BY <1>5, <3>1
  <2>2. \A i, j \in 1 .. Len(found) : found[i] = found[j] => i = j BY <1>7, <2>1
  <2>3. Cardinality(Range(found)) = Len(found) BY <2>1, <2>2, InjectiveSize
  <2> QED BY <1>6, <2>1, <2>3
<1>11. ValidateOrgFields(entry) <=> listed # <<>>
  <2>1. listed # <<>> <=> Len(listed) \in 1 .. MaxRegionSlugs
    <3>1. ~(Len(slugs) > MaxRegionSlugs) BY <1>2, ShapeChecked DEF slugs
    <3>2. listed # <<>> <=> Len(listed) # 0 BY <1>6, EmptySeq
    <3>3. PICK n \in Nat : n = Len(slugs) /\ n = Len(listed) BY <1>5, <1>6
    <3>4. ~(n > 20) BY <3>1, <3>3 DEF MaxRegionSlugs
    <3>5. n # 0 <=> n \in 1 .. 20 BY <3>4
    <3> QED BY <3>2, <3>3, <3>5 DEF MaxRegionSlugs
  <2>2. \A s \in Range(listed) : ~BadText(s, TRUE, MaxRegionSlugLen)
    <3> SUFFICES ASSUME NEW i \in 1 .. Len(slugs) PROVE ~BadText(listed[i], TRUE, MaxRegionSlugLen)
      BY <1>6 DEF Range
    <3>1. slugs[i] \in Range(slugs) BY <1>5 DEF Range
    <3>2. ~BadText(slugs[i], TRUE, MaxRegionSlugLen) BY <1>2, <3>1, ShapeChecked DEF slugs
    <3>3. Length(listed[i]) = Length(slugs[i]) BY <1>1, <1>6 DEF Length
    <3> QED BY <3>2, <3>3 DEF BadText
  <2> QED BY <1>2, <1>4, <2>1, <2>2, ShapeChecked DEF ValidateOrgFields
<1>12. \A i \in Range(found) : i # 0 /\ HasPage(i) BY <1>7, <1>8 DEF Range
<1>13. entry.slug.words # NoWords /\ entry.slug.lower BY <1>4 DEF DeriveSlug
<1>14. entry.region_slugs = listed BY <1>4
<1> QED BY <1>9, <1>10, <1>11, <1>12, <1>13, <1>14

\* A loop that compares each slug with those before it finds every repetition.
LEMMA NoneRepeated ==
    ASSUME NEW n \in Nat, NEW f, DOMAIN f = 1 .. n
    PROVE  (\A i \in 1 .. n : \A j \in 1 .. i - 1 : f[j] # f[i]) <=> IsInjective(f)
<1>1. IsInjective(f) <=> \A i, j \in 1 .. n : f[i] = f[j] => i = j BY DEF IsInjective
<1>2. ASSUME \A i \in 1 .. n : \A j \in 1 .. i - 1 : f[j] # f[i],
             NEW i \in 1 .. n, NEW j \in 1 .. n, f[i] = f[j]
      PROVE  i = j
  <2>1. ~(j < i)
    <3> SUFFICES ASSUME j < i PROVE FALSE OBVIOUS
    <3>1. j \in 1 .. i - 1 OBVIOUS
    <3> QED BY <1>2, <3>1
  <2>2. ~(i < j)
    <3> SUFFICES ASSUME i < j PROVE FALSE OBVIOUS
    <3>1. i \in 1 .. j - 1 OBVIOUS
    <3> QED BY <1>2, <3>1
  <2> QED BY <2>1, <2>2
<1>3. ASSUME \A i, j \in 1 .. n : f[i] = f[j] => i = j,
             NEW i \in 1 .. n, NEW j \in 1 .. i - 1
      PROVE  f[j] # f[i]
  <2>1. j \in 1 .. n /\ j # i OBVIOUS
  <2> QED BY <1>3, <2>1
<1> QED BY <1>1, <1>2, <1>3

\* Accepted forms make a file the loader accepts, up to regions and slugs.
LEMMA AcceptedLoads == AcceptedSubmissionLoads
<1>1. SUFFICES ASSUME NEW n \in 1 .. MaxMerged, NEW merged \in [1 .. n -> Promoted]
               PROVE  OrgsLoad(merged) <=>
                          /\ IsInjective([i \in 1 .. n |-> merged[i].slug])
                          /\ \A i \in 1 .. n : merged[i].region_slugs # <<>>
  BY PromotedChecked DEF AcceptedSubmissionLoads
<1> DEFINE f == [i \in 1 .. n |-> merged[i].slug]
<1>2. n \in Nat /\ n >= 1 /\ DOMAIN merged = 1 .. n BY FormsAssumption
<1>3. merged # <<>>
  <2>1. DOMAIN <<>> = {} /\ 1 \in 1 .. n BY <1>2
  <2> QED BY <1>2, <2>1
<1>4. ASSUME NEW i \in 1 .. n
      PROVE  /\ merged[i].slug.words # NoWords /\ merged[i].slug.lower
             /\ ValidateOrgFields(merged[i]) <=> merged[i].region_slugs # <<>>
             /\ 0 \notin resolveOrgRegions(merged[i].region_slugs)
  <2>1. merged[i] \in Promoted OBVIOUS
  <2> QED BY <2>1, PromotedChecked
<1>5. OrgsLoad(merged) <=>
          /\ \A i \in 1 .. n : \A j \in 1 .. i - 1 : merged[j].slug # merged[i].slug
          /\ \A i \in 1 .. n : merged[i].region_slugs # <<>>
  BY <1>2, <1>3, <1>4 DEF OrgsLoad, validateOrgs
<1>6. \A i \in 1 .. n : f[i] = merged[i].slug /\ \A j \in 1 .. i - 1 : f[j] = merged[j].slug
  BY <1>2
<1>7. DOMAIN f = 1 .. n OBVIOUS
<1> HIDE DEF f
<1>8. (\A i \in 1 .. n : \A j \in 1 .. i - 1 : merged[j].slug # merged[i].slug) <=> IsInjective(f)
  <2>1. (\A i \in 1 .. n : \A j \in 1 .. i - 1 : f[j] # f[i]) <=> IsInjective(f)
    BY <1>2, <1>7, NoneRepeated
  <2> QED BY <1>6, <2>1
<1> QED BY <1>5, <1>8 DEF f

-----------------------------------------------------------------------------
(* Postal codes.                                                           *)

Blanks == {Space, Tab}

\* Text without a blank at either end.
Trim(s) == Len(s) > 0 => s[1] \notin Blanks /\ s[Len(s)] \notin Blanks

\* Text that cleaning does not change.
Clean(s) ==
    /\ s \in Seq(Nat) /\ Trim(s)
    /\ \A i \in 1 .. Len(s) : s[i] # Space /\ s[i] \notin 61 .. 86

\* A nonempty set of positions has a first and a last one.
LEMMA Positions ==
    ASSUME NEW n \in Nat, NEW A \in SUBSET (1 .. n), A # {}
    PROVE  /\ Min(A) \in A /\ \A x \in A : Min(A) <= x
           /\ Max(A) \in A /\ \A x \in A : x <= Max(A)
<1>1. \E m \in A : \A x \in A : m <= x
  <2>1. A \subseteq Nat OBVIOUS
  <2> QED BY <2>1, LeastNat
<1>2. \E m \in A : \A x \in A : m >= x
  <2> DEFINE B == {n - x : x \in A}
  <2>1. B \subseteq Nat /\ B # {}
    <3>1. \A x \in A : n - x \in Nat OBVIOUS
    <3> QED BY <3>1
  <2>2. PICK b \in B : \A y \in B : b <= y
    <3> HIDE DEF B
    <3> QED BY <2>1, LeastNat
  <2>3. PICK m \in A : b = n - m BY <2>2
  <2>4. ASSUME NEW x \in A PROVE m >= x
    <3>1. n - m <= n - x BY <2>2, <2>3
    <3> QED BY <3>1
  <2> QED BY <2>4
<1>3. Min(A) \in A /\ \A x \in A : Min(A) <= x BY <1>1 DEF Min
<1>4. Max(A) \in A /\ \A x \in A : Max(A) >= x BY <1>2 DEF Max
<1> QED BY <1>3, <1>4

\* TrimSpace cuts blanks off the ends: what has none there, or keeps its length,
\* is left as it is.
LEMMA Trims ==
    ASSUME NEW s \in Seq(Nat)
    PROVE  /\ TrimSpace(s) \in Seq(Nat) /\ Trim(TrimSpace(s))
           /\ \A i \in 1 .. Len(TrimSpace(s)) : \E j \in 1 .. Len(s) : TrimSpace(s)[i] = s[j]
           /\ Len(TrimSpace(s)) <= Len(s)
           /\ Trim(s) \/ Len(TrimSpace(s)) = Len(s) => TrimSpace(s) = s
<1> DEFINE A == {i \in DOMAIN s : s[i] \notin Blanks}
<1>1. DOMAIN s = 1 .. Len(s) /\ Len(s) \in Nat /\ \A i \in 1 .. Len(s) : s[i] \in Nat OBVIOUS
<1>2. TrimSpace(s) = IF A = {} THEN <<>> ELSE SubSeq(s, Min(A), Max(A))
  BY DEF TrimSpace, Blanks
<1>3. CASE A = {}
  <2>1. TrimSpace(s) = <<>> /\ Len(<<>>) = 0 /\ <<>> \in Seq(Nat) BY <1>2, <1>3
  <2>2. Trim(s) => Len(s) = 0 BY <1>1, <1>3 DEF Trim
  <2>3. Len(s) = 0 => s = <<>> BY EmptySeq
  <2>4. Trim(<<>>) BY <2>1 DEF Trim
  <2>5. \A i \in 1 .. Len(<<>>) : \E j \in 1 .. Len(s) : <<>>[i] = s[j] BY <2>1
  <2> QED BY <1>1, <2>1, <2>2, <2>3, <2>4, <2>5
<1>4. CASE A # {}
  <2>1. A \in SUBSET (1 .. Len(s)) BY <1>1
  <2>2. PICK l \in Nat : l = Len(s) BY <1>1
  <2> DEFINE m == Min(A)
             n == Max(A)
             t == SubSeq(s, m, n)
  <2>3. m \in A /\ n \in A /\ \A x \in A : m <= x /\ x <= n
    <3> HIDE DEF A
    <3> QED BY <1>4, <2>1, <2>2, Positions
  <2> HIDE DEF m, n
  <2>4. m \in 1 .. l /\ n \in 1 .. l /\ m <= n /\ s[m] \notin Blanks /\ s[n] \notin Blanks
    BY <1>1, <2>2, <2>3
  <2>5. /\ t \in Seq(Nat) /\ Len(t) = n - m + 1
        /\ \A i \in 1 .. n - m + 1 : t[i] = s[m + i - 1]
    <3>1. \A i \in m .. n : s[i] \in Nat BY <1>1, <2>2, <2>4
    <3> QED BY <2>4, <3>1, SubSeqProperties
  <2>6. TrimSpace(s) = t BY <1>2, <1>4 DEF m, n
  <2> HIDE DEF t
  <2>7. Trim(t)
    <3>1. t[1] = s[m] /\ t[Len(t)] = s[n]
      <4>1. 1 \in 1 .. n - m + 1 /\ n - m + 1 \in 1 .. n - m + 1 BY <2>4
      <4>2. m + 1 - 1 = m /\ m + (n - m + 1) - 1 = n BY <2>4
      <4> QED BY <2>5, <4>1, <4>2
    <3> QED BY <2>4, <3>1 DEF Trim
  <2>8. m = 1 /\ n = l => t = s
    <3>1. SubSeq(s, 1, Len(s)) = s BY SubSeqFull
    <3> QED BY <2>2, <3>1 DEF t
  <2>9. Trim(s) => m = 1 /\ n = l
    <3> SUFFICES ASSUME Trim(s) PROVE m = 1 /\ n = l OBVIOUS
    <3>1. l > 0 /\ l \in 1 .. l /\ 1 \in 1 .. l BY <2>4
    <3>2. 1 \in A /\ l \in A BY <1>1, <2>2, <3>1 DEF Trim
    <3>3. m <= 1 /\ l <= n BY <2>3, <3>2
    <3> QED BY <2>4, <3>3
  <2>10. Len(t) <= l /\ (Len(t) = l => m = 1 /\ n = l) BY <2>4, <2>5
  <2>11. ASSUME NEW i \in 1 .. Len(t) PROVE \E j \in 1 .. Len(s) : t[i] = s[j]
    <3>1. i \in 1 .. n - m + 1 BY <2>5
    <3>2. m + i - 1 \in 1 .. l BY <2>4, <3>1
    <3> QED BY <2>2, <2>5, <3>1, <3>2
  <2> QED BY <2>2, <2>5, <2>6, <2>7, <2>8, <2>9, <2>10, <2>11
<1> QED BY <1>3, <1>4

\* Without their blanks, texts are changed only if they have one.
LEMMA BlanksDropped ==
    ASSUME NEW s \in Seq(Nat)
    PROVE  /\ Without(s, Space) \in Seq(Nat)
           /\ \A i \in 1 .. Len(Without(s, Space)) : Without(s, Space)[i] # Space
           /\ Trim(s) => Trim(Without(s, Space))
           /\ (\A i \in 1 .. Len(s) : s[i] # Space) => Without(s, Space) = s
<1> DEFINE keep == {i \in DOMAIN s : s[i] # Space}
           t == Picked(s, keep)
<1>1. DOMAIN s = 1 .. Len(s) /\ Len(s) \in Nat /\ keep \in SUBSET (1 .. Len(s)) OBVIOUS
<1>2. Without(s, Space) = t BY DEF Without
<1>3. /\ t \in Seq(Nat) /\ Range(t) = {s[i] : i \in keep}
      /\ keep = 1 .. Len(s) => t = s
      /\ 1 \in keep => Len(t) >= 1 /\ t[1] = s[1]
      /\ Len(s) \in keep => Len(t) >= 1 /\ t[Len(t)] = s[Len(s)]
  <2> HIDE DEF keep
  <2> QED BY <1>1, PickedFacts
<1> HIDE DEF t
<1>4. DOMAIN t = 1 .. Len(t) /\ Len(t) \in Nat BY <1>3
<1>5. \A i \in 1 .. Len(t) : t[i] # Space BY <1>3, <1>4 DEF Range
<1>6. (\A i \in 1 .. Len(s) : s[i] # Space) => t = s BY <1>1, <1>3
<1>7. Trim(s) => Trim(t)
  <2> SUFFICES ASSUME Trim(s), Len(t) > 0 PROVE t[1] \notin Blanks /\ t[Len(t)] \notin Blanks
    BY DEF Trim
  <2>1. t[1] \in Range(t) BY <1>4 DEF Range
  <2>2. PICK i \in keep : TRUE BY <1>3, <2>1
  <2>3. PICK l \in Nat : l = Len(s) BY <1>1
  <2>4. l > 0 /\ 1 \in 1 .. l /\ l \in 1 .. l BY <1>1, <2>2, <2>3
  <2>5. s[1] \notin Blanks /\ s[l] \notin Blanks BY <2>3, <2>4 DEF Trim
  <2>6. 1 \in keep /\ l \in keep BY <1>1, <2>3, <2>4, <2>5 DEF Blanks
  <2> QED BY <1>3, <2>3, <2>5, <2>6
<1> QED BY <1>2, <1>3, <1>5, <1>6, <1>7

\* Cleaning gives clean text and leaves clean text alone.
LEMMA Cleans ==
    ASSUME NEW s \in Seq(Nat)
    PROVE  /\ Clean(Cleaned(s)) /\ (Clean(s) => Cleaned(s) = s)
           /\ Cleaned(TrimSpace(s)) = Cleaned(s)
           /\ (\A i \in 1 .. Len(s) : s[i] # Space /\ s[i] \notin 61 .. 86)
                 => Cleaned(s) = TrimSpace(s)
<1> DEFINE u == TrimSpace(s)
           kept == Without(u, Space)
           out == [i \in DOMAIN kept |-> ToUpper(kept[i])]
<1>1. /\ u \in Seq(Nat) /\ Trim(u) /\ (Trim(s) => u = s)
      /\ \A i \in 1 .. Len(u) : \E j \in 1 .. Len(s) : u[i] = s[j]
  BY Trims
<1>2. TrimSpace(u) = u
  <2> HIDE DEF u
  <2> QED BY <1>1, Trims
<1>3. Cleaned(s) = out BY DEF Cleaned
<1>4. Cleaned(u) = out BY <1>2 DEF Cleaned
<1> HIDE DEF u
<1>5. /\ kept \in Seq(Nat) /\ Trim(kept) /\ \A i \in 1 .. Len(kept) : kept[i] # Space
      /\ (\A i \in 1 .. Len(u) : u[i] # Space) => kept = u
  BY <1>1, BlanksDropped
<1> HIDE DEF kept
<1>6. DOMAIN kept = 1 .. Len(kept) /\ Len(kept) \in Nat /\ \A i \in 1 .. Len(kept) : kept[i] \in Nat
  BY <1>5
<1>7. \A c \in Nat : /\ ToUpper(c) \in Nat /\ ToUpper(c) \notin 61 .. 86
                     /\ c # Space => ToUpper(c) # Space
                     /\ c \notin 61 .. 86 => ToUpper(c) = c
  BY DEF ToUpper, Space
<1>8. \A c \in Nat : c \notin Blanks => ToUpper(c) \notin Blanks
  BY DEF ToUpper, Space, Tab, Blanks
<1>9. \A i \in 1 .. Len(kept) : /\ out[i] = ToUpper(kept[i]) /\ out[i] \in Nat
                                /\ out[i] # Space /\ out[i] \notin 61 .. 86
  BY <1>5, <1>6, <1>7
<1>10. out \in Seq(Nat) /\ Len(out) = Len(kept) BY <1>6, <1>9
<1> HIDE DEF out
<1>11. Clean(out)
  <2>1. Trim(out)
    <3> SUFFICES ASSUME Len(out) > 0 PROVE out[1] \notin Blanks /\ out[Len(out)] \notin Blanks
      BY DEF Trim
    <3>1. PICK n \in Nat : n = Len(kept) /\ n = Len(out) BY <1>6, <1>10
    <3>2. n > 0 /\ 1 \in 1 .. n /\ n \in 1 .. n BY <3>1
    <3>3. kept[1] \notin Blanks /\ kept[n] \notin Blanks BY <1>5, <3>1, <3>2 DEF Trim
    <3>4. kept[1] \in Nat /\ kept[n] \in Nat /\ out[1] = ToUpper(kept[1]) /\ out[n] = ToUpper(kept[n])
      BY <1>6, <1>9, <3>1, <3>2
    <3>5. out[1] \notin Blanks /\ out[n] \notin Blanks BY <1>8, <3>3, <3>4
    <3> QED BY <3>1, <3>5
  <2> QED BY <1>9, <1>10, <2>1 DEF Clean
<1>12. ASSUME \A i \in 1 .. Len(s) : s[i] # Space /\ s[i] \notin 61 .. 86 PROVE out = u
  <2>1. \A i \in 1 .. Len(u) : u[i] # Space /\ u[i] \notin 61 .. 86 BY <1>1, <1>12
  <2>2. kept = u BY <1>5, <2>1
  <2>3. \A i \in 1 .. Len(out) : out[i] = u[i] BY <1>6, <1>7, <1>9, <1>10, <2>1, <2>2
  <2>4. Len(out) = Len(u) BY <1>10, <2>2
  <2> QED BY <1>1, <1>10, <2>3, <2>4, SeqEqual
<1>13. Clean(s) => out = s BY <1>1, <1>12 DEF Clean
<1> QED BY <1>3, <1>4, <1>11, <1>12, <1>13 DEF u

\* A prefix of clean text.
LEMMA Prefix ==
    ASSUME NEW s, Clean(s), NEW n \in Nat, n <= Len(s)
    PROVE  /\ SubSeq(s, 1, n) \in Seq(Nat) /\ Len(SubSeq(s, 1, n)) = n
           /\ \A i \in 1 .. n : /\ SubSeq(s, 1, n)[i] = s[i] /\ s[i] \in Nat
                                /\ s[i] # Space /\ s[i] \notin 61 .. 86
<1>1. s \in Seq(Nat) BY DEF Clean
<1>2. s \in Seq(Nat) /\ Len(s) \in Nat /\ \A i \in 1 .. Len(s) : s[i] \in Nat BY <1>1
<1>3. \A i \in 1 .. n : i \in 1 .. Len(s) BY <1>2
<1>4. /\ SubSeq(s, 1, n) \in Seq(Nat) /\ Len(SubSeq(s, 1, n)) = IF 1 <= n THEN n - 1 + 1 ELSE 0
      /\ \A i \in 1 .. n - 1 + 1 : SubSeq(s, 1, n)[i] = s[1 + i - 1]
  BY <1>2, <1>3, SubSeqProperties
<1> QED BY <1>2, <1>3, <1>4 DEF Clean

\* What the rows hold and what a lookup asks for: if a text normalized once or twice
\* is a valid code, the second time changed nothing; nor does a trim before.
LEMMA NormalForms ==
    ASSUME NEW c \in {"US", "CA"}, NEW t \in Seq(Nat)
    PROVE  LET one == NormalizePostalCode(c, t)
               two == NormalizePostalCode(c, one)
           IN  /\ ValidatePostalCode(c, one) \/ ValidatePostalCode(c, two) => two = one
               /\ NormalizePostalCode(c, TrimSpace(t)) = one
<1> DEFINE s == Cleaned(t)
           one == NormalizePostalCode(c, t)
           two == NormalizePostalCode(c, one)
<1>1. \A x : isDigit(x) \/ isLetter(x) => x \notin Blanks /\ x # Space /\ x \notin 61 .. 86
  <2>1. \A x \in 0 .. 36 : x \notin Blanks /\ x # Space /\ x \notin 61 .. 86
    BY DEF Blanks, Space, Tab
  <2>2. \A x : isDigit(x) \/ isLetter(x) => x \in 0 .. 36 BY DEF isDigit, isLetter
  <2> QED BY <2>1, <2>2
<1>2. Clean(s) /\ Cleaned(TrimSpace(t)) = s BY Cleans
<1>3. NormalizePostalCode(c, TrimSpace(t)) = one BY <1>2 DEF NormalizePostalCode
<1>4. s \in Seq(Nat) BY <1>2 DEF Clean
<1>5. s \in Seq(Nat) /\ Len(s) \in Nat /\ \A i \in 1 .. Len(s) : s[i] \in Nat BY <1>4
<1> HIDE DEF s
<1>6. CASE c = "US"
  <2>1. one = IF zipFromZIP4(s) THEN SubSeq(s, 1, 5) ELSE s
    BY <1>6 DEF NormalizePostalCode, s
  <2>2. two = IF zipFromZIP4(Cleaned(one)) THEN SubSeq(Cleaned(one), 1, 5) ELSE Cleaned(one)
    BY <1>6 DEF NormalizePostalCode
  <2> HIDE DEF one, two
  <2>3. CASE ~zipFromZIP4(s)
    <3>1. Cleaned(one) = s BY <1>2, <1>5, <2>1, <2>3, Cleans
    <3> QED BY <1>3, <2>1, <2>2, <2>3, <3>1 DEF one, two
  <2>4. CASE zipFromZIP4(s)
    <3>1. Len(s) >= 5 /\ \A i \in 1 .. 5 : isDigit(s[i])
      <4>1. CASE Len(s) = 9 /\ AllDigits(s) BY <1>5, <4>1 DEF AllDigits
      <4>2. CASE Len(s) = 10 /\ AllDigits(SubSeq(s, 1, 5) \o SubSeq(s, 7, 10))
        <5>1. 5 <= Len(s) /\ \A i \in 7 .. 10 : s[i] \in Nat
          <6>1. \A i \in 7 .. 10 : i \in 1 .. Len(s) BY <4>2
          <6> QED BY <1>5, <4>2, <6>1
        <5> DEFINE d == SubSeq(s, 1, 5)
                   e == SubSeq(s, 7, 10)
        <5>2. d \in Seq(Nat) /\ Len(d) = 5 /\ \A i \in 1 .. 5 : d[i] = s[i]
          <6>1. PICK n \in Nat : n = 5 OBVIOUS
          <6>2. n <= Len(s) BY <5>1, <6>1
          <6>3. SubSeq(s, 1, n) \in Seq(Nat) /\ Len(SubSeq(s, 1, n)) = n
                /\ \A i \in 1 .. n : SubSeq(s, 1, n)[i] = s[i]
            BY <1>2, <6>2, Prefix
          <6> QED BY <6>1, <6>3
        <5>3. e \in Seq(Nat) BY <5>1, SubSeqProperties
        <5> HIDE DEF d, e
        <5>4. /\ Len(d \o e) = 5 + Len(e) /\ Len(e) \in Nat /\ d \o e \in Seq(Nat)
              /\ \A i \in 1 .. 5 + Len(e) : (d \o e)[i] = IF i <= 5 THEN d[i] ELSE e[i - 5]
          <6>1. /\ d \o e \in Seq(Nat) /\ Len(d \o e) = Len(d) + Len(e)
                /\ \A i \in 1 .. Len(d) + Len(e) :
                      (d \o e)[i] = IF i <= Len(d) THEN d[i] ELSE e[i - Len(d)]
            BY <5>2, <5>3, ConcatProperties, ZenonT(30)
          <6> QED BY <5>2, <5>3, <6>1
        <5>5. ASSUME NEW i \in 1 .. 5 PROVE isDigit(s[i])
          <6>1. i \in 1 .. 5 + Len(e) BY <5>4
          <6>2. i \in DOMAIN (d \o e) /\ (d \o e)[i] = s[i] BY <5>2, <5>4, <6>1
          <6> QED BY <4>2, <6>2 DEF AllDigits, d, e
        <5> QED BY <5>1, <5>5
      <4> QED BY <2>4, <4>1, <4>2 DEF zipFromZIP4
    <3>2. one = SubSeq(s, 1, 5) BY <2>1, <2>4
    <3>3. one \in Seq(Nat) /\ Len(one) = 5 /\ \A i \in 1 .. 5 : isDigit(one[i])
      BY <1>2, <3>1, <3>2, Prefix
    <3>4. Clean(one)
      <4>1. \A i \in 1 .. 5 : one[i] \notin Blanks /\ one[i] # Space /\ one[i] \notin 61 .. 86
        BY <1>1, <3>3
      <4> QED BY <3>3, <4>1 DEF Clean, Trim
    <3>5. Cleaned(one) = one BY <3>3, <3>4, Cleans
    <3>6. ~zipFromZIP4(one) BY <3>3 DEF zipFromZIP4
    <3> QED BY <1>3, <2>2, <3>5, <3>6 DEF one, two
  <2> QED BY <2>3, <2>4
<1>7. CASE c = "CA"
  <2>1. one = IF Len(s) > 3 THEN SubSeq(s, 1, 3) ELSE s
    BY <1>7 DEF NormalizePostalCode, s
  <2>2. two = IF Len(Cleaned(one)) > 3 THEN SubSeq(Cleaned(one), 1, 3) ELSE Cleaned(one)
    BY <1>7 DEF NormalizePostalCode
  <2>3. \A code : ValidatePostalCode(c, code)
            => Len(code) = 3 /\ isLetter(code[1]) /\ isLetter(code[3])
    BY <1>7 DEF ValidatePostalCode, DigitCount
  <2> HIDE DEF one, two
  <2>4. CASE ~(Len(s) > 3)
    <3>1. Cleaned(one) = s BY <1>2, <1>5, <2>1, <2>4, Cleans
    <3> QED BY <1>3, <2>1, <2>2, <2>4, <3>1 DEF one, two
  <2>5. CASE Len(s) > 3
    <3>1. /\ one \in Seq(Nat) /\ Len(one) = 3
          /\ \A i \in 1 .. 3 : one[i] # Space /\ one[i] \notin 61 .. 86
      <4>1. 3 <= Len(s) /\ one = SubSeq(s, 1, 3) BY <1>5, <2>1, <2>5
      <4>2. PICK n \in Nat : n = 3 OBVIOUS
      <4>3. n <= Len(s) BY <4>1, <4>2
      <4>4. /\ SubSeq(s, 1, n) \in Seq(Nat) /\ Len(SubSeq(s, 1, n)) = n
            /\ \A i \in 1 .. n : SubSeq(s, 1, n)[i] = s[i] /\ s[i] # Space /\ s[i] \notin 61 .. 86
        BY <1>2, <4>3, Prefix
      <4> QED BY <4>1, <4>2, <4>4
    <3>2. Cleaned(one) = TrimSpace(one) BY <3>1, Cleans
    <3>3. TrimSpace(one) \in Seq(Nat) /\ (Trim(one) \/ Len(TrimSpace(one)) = 3 => TrimSpace(one) = one)
      BY <3>1, Trims
    <3>4. ValidatePostalCode(c, one) => Trim(one)
      BY <1>1, <2>3, <3>1 DEF Trim
    <3>5. TrimSpace(one) = one => two = one BY <2>2, <3>1, <3>2
    <3>6. ValidatePostalCode(c, two) => TrimSpace(one) = one
      <4> SUFFICES ASSUME ValidatePostalCode(c, two), ~(Len(TrimSpace(one)) = 3) PROVE FALSE
        BY <3>3
      <4>1. ~(Len(TrimSpace(one)) > 3)
        <5>1. Len(TrimSpace(one)) <= Len(one) BY <3>1, Trims, ZenonT(30)
        <5>2. Len(TrimSpace(one)) \in Nat BY <3>3
        <5> QED BY <3>1, <5>1, <5>2
      <4> QED BY <2>2, <2>3, <3>2, <4>1
    <3> QED BY <1>3, <3>3, <3>4, <3>5, <3>6 DEF one, two
  <2> QED BY <2>4, <2>5
<1> QED BY <1>6, <1>7

\* The keys of the rows: valid codes of the two countries.
LEMMA RowKeys ==
    ASSUME NEW k \in Keys
    PROVE  \E c \in {"US", "CA"} : \E code : k = <<c, code>> /\ ValidatePostalCode(c, code)
<1>1. PICK r \in Rows : /\ parsePostalRecord(r)
                        /\ k = postalKey(r.country, NormalizePostalCode(r.country, r.text))
  BY DEF Keys
<1> DEFINE code == NormalizePostalCode(r.country, r.text)
<1>2. /\ r.country \in {"US", "CA"} /\ r.text \in Seq(Nat)
      /\ ValidatePostalCode(r.country, code)
  BY <1>1, PostalAssumption DEF parsePostalRecord
<1>3. NormalizePostalCode(r.country, code) = code BY <1>2, NormalForms
<1> HIDE DEF code
<1>4. k = <<r.country, code>> BY <1>1, <1>3 DEF postalKey, code
<1> QED BY <1>2, <1>4

\* A lookup finds exactly the rows that have the normal form of its code.
LEMMA SpellingsFound == EverySpellingFound
<1> SUFFICES ASSUME NEW q \in Queries, Len(q.text) <= maxPostalCodeLen, TrimSpace(q.text) # <<>>
             PROVE  LET key == <<q.country, NormalizePostalCode(q.country, q.text)>>
                        out == lookupHandler(q)
                    IN  IF key \in Keys /\ leaf[key] # 0
                        THEN out.is = "hit" /\ out.leaf = leaf[key]
                        ELSE out.is \in {"miss", "military"}
  BY DEF EverySpellingFound
<1> DEFINE c == q.country
           one == NormalizePostalCode(c, q.text)
           two == NormalizePostalCode(c, one)
           postal == NormalizePostalCode(c, TrimSpace(q.text))
           i == ResolveLeafRegion(c, postal)
           out == lookupHandler(q)
<1>1. q.text \in Seq(Nat) BY PostalAssumption
<1>2. ~(Len(q.text) > maxPostalCodeLen)
  <2>1. PICK n \in Nat : n = Len(q.text) BY <1>1
  <2> QED BY <2>1 DEF maxPostalCodeLen
<1>3. out = IF i # 0 THEN [is |-> "hit", leaf |-> i, tier |-> Lookup(i)]
            ELSE [is |-> IF IsMilitaryPostalCode(c, postal) THEN "military" ELSE "miss",
                  leaf |-> 0, tier |-> "none"]
  BY <1>2 DEF lookupHandler
<1> HIDE DEF out, i
<1>4. (i # 0 => out.is = "hit" /\ out.leaf = i) /\ (i = 0 => out.is \in {"miss", "military"})
  BY <1>3
<1>5. i = IF <<c, NormalizePostalCode(c, postal)>> \in Keys
          THEN leaf[<<c, NormalizePostalCode(c, postal)>>] ELSE 0
  BY DEF i, ResolveLeafRegion, postalKey
<1>6. CASE c \in {"US", "CA"}
  <2>1. postal = one /\ (ValidatePostalCode(c, one) \/ ValidatePostalCode(c, two) => two = one)
    BY <1>1, <1>6, NormalForms
  <2>2. i = IF <<c, two>> \in Keys THEN leaf[<<c, two>>] ELSE 0 BY <1>5, <2>1
  <2> HIDE DEF c, one, two
  <2>3. <<c, one>> \in Keys => two = one BY <2>1, RowKeys
  <2>4. <<c, two>> \in Keys => two = one BY <2>1, RowKeys
  <2> QED BY <1>4, <2>2, <2>3, <2>4 DEF c, one, out
<1>7. CASE c \notin {"US", "CA"}
  <2>1. \A code : <<c, code>> \notin Keys BY <1>7, RowKeys
  <2>2. i = 0 BY <1>5, <2>1
  <2> QED BY <1>4, <2>1, <2>2 DEF out
<1> QED BY <1>6, <1>7

-----------------------------------------------------------------------------
(* The loader's invariant.                                                 *)

Named      == Slugs \cup {Unknown}
Tiers      == {"local", "regional", "national"}
Kinds      == {e.kind : e \in Entries}
Region     == [slug : Slugs, kind : Kinds, tier : Tiers]
FileRegion == [slug : Slugs, kind : Kinds, tier : Tiers, parents : Seq(Named), rollups : Seq(Named)]

LoadTypes ==
    /\ order \in Seq(Slugs) /\ file \in Seq(FileRegion)
    /\ regions \in Seq(Region)
    /\ rollups \in Seq(Slugs \X Named)

\* A region has its own slug, and every parent was loaded before it: the graph
\* has no cycle.
GraphInv ==
    /\ parents \in Seq(Seq(Nat)) /\ Len(parents) = Len(regions)
    /\ \A i \in Ids : \A k \in 1 .. Len(parents[i]) : parents[i][k] \in 1 .. i - 1
    /\ \A i, j \in Ids : regions[i].slug = regions[j].slug => i = j

\* The slugs kept for the last cycle check name the same edges.
EdgeInv ==
    /\ DOMAIN parentSlugs = {regions[i].slug : i \in Ids}
    /\ \A i \in Ids :
          /\ parentSlugs[regions[i].slug] \in Seq(Named)
          /\ Len(parentSlugs[regions[i].slug]) = Len(parents[i])
          /\ \A k \in 1 .. Len(parents[i]) :
                regions[parents[i][k]].slug = parentSlugs[regions[i].slug][k]

\* What hangs on the graph refers to regions that are in it.
StoreInv ==
    /\ rollupBy \in Seq(Seq(Nat)) /\ Len(rollupBy) = Len(regions)
    /\ \A i \in Ids : Range(rollupBy[i]) \subseteq Ids
    /\ \A k \in 1 .. Len(rollups) : \E i \in Ids : regions[i].slug = rollups[k][1]
    /\ leaf \in [Keys -> 0 .. Len(regions)] /\ org \subseteq Ids

\* No cycle was reported for the whole graph, and a seed that is served passed
\* the check of its leaves.
EndInv ==
    /\ failure # "cycle in graph"
    /\ phase = "ready" => Orphans = {}

LoadInv == LoadTypes /\ GraphInv /\ EdgeInv /\ StoreInv /\ EndInv

\* What the regions of a loaded graph look like.
LEMMA RegionFacts ==
    ASSUME LoadTypes
    PROVE  /\ Len(regions) \in Nat /\ DOMAIN regions = Ids /\ Ids \subseteq Nat /\ Ids \subseteq Int
           /\ \A i \in Ids : /\ regions[i] \in Region /\ regions[i].slug \in Slugs
                             /\ regions[i].slug \in Nat
<1>1. regions \in Seq(Region) BY DEF LoadTypes
<1>2. Len(regions) \in Nat /\ DOMAIN regions = Ids /\ \A i \in Ids : regions[i] \in Region
  BY <1>1 DEF Ids
<1>3. \A r \in Region : r.slug \in Slugs /\ r.slug \in Nat BY RegionAssumption DEF Region
<1> QED BY <1>2, <1>3 DEF Ids

\* IdOf is the region with a slug, or 0.
LEMMA IdOfFacts ==
    ASSUME LoadTypes, GraphInv, NEW slug
    PROVE  /\ IdOf(slug) = 0 \/ (IdOf(slug) \in Ids /\ regions[IdOf(slug)].slug = slug)
           /\ IdOf(slug) \in 0 .. Len(regions)
           /\ \A i \in Ids : regions[i].slug = slug => IdOf(slug) = i
           /\ 0 \notin Ids
<1>1. Len(regions) \in Nat /\ Ids \subseteq Int /\ 0 \notin Ids /\ Ids \subseteq 0 .. Len(regions)
  BY RegionFacts DEF Ids
<1>2. CASE \E i \in Ids : regions[i].slug = slug
  <2>1. PICK i \in Ids : regions[i].slug = slug BY <1>2
  <2>2. \A j \in Ids : regions[j].slug = slug => j = i BY <2>1 DEF GraphInv
  <2>3. \E x \in Ids : regions[x].slug = slug /\ \A j \in Ids : regions[j].slug = slug => j <= x
    <3>1. i <= i BY <1>1
    <3> QED BY <2>1, <2>2, <3>1
  <2>4. IdOf(slug) \in Ids /\ regions[IdOf(slug)].slug = slug BY <1>2, <2>3 DEF IdOf
  <2> QED BY <1>1, <2>2, <2>4
<1>3. CASE ~\E i \in Ids : regions[i].slug = slug
  <2>1. IdOf(slug) = 0 BY <1>3 DEF IdOf
  <2> QED BY <1>1, <1>3, <2>1
<1> QED BY <1>2, <1>3

\* A function on 1 .. n is a sequence of its values.
LEMMA Tabled ==
    ASSUME NEW T, NEW n \in Nat, NEW f, f = [k \in 1 .. n |-> f[k]],
           \A k \in 1 .. n : f[k] \in T
    PROVE  f \in Seq(T) /\ Len(f) = n /\ DOMAIN f = 1 .. n
  OBVIOUS

\* The elements of two sequences in a row.
LEMMA Joined ==
    ASSUME NEW T, NEW s \in Seq(T), NEW t \in Seq(T)
    PROVE  /\ s \o t \in Seq(T) /\ Len(s \o t) = Len(s) + Len(t)
           /\ \A k \in 1 .. Len(s) + Len(t) :
                 (s \o t)[k] = IF k <= Len(s) THEN s[k] ELSE t[k - Len(s)]
           /\ Range(s \o t) = Range(s) \cup Range(t)
<1>1. PICK a \in Nat, b \in Nat : a = Len(s) /\ b = Len(t) OBVIOUS
<1>2. DOMAIN s = 1 .. a /\ DOMAIN t = 1 .. b BY <1>1
<1> DEFINE u == s \o t
<1>3. u \in Seq(T) /\ Len(u) = Len(s) + Len(t) OBVIOUS
<1>4. \A k \in 1 .. Len(s) + Len(t) : u[k] = IF k <= Len(s) THEN s[k] ELSE t[k - Len(s)]
  BY ConcatProperties, ZenonT(30)
<1> HIDE DEF u
<1>5. /\ DOMAIN u = 1 .. a + b
      /\ \A k \in 1 .. a + b : u[k] = IF k <= a THEN s[k] ELSE t[k - a]
  BY <1>1, <1>3, <1>4
<1>6. Range(s) \subseteq Range(u)
  <2>1. ASSUME NEW k \in 1 .. a PROVE s[k] \in Range(u)
    <3>1. k \in 1 .. a + b /\ u[k] = s[k] BY <1>5
    <3> QED BY <1>5, <3>1 DEF Range
  <2>2. Range(s) = {s[k] : k \in 1 .. a} BY <1>2 DEF Range
  <2> QED BY <2>1, <2>2
<1>7. Range(t) \subseteq Range(u)
  <2>1. ASSUME NEW k \in 1 .. b PROVE t[k] \in Range(u)
    <3>1. k + a \in 1 .. a + b /\ ~(k + a <= a) /\ k + a - a = k OBVIOUS
    <3>2. u[k + a] = t[k] BY <1>5, <3>1
    <3> QED BY <1>5, <3>1, <3>2 DEF Range
  <2>2. Range(t) = {t[k] : k \in 1 .. b} BY <1>2 DEF Range
  <2> QED BY <2>1, <2>2
<1>8. Range(u) \subseteq Range(s) \cup Range(t)
  <2> SUFFICES ASSUME NEW k \in 1 .. a + b PROVE u[k] \in Range(s) \cup Range(t)
    BY <1>5 DEF Range
  <2>1. CASE k <= a
    <3>1. k \in 1 .. a /\ u[k] = s[k] BY <1>5, <2>1
    <3> QED BY <1>2, <3>1 DEF Range
  <2>2. CASE ~(k <= a)
    <3>1. k - a \in 1 .. b /\ u[k] = t[k - a] BY <1>5, <2>2
    <3> QED BY <1>2, <3>1 DEF Range
  <2> QED BY <2>1, <2>2
<1> QED BY <1>3, <1>4, <1>6, <1>7, <1>8 DEF u

LEMMA LoadInit == Init => LoadInv
<1> SUFFICES ASSUME Init PROVE LoadInv OBVIOUS
<1>1. Len(regions) = 0 /\ Ids = {} BY DEF Init, Ids
<1>2. LoadTypes BY RegionAssumption DEF Init, LoadTypes
<1>3. GraphInv BY <1>1 DEF Init, GraphInv
<1>4. EdgeInv BY <1>1 DEF Init, EdgeInv
<1>5. StoreInv BY <1>1 DEF Init, StoreInv
<1>6. EndInv BY DEF Init, EndInv
<1> QED BY <1>2, <1>3, <1>4, <1>5, <1>6 DEF LoadInv

\* A step that leaves the graph and what hangs on it alone.
LEMMA GraphUnchanged ==
    ASSUME LoadInv, UNCHANGED <<regions, parents, parentSlugs>>
    PROVE  GraphInv' /\ EdgeInv' /\ Ids' = Ids
  BY DEF LoadInv, GraphInv, EdgeInv, Ids

LEMMA StoreUnchanged ==
    ASSUME LoadInv, UNCHANGED <<rollups, storeVars>>
    PROVE  StoreInv'
  BY DEF LoadInv, StoreInv, storeVars, Ids

\* A failure reports anything but a cycle in the whole graph.
LEMMA FailKeeps ==
    ASSUME LoadInv, NEW why, why # "cycle in graph", Fail(why)
    PROVE  LoadInv'
<1> USE DEF Fail, loadVars, storeVars
<1>1. LoadTypes' BY DEF LoadInv, LoadTypes
<1>2. GraphInv' /\ EdgeInv' BY GraphUnchanged
<1>3. StoreInv' BY StoreUnchanged
<1>4. EndInv' BY DEF EndInv
<1> QED BY <1>1, <1>2, <1>3, <1>4 DEF LoadInv

\* So does a step that only moves on to the next stage.
LEMMA MoveOnKeeps ==
    ASSUME LoadInv, phase' # "ready", UNCHANGED <<failure, loadVars, storeVars>>
    PROVE  LoadInv'
<1> USE DEF loadVars, storeVars
<1>1. LoadTypes' BY DEF LoadInv, LoadTypes
<1>2. GraphInv' /\ EdgeInv' BY GraphUnchanged
<1>3. StoreInv' BY StoreUnchanged
<1>4. EndInv' BY DEF EndInv, LoadInv
<1> QED BY <1>1, <1>2, <1>3, <1>4 DEF LoadInv

\* A file that is read holds regions.
LEMMA ReadFileKeeps ==
    ASSUME LoadInv, NEW n \in 1 .. MaxFile, NEW entries \in [1 .. n -> Entries], ReadFile(entries)
    PROVE  LoadInv'
<1> DEFINE f == [i \in 1 .. Len(entries) |->
                    [slug |-> order[i], kind |-> entries[i].kind, tier |-> entries[i].tier,
                     parents |-> entries[i].parents, rollups |-> entries[i].rollups]]
<1>1. CASE Fail("duplicate in file") BY <1>1, FailKeeps
<1>2. CASE /\ file' = f /\ order' = SubSeq(order, Len(entries) + 1, Len(order)) /\ phase' = "file"
           /\ UNCHANGED <<failure, parentSlugs, rollups, storeVars>>
  <2>1. n \in Nat /\ entries \in Seq(Entries) /\ Len(entries) = n /\ Len(entries) \in 1 .. Len(order)
    <3>1. n \in Nat BY RegionAssumption
    <3>2. entries \in Seq(Entries) /\ Len(entries) = n BY <3>1
    <3> QED BY <3>1, <3>2 DEF ReadFile
  <2>2. order \in Seq(Slugs) /\ Len(order) \in Nat /\ \A i \in 1 .. Len(order) : order[i] \in Slugs
    BY DEF LoadInv, LoadTypes
  <2>3. order' \in Seq(Slugs)
    <3>1. \A i \in Len(entries) + 1 .. Len(order) : order[i] \in Slugs BY <2>1, <2>2
    <3>2. Len(entries) + 1 \in Int /\ Len(order) \in Int BY <2>1, <2>2
    <3>3. PICK a \in Int, b \in Int : a = Len(entries) + 1 /\ b = Len(order) BY <3>2
    <3>4. SubSeq(order, a, b) \in Seq(Slugs) BY <3>1, <3>3, SubSeqProperties
    <3> QED BY <1>2, <3>3, <3>4
  <2>4. f \in Seq(FileRegion)
    <3>1. ASSUME NEW i \in 1 .. n PROVE f[i] \in FileRegion
      <4>1. entries[i] \in Entries /\ order[i] \in Slugs BY <2>1, <2>2
      <4>2. /\ entries[i].tier \in Tiers /\ entries[i].kind \in Kinds
            /\ entries[i].parents \in Seq(Named) /\ entries[i].rollups \in Seq(Named)
        BY <4>1, RegionAssumption DEF Tiers, Kinds, Named
      <4> QED BY <2>1, <4>1, <4>2 DEF FileRegion
    <3>2. f = [i \in 1 .. n |-> f[i]] BY <2>1
    <3> HIDE DEF f
    <3> QED BY <2>1, <3>1, <3>2
  <2>5. LoadTypes' BY <1>2, <2>3, <2>4 DEF LoadInv, LoadTypes, storeVars
  <2>6. GraphInv' /\ EdgeInv' BY <1>2, GraphUnchanged DEF storeVars
  <2>7. StoreInv' BY <1>2, StoreUnchanged
  <2>8. EndInv' BY <1>2 DEF EndInv, LoadInv
  <2> QED BY <2>5, <2>6, <2>7, <2>8 DEF LoadInv
<1> QED BY <1>1, <1>2 DEF ReadFile

\* A rollup target collects regions.
LEMMA AddRollupStateKeeps ==
    ASSUME LoadInv, AddRollupState
    PROVE  LoadInv'
<1> DEFINE head == Head(rollups)
           metro == IdOf(head[1])
           state == IdOf(head[2])
<1>1. CASE Fail("rollup target") BY <1>1, FailKeeps
<1>2. CASE /\ ~(state = 0 \/ ~IsRollupTargetKind(regions[state].kind))
           /\ rollupBy' = [rollupBy EXCEPT ![state] =
                              IF metro \in Range(@) THEN @ ELSE Append(@, metro)]
           /\ rollups' = Tail(rollups)
           /\ UNCHANGED <<phase, failure, order, file, parentSlugs, regions, parents, leaf, org>>
  <2>1. /\ rollups # <<>> /\ rollups \in Seq(Slugs \X Named) /\ Len(regions) \in Nat
        /\ LoadTypes /\ GraphInv /\ StoreInv
    BY RegionFacts DEF LoadInv, LoadTypes, AddRollupState
  <2>2. /\ Len(rollups) >= 1 /\ Len(rollups) \in Nat /\ head = rollups[1]
        /\ rollups' \in Seq(Slugs \X Named) /\ Len(rollups') = Len(rollups) - 1
        /\ \A k \in 1 .. Len(rollups') : rollups'[k] = rollups[k + 1]
    BY <1>2, <2>1
  <2>3. metro \in Ids
    <3>1. \E i \in Ids : regions[i].slug = head[1] BY <2>1, <2>2 DEF StoreInv
    <3> QED BY <2>1, <3>1, IdOfFacts
  <2>4. state \in Ids BY <1>2, <2>1, IdOfFacts
  <2> HIDE DEF metro, state, head
  <2> DEFINE old == rollupBy[state]
             new == IF metro \in Range(old) THEN old ELSE Append(old, metro)
  <2>5. /\ rollupBy \in Seq(Seq(Nat)) /\ Len(rollupBy) = Len(regions) /\ DOMAIN rollupBy = Ids
        /\ old \in Seq(Nat) /\ Range(old) \subseteq Ids /\ metro \in Nat
    BY <2>1, <2>3, <2>4, RegionFacts DEF StoreInv, Ids
  <2>6. new \in Seq(Nat) /\ Range(new) \subseteq Ids
    <3>1. CASE metro \in Range(old) BY <2>5, <3>1
    <3>2. CASE metro \notin Range(old)
      <4>1. Append(old, metro) \in Seq(Nat) BY <2>5
      <4>2. \A k \in DOMAIN Append(old, metro) : Append(old, metro)[k] \in Ids
        <5>1. DOMAIN old = 1 .. Len(old) /\ Len(old) \in Nat BY <2>5
        <5>2. \A k \in 1 .. Len(old) : old[k] \in Ids BY <2>5, <5>1 DEF Range
        <5>3. DOMAIN Append(old, metro) = 1 .. Len(old) + 1 BY <2>5
        <5>4. \A k \in 1 .. Len(old) + 1 :
                  Append(old, metro)[k] = IF k = Len(old) + 1 THEN metro ELSE old[k]
          BY <2>5
        <5>5. \A k \in 1 .. Len(old) + 1 : k = Len(old) + 1 \/ k \in 1 .. Len(old) BY <5>1
        <5> QED BY <2>3, <5>2, <5>3, <5>4, <5>5
      <4> QED BY <3>2, <4>1, <4>2 DEF Range
    <3> QED BY <3>1, <3>2
  <2>7. rollupBy' = [rollupBy EXCEPT ![state] = new] BY <1>2
  <2> HIDE DEF new
  <2>8. /\ rollupBy' \in Seq(Seq(Nat)) /\ Len(rollupBy') = Len(regions)
        /\ \A i \in Ids : rollupBy'[i] = IF i = state THEN new ELSE rollupBy[i]
    BY <2>4, <2>5, <2>6, <2>7
  <2>9. StoreInv'
    <3>1. \A i \in Ids : Range(rollupBy'[i]) \subseteq Ids BY <2>1, <2>6, <2>8 DEF StoreInv
    <3>2. \A k \in 1 .. Len(rollups') : \E i \in Ids : regions[i].slug = rollups'[k][1]
      <4> SUFFICES ASSUME NEW k \in 1 .. Len(rollups')
                   PROVE  \E i \in Ids : regions[i].slug = rollups'[k][1]
        OBVIOUS
      <4>1. k + 1 \in 1 .. Len(rollups) /\ rollups'[k] = rollups[k + 1] BY <2>2
      <4> QED BY <2>1, <4>1 DEF StoreInv
    <3>3. Ids' = Ids /\ regions' = regions /\ leaf' = leaf /\ org' = org BY <1>2 DEF Ids
    <3> QED BY <2>1, <2>8, <3>1, <3>2, <3>3 DEF StoreInv
  <2>10. LoadTypes' BY <1>2, <2>2 DEF LoadInv, LoadTypes
  <2>11. GraphInv' /\ EdgeInv' BY <1>2, GraphUnchanged
  <2>12. EndInv'
    <3>1. phase = "rollups" BY DEF AddRollupState
    <3> QED BY <1>2, <3>1 DEF EndInv, LoadInv
  <2> QED BY <2>9, <2>10, <2>11, <2>12 DEF LoadInv
<1> QED BY <1>1, <1>2 DEF AddRollupState

\* A postal code is mapped to a region of the graph.
LEMMA AddPostalCodeKeeps ==
    ASSUME LoadInv, NEW row \in Rows, NEW slug, AddPostalCode(row, slug)
    PROVE  LoadInv'
<1> DEFINE key == postalKey(row.country, NormalizePostalCode(row.country, row.text))
<1>1. CASE Fail("postal row") \/ Fail("postal slug") \/ Fail("postal conflict")
  BY <1>1, FailKeeps
<1>2. CASE /\ parsePostalRecord(row)
           /\ leaf' = [leaf EXCEPT ![key] = IdOf(slug)]
           /\ UNCHANGED <<phase, failure, loadVars, regions, parents, rollupBy, org>>
  <2>1. LoadTypes' BY <1>2 DEF LoadInv, LoadTypes, loadVars
  <2>2. GraphInv' /\ EdgeInv' BY <1>2, GraphUnchanged DEF loadVars
  <2>3. IdOf(slug) \in 0 .. Len(regions) BY IdOfFacts DEF LoadInv
  <2>4. leaf' \in [Keys -> 0 .. Len(regions)] BY <1>2, <2>3 DEF LoadInv, StoreInv
  <2>5. StoreInv' BY <1>2, <2>4 DEF LoadInv, StoreInv, Ids, loadVars
  <2>6. EndInv' BY <1>2 DEF EndInv, LoadInv, AddPostalCode
  <2> QED BY <2>1, <2>2, <2>5, <2>6 DEF LoadInv
<1> QED BY <1>1, <1>2 DEF AddPostalCode

\* An org is filed under regions of the graph.
LEMMA AddOrgKeeps ==
    ASSUME LoadInv, NEW slugs, AddOrg(slugs)
    PROVE  LoadInv'
<1>1. CASE Fail("org slug") BY <1>1, FailKeeps
<1>2. CASE /\ ~\E s \in Range(slugs) : IdOf(s) = 0
           /\ org' = {IdOf(s) : s \in Range(slugs)} /\ phase' = "leaves"
           /\ UNCHANGED <<failure, loadVars, regions, parents, rollupBy, leaf>>
  <2>1. LoadTypes' BY <1>2 DEF LoadInv, LoadTypes, loadVars
  <2>2. GraphInv' /\ EdgeInv' BY <1>2, GraphUnchanged DEF loadVars
  <2>3. \A s \in Range(slugs) : IdOf(s) \in Ids BY <1>2, IdOfFacts DEF LoadInv
  <2>4. org' \subseteq Ids BY <1>2, <2>3
  <2>5. StoreInv' BY <1>2, <2>4 DEF LoadInv, StoreInv, Ids, loadVars
  <2>6. EndInv' BY <1>2 DEF EndInv, LoadInv
  <2> QED BY <2>1, <2>2, <2>5, <2>6 DEF LoadInv
<1> QED BY <1>1, <1>2 DEF AddOrg

\* A region joins the graph after its parents.
LEMMA AddRegionKeeps ==
    ASSUME LoadInv, phase = "regions", file # <<>>, IdOf(Head(file).slug) = 0,
           \A p \in Range(Head(file).parents) : IdOf(p) # 0, AddRegion(Head(file))
    PROVE  LoadInv'
<1> DEFINE r == Head(file)
           reg == [slug |-> r.slug, kind |-> r.kind, tier |-> r.tier]
           up == [k \in 1 .. Len(r.parents) |-> IdOf(r.parents[k])]
           rolled == [k \in 1 .. Len(r.rollups) |-> <<r.slug, r.rollups[k]>>]
<1>1. LoadTypes /\ GraphInv /\ EdgeInv /\ StoreInv /\ EndInv BY DEF LoadInv
<1>2. file \in Seq(FileRegion) /\ r \in FileRegion /\ file' \in Seq(FileRegion)
  BY <1>1 DEF LoadTypes, AddRegion
<1>3. /\ r.slug \in Slugs /\ reg \in Region /\ r.parents \in Seq(Named) /\ r.rollups \in Seq(Named)
  BY <1>2 DEF FileRegion, Region
<1>4. PICK n \in Nat : n = Len(regions) BY <1>1, RegionFacts
<1>5. /\ regions' = Append(regions, reg) /\ parents' = Append(parents, up)
      /\ parentSlugs' = [s \in DOMAIN parentSlugs \cup {r.slug} |->
                            IF s = r.slug THEN r.parents ELSE parentSlugs[s]]
      /\ rollupBy' = Append(rollupBy, <<>>) /\ rollups' = rollups \o rolled
      /\ UNCHANGED <<phase, failure, order, leaf, org>>
  BY DEF AddRegion
<1> HIDE DEF r, reg
<1>6. /\ regions \in Seq(Region) /\ regions' \in Seq(Region) /\ Len(regions') = n + 1
      /\ regions'[n + 1] = reg /\ \A i \in 1 .. n : regions'[i] = regions[i]
      /\ Ids = 1 .. n /\ Ids' = 1 .. n + 1
  <2>1. regions \in Seq(Region) BY <1>1 DEF LoadTypes
  <2>2. /\ regions' \in Seq(Region) /\ Len(regions') = n + 1
        /\ regions'[n + 1] = reg /\ \A i \in 1 .. n : regions'[i] = regions[i]
    BY <1>3, <1>4, <1>5, <2>1
  <2> QED BY <1>4, <2>1, <2>2 DEF Ids
<1>7. \A i \in 1 .. n + 1 : i = n + 1 \/ i \in 1 .. n BY <1>4
<1>8. \A i \in 1 .. n : regions[i].slug # r.slug
  <2>1. \A i \in Ids : regions[i].slug = r.slug => IdOf(r.slug) = i BY <1>1, IdOfFacts
  <2>2. IdOf(r.slug) = 0 BY DEF r
  <2> QED BY <1>6, <2>1, <2>2
<1>9. \A k \in 1 .. Len(r.parents) : /\ up[k] \in 1 .. n /\ up[k] = IdOf(r.parents[k])
                                     /\ regions[up[k]].slug = r.parents[k]
  <2> SUFFICES ASSUME NEW k \in 1 .. Len(r.parents)
               PROVE  up[k] \in Ids /\ regions[up[k]].slug = r.parents[k]
    BY <1>6
  <2>1. r.parents[k] \in Range(r.parents) BY <1>3 DEF Range
  <2>2. IdOf(r.parents[k]) # 0 BY <2>1 DEF r
  <2> QED BY <1>1, <2>2, IdOfFacts
<1>10. up \in Seq(Nat) /\ Len(up) = Len(r.parents) /\ Len(r.parents) \in Nat
  <2>1. Len(r.parents) \in Nat BY <1>3
  <2>2. \A k \in 1 .. Len(r.parents) : up[k] \in Nat
    <3>1. 1 .. n \subseteq Nat BY <1>4
    <3> QED BY <1>9, <3>1
  <2>3. up = [k \in 1 .. Len(r.parents) |-> up[k]] OBVIOUS
  <2> HIDE DEF up
  <2> QED BY <2>1, <2>2, <2>3, Tabled, ZenonT(30)
<1> HIDE DEF up
<1>11. /\ parents \in Seq(Seq(Nat)) /\ Len(parents) = n
       /\ parents' \in Seq(Seq(Nat)) /\ Len(parents') = n + 1
       /\ parents'[n + 1] = up /\ \A i \in 1 .. n : parents'[i] = parents[i]
  <2>1. parents \in Seq(Seq(Nat)) /\ Len(parents) = n BY <1>1, <1>4 DEF GraphInv
  <2> QED BY <1>4, <1>5, <1>10, <2>1
<1>12. rolled \in Seq(Slugs \X Named) /\ Len(rolled) = Len(r.rollups) /\ Len(r.rollups) \in Nat
  <2>1. Len(r.rollups) \in Nat /\ \A k \in 1 .. Len(r.rollups) : r.rollups[k] \in Named BY <1>3
  <2>2. \A k \in 1 .. Len(r.rollups) : rolled[k] \in Slugs \X Named BY <1>3, <2>1
  <2>3. rolled = [k \in 1 .. Len(r.rollups) |-> rolled[k]] OBVIOUS
  <2> HIDE DEF rolled
  <2> DEFINE T == Slugs \X Named
             m == Len(r.rollups)
  <2>4. m \in Nat /\ (\A k \in 1 .. m : rolled[k] \in T) /\ rolled = [k \in 1 .. m |-> rolled[k]]
    BY <2>1, <2>2, <2>3
  <2> HIDE DEF T, m
  <2>5. rolled \in Seq(T) /\ Len(rolled) = m BY <2>4, Tabled
  <2> QED BY <2>4, <2>5 DEF T, m
<1>13. LoadTypes'
  <2>1. rollups \in Seq(Slugs \X Named) BY <1>1 DEF LoadTypes
  <2> HIDE DEF rolled
  <2>2. rollups' \in Seq(Slugs \X Named) BY <1>5, <1>12, <2>1
  <2> QED BY <1>1, <1>2, <1>5, <1>6, <2>2 DEF LoadTypes
<1>14. GraphInv'
  <2>1. \A i \in 1 .. n + 1 : \A k \in 1 .. Len(parents'[i]) : parents'[i][k] \in 1 .. i - 1
    <3> SUFFICES ASSUME NEW i \in 1 .. n + 1, NEW k \in 1 .. Len(parents'[i])
                 PROVE  parents'[i][k] \in 1 .. i - 1
      OBVIOUS
    <3>1. CASE i = n + 1
      <4>1. up[k] \in 1 .. n BY <1>9, <1>10, <1>11, <3>1
      <4>2. i - 1 = n BY <3>1
      <4> QED BY <1>11, <3>1, <4>1, <4>2
    <3>2. CASE i \in 1 .. n BY <1>1, <1>6, <1>11, <3>2 DEF GraphInv
    <3> QED BY <1>7, <3>1, <3>2
  <2>2. \A i, j \in 1 .. n + 1 : regions'[i].slug = regions'[j].slug => i = j
    <3>1. reg.slug = r.slug BY DEF reg
    <3>2. \A i, j \in 1 .. n : regions[i].slug = regions[j].slug => i = j
      BY <1>1, <1>6 DEF GraphInv
    <3>3. regions'[n + 1].slug = r.slug /\ \A i \in 1 .. n : regions'[i].slug = regions[i].slug
      BY <1>6, <3>1
    <3> SUFFICES ASSUME NEW i \in 1 .. n + 1, NEW j \in 1 .. n + 1,
                        regions'[i].slug = regions'[j].slug
                 PROVE  i = j
      OBVIOUS
    <3>4. CASE i \in 1 .. n /\ j \in 1 .. n BY <3>2, <3>3, <3>4
    <3>5. CASE i = n + 1 /\ j \in 1 .. n BY <1>8, <3>3, <3>5
    <3>6. CASE i \in 1 .. n /\ j = n + 1 BY <1>8, <3>3, <3>6
    <3> QED BY <1>7, <3>4, <3>5, <3>6
  <2> QED BY <1>6, <1>11, <2>1, <2>2 DEF GraphInv
<1>15. EdgeInv'
  <2>1. /\ DOMAIN parentSlugs' = {r.slug} \cup DOMAIN parentSlugs
        /\ parentSlugs'[r.slug] = r.parents
        /\ \A s \in DOMAIN parentSlugs \ {r.slug} : parentSlugs'[s] = parentSlugs[s]
    BY <1>5
  <2>2. reg.slug = r.slug BY DEF reg
  <2>3. DOMAIN parentSlugs = {regions[i].slug : i \in 1 .. n} BY <1>1, <1>6 DEF EdgeInv
  <2>4. DOMAIN parentSlugs' = {regions'[i].slug : i \in 1 .. n + 1}
    <3>1. {regions'[i].slug : i \in 1 .. n + 1} = {r.slug} \cup {regions[i].slug : i \in 1 .. n}
      <4>1. \A i \in 1 .. n : i \in 1 .. n + 1 BY <1>4
      <4>2. n + 1 \in 1 .. n + 1 BY <1>4
      <4> QED BY <1>6, <1>7, <2>2, <4>1, <4>2
    <3> QED BY <2>1, <2>3, <3>1
  <2>5. ASSUME NEW i \in 1 .. n + 1
        PROVE  /\ parentSlugs'[regions'[i].slug] \in Seq(Named)
               /\ Len(parentSlugs'[regions'[i].slug]) = Len(parents'[i])
               /\ \A k \in 1 .. Len(parents'[i]) :
                     regions'[parents'[i][k]].slug = parentSlugs'[regions'[i].slug][k]
    <3>1. CASE i = n + 1
      <4>1. regions'[i].slug = r.slug /\ parents'[i] = up BY <1>6, <1>11, <2>2, <3>1
      <4>2. \A k \in 1 .. Len(up) : regions'[up[k]].slug = r.parents[k] BY <1>6, <1>9, <1>10
      <4> QED BY <1>3, <1>10, <2>1, <4>1, <4>2
    <3>2. CASE i \in 1 .. n
      <4>1. regions'[i] = regions[i] /\ parents'[i] = parents[i] BY <1>6, <1>11, <3>2
      <4>2. regions[i].slug \in DOMAIN parentSlugs \ {r.slug} BY <1>8, <2>3, <3>2
      <4>3. parentSlugs'[regions[i].slug] = parentSlugs[regions[i].slug] BY <2>1, <4>2
      <4>4. \A k \in 1 .. Len(parents[i]) : regions'[parents[i][k]] = regions[parents[i][k]]
        <5> SUFFICES ASSUME NEW k \in 1 .. Len(parents[i]) PROVE parents[i][k] \in 1 .. n
          BY <1>6
        <5>1. parents[i][k] \in 1 .. i - 1 BY <1>1, <1>6, <3>2 DEF GraphInv
        <5> QED BY <3>2, <5>1
      <4>5. /\ parentSlugs[regions[i].slug] \in Seq(Named)
            /\ Len(parentSlugs[regions[i].slug]) = Len(parents[i])
            /\ \A k \in 1 .. Len(parents[i]) :
                  regions[parents[i][k]].slug = parentSlugs[regions[i].slug][k]
        BY <1>1, <1>6, <3>2 DEF EdgeInv
      <4> QED BY <4>1, <4>3, <4>4, <4>5
    <3> QED BY <1>7, <3>1, <3>2
  <2> QED BY <1>6, <2>4, <2>5 DEF EdgeInv
<1>16. StoreInv'
  <2>1. rollupBy \in Seq(Seq(Nat)) /\ Len(rollupBy) = n BY <1>1, <1>4 DEF StoreInv
  <2>2. /\ rollupBy' \in Seq(Seq(Nat)) /\ Len(rollupBy') = n + 1
        /\ rollupBy'[n + 1] = <<>> /\ \A i \in 1 .. n : rollupBy'[i] = rollupBy[i]
    <3>1. <<>> \in Seq(Nat) OBVIOUS
    <3> QED BY <1>4, <1>5, <2>1, <3>1
  <2>3. \A i \in 1 .. n + 1 : Range(rollupBy'[i]) \subseteq 1 .. n + 1
    <3> SUFFICES ASSUME NEW i \in 1 .. n + 1 PROVE Range(rollupBy'[i]) \subseteq 1 .. n + 1
      OBVIOUS
    <3>1. CASE i = n + 1
      <4>1. Range(<<>>) = {} BY DEF Range
      <4> QED BY <2>2, <3>1, <4>1
    <3>2. CASE i \in 1 .. n
      <4>1. Range(rollupBy[i]) \subseteq 1 .. n BY <1>1, <1>6, <3>2 DEF StoreInv
      <4>2. 1 .. n \subseteq 1 .. n + 1 BY <1>4
      <4> QED BY <2>2, <3>2, <4>1, <4>2
    <3> QED BY <1>7, <3>1, <3>2
  <2>4. \A k \in 1 .. Len(rollups') : \E i \in 1 .. n + 1 : regions'[i].slug = rollups'[k][1]
    <3>1. /\ rollups \in Seq(Slugs \X Named) /\ Len(rollups) \in Nat /\ Len(r.rollups) \in Nat
      BY <1>1, <1>3 DEF LoadTypes
    <3>2. rolled \in Seq(Slugs \X Named) /\ Len(rolled) = Len(r.rollups) BY <1>12
    <3>3. \A k \in 1 .. Len(rolled) : rolled[k][1] = r.slug BY <1>12
    <3> HIDE DEF rolled
    <3> DEFINE T == Slugs \X Named
    <3>4. rollups \in Seq(T) /\ rolled \in Seq(T) /\ rollups' = rollups \o rolled
      BY <1>5, <3>1, <3>2
    <3> HIDE DEF T
    <3> DEFINE u == rollups \o rolled
    <3>5. /\ Len(u) = Len(rollups) + Len(rolled)
          /\ \A k \in 1 .. Len(rollups) + Len(rolled) :
                u[k] = IF k <= Len(rollups) THEN rollups[k] ELSE rolled[k - Len(rollups)]
      BY <3>4, Joined, ZenonT(30)
    <3>6. rollups' = u BY <3>4
    <3> HIDE DEF u
    <3>7. /\ Len(rollups') = Len(rollups) + Len(rolled)
          /\ \A k \in 1 .. Len(rollups) + Len(rolled) :
                rollups'[k] = IF k <= Len(rollups) THEN rollups[k] ELSE rolled[k - Len(rollups)]
      BY <3>5, <3>6
    <3> SUFFICES ASSUME NEW k \in 1 .. Len(rollups')
                 PROVE  \E i \in 1 .. n + 1 : regions'[i].slug = rollups'[k][1]
      OBVIOUS
    <3>8. CASE k <= Len(rollups)
      <4>1. k \in 1 .. Len(rollups) /\ rollups'[k] = rollups[k] BY <3>1, <3>2, <3>7, <3>8
      <4>2. PICK i \in 1 .. n : regions[i].slug = rollups[k][1] BY <1>1, <1>6, <4>1 DEF StoreInv
      <4>3. i \in 1 .. n + 1 BY <4>2
      <4> QED BY <1>6, <4>1, <4>2, <4>3
    <3>9. CASE ~(k <= Len(rollups))
      <4>1. k - Len(rollups) \in 1 .. Len(rolled) /\ rollups'[k] = rolled[k - Len(rollups)]
        BY <3>1, <3>2, <3>7, <3>9
      <4>2. rollups'[k][1] = r.slug BY <3>3, <4>1
      <4>3. n + 1 \in 1 .. n + 1 /\ regions'[n + 1].slug = r.slug BY <1>4, <1>6 DEF reg
      <4> QED BY <4>2, <4>3
    <3> QED BY <3>8, <3>9
  <2>5. leaf' \in [Keys -> 0 .. n + 1] /\ org' \subseteq 1 .. n + 1
    <3>1. leaf \in [Keys -> 0 .. n] /\ org \subseteq 1 .. n BY <1>1, <1>4, <1>6 DEF StoreInv
    <3>2. 0 .. n \subseteq 0 .. n + 1 /\ 1 .. n \subseteq 1 .. n + 1 BY <1>4
    <3> QED BY <1>5, <3>1, <3>2
  <2> QED BY <1>6, <2>2, <2>3, <2>4, <2>5 DEF StoreInv
<1>17. EndInv' BY <1>1, <1>5 DEF EndInv
<1> QED BY <1>13, <1>14, <1>15, <1>16, <1>17 DEF LoadInv

-----------------------------------------------------------------------------
(* The cycle check.                                                        *)

Items(keep) == [slug : keep, leave : BOOLEAN]

\* The stack loses its first item.
Popped(st, new) ==
    /\ Len(new.todo) = Len(st.todo) - 1
    /\ \A m \in 1 .. Len(new.todo) : new.todo[m] = st.todo[m + 1]

\* The walk leaves a slug, passes one it has left before, finds one it is in, or
\* enters one.
Left(st, new) ==
    /\ st.todo[1].leave /\ Popped(st, new) /\ ~new.found
    /\ new.gray = st.gray \ {st.todo[1].slug} /\ new.black = st.black \cup {st.todo[1].slug}
Passed(st, new) ==
    /\ ~st.todo[1].leave /\ st.todo[1].slug \in st.black /\ Popped(st, new) /\ ~new.found
    /\ new.gray = st.gray /\ new.black = st.black
Met(st, new) ==
    /\ ~st.todo[1].leave /\ st.todo[1].slug \in st.gray
    /\ new.todo = st.todo /\ new.gray = st.gray /\ new.black = st.black /\ new.found
Opened(up, keep, st, new) ==
    LET s == st.todo[1].slug
    IN  /\ ~st.todo[1].leave /\ s \notin st.black \cup st.gray /\ ~new.found
        /\ new.gray = st.gray \cup {s} /\ new.black = st.black
        /\ \E c \in Nat :
              /\ Len(new.todo) = c + Len(st.todo)
              /\ \A m \in 1 .. c : ~new.todo[m].leave /\ new.todo[m].slug \in Range(up[s])
              /\ \A p \in Range(up[s]) \cap keep : \E m \in 1 .. c : new.todo[m].slug = p
              /\ new.todo[c + 1] = Leave(s)
              /\ \A m \in c + 2 .. c + Len(st.todo) : new.todo[m] = st.todo[m - c]

\* The parents the walk follows.
LEMMA KeptParentsFacts ==
    ASSUME NEW T, NEW up, NEW keep, NEW s, up[s] \in Seq(T)
    PROVE  /\ KeptParents(up, keep, s) \in Seq(keep)
           /\ Range(KeptParents(up, keep, s)) = Range(up[s]) \cap keep
<1> DEFINE q == up[s]
           pos == {i \in DOMAIN q : q[i] \in keep}
           out == KeptParents(up, keep, s)
<1>1. q \in Seq(T) /\ DOMAIN q = 1 .. Len(q) /\ pos \in SUBSET (1 .. Len(q)) OBVIOUS
<1>2. out = Picked(q, pos) BY DEF KeptParents
<1> HIDE DEF q, pos, out
<1>3. out \in Seq(T) /\ Range(out) = {q[i] : i \in pos} BY <1>1, <1>2, PickedFacts
<1>4. {q[i] : i \in pos} = Range(q) \cap keep BY <1>1 DEF pos, Range
<1>5. out \in Seq(keep)
  <2>1. Len(out) \in Nat /\ out = [i \in 1 .. Len(out) |-> out[i]] /\ DOMAIN out = 1 .. Len(out)
    BY <1>3
  <2>2. \A i \in 1 .. Len(out) : out[i] \in keep BY <1>3, <1>4, <2>1 DEF Range
  <2> QED BY <2>1, <2>2, Tabled
<1> QED BY <1>3, <1>4, <1>5 DEF out, q

\* The items that the walk pushes when it enters a slug.
LEMMA EnteredFacts ==
    ASSUME NEW keep, NEW q \in Seq(keep)
    PROVE  /\ Entered(q) \in Seq(Items(keep)) /\ Len(Entered(q)) = Len(q)
           /\ \A i \in 1 .. Len(q) : Entered(q)[i].slug = q[i] /\ ~Entered(q)[i].leave
<1>1. PICK n \in Nat : n = Len(q) OBVIOUS
<1>2. \A i \in 1 .. n : /\ Entered(q)[i].slug = q[i] /\ ~Entered(q)[i].leave
                        /\ Entered(q)[i] \in Items(keep)
  BY <1>1 DEF Entered, Enter, Items
<1>3. Entered(q) = [i \in 1 .. n |-> Entered(q)[i]] BY <1>1 DEF Entered
<1>4. Entered(q) \in Seq(Items(keep)) /\ Len(Entered(q)) = n BY <1>2, <1>3, Tabled
<1> QED BY <1>1, <1>2, <1>4

\* One step of the walk is one of the four.
LEMMA DfsSteps ==
    ASSUME NEW T, NEW up, NEW keep, \A s \in keep : up[s] \in Seq(T),
           NEW st \in dfsStates(keep), ~st.found, st.todo # <<>>
    PROVE  LET new == dfsStep(up, keep, st)
           IN  /\ new \in dfsStates(keep)
               /\ \/ Left(st, new) \/ Passed(st, new) \/ Met(st, new)
                  \/ Opened(up, keep, st, new)
<1> DEFINE new == dfsStep(up, keep, st)
           todo == st.todo
           s == Head(todo).slug
           rest == Tail(todo)
           kept == Entered(KeptParents(up, keep, s))
<1>1. /\ todo \in Seq(Items(keep)) /\ st.gray \in SUBSET keep /\ st.black \in SUBSET keep
      /\ st = [todo |-> todo, gray |-> st.gray, black |-> st.black, found |-> FALSE]
  BY DEF dfsStates, Items
<1>2. PICK n \in Nat : n = Len(todo) BY <1>1
<1>3. /\ n >= 1 /\ Head(todo) = todo[1] /\ rest \in Seq(Items(keep)) /\ Len(rest) = n - 1
      /\ \A m \in 1 .. n - 1 : rest[m] = todo[m + 1]
  <2>1. todo # <<>> OBVIOUS
  <2> HIDE DEF todo
  <2> QED BY <1>1, <1>2, <2>1
<1>4. todo[1] \in Items(keep) /\ s = todo[1].slug /\ s \in keep /\ todo[1].leave \in BOOLEAN
  <2>1. todo[1] \in Items(keep) BY <1>1, <1>2, <1>3
  <2> QED BY <1>3, <2>1 DEF Items
<1>5. new = IF todo[1].leave
            THEN [st EXCEPT !.todo = rest, !.gray = @ \ {s}, !.black = @ \cup {s}]
            ELSE IF s \in st.black THEN [st EXCEPT !.todo = rest]
            ELSE IF s \in st.gray THEN [st EXCEPT !.found = TRUE]
            ELSE [st EXCEPT !.todo = kept \o <<Leave(s)>> \o rest, !.gray = @ \cup {s}]
  BY <1>3 DEF dfsStep
<1>6. st \in [todo : Seq(Items(keep)), gray : SUBSET keep, black : SUBSET keep, found : BOOLEAN]
  BY DEF dfsStates, Items
<1> HIDE DEF new, todo, s, rest, kept
<1>7. CASE todo[1].leave
  <2>1. new = [st EXCEPT !.todo = rest, !.gray = @ \ {s}, !.black = @ \cup {s}] BY <1>5, <1>7
  <2>2. /\ new.todo = rest /\ new.gray = st.gray \ {s} /\ new.black = st.black \cup {s}
        /\ ~new.found
    BY <1>6, <2>1
  <2>3. new \in dfsStates(keep) BY <1>3, <1>4, <1>6, <2>1 DEF dfsStates, Items
  <2>4. Popped(st, new) BY <1>2, <1>3, <2>2 DEF Popped, todo
  <2>5. Left(st, new) BY <1>4, <1>7, <2>2, <2>4 DEF Left, todo
  <2> QED BY <2>3, <2>5 DEF new
<1>8. CASE ~todo[1].leave /\ s \in st.black
  <2>1. new = [st EXCEPT !.todo = rest] BY <1>5, <1>8
  <2>2. new.todo = rest /\ new.gray = st.gray /\ new.black = st.black /\ ~new.found
    BY <1>6, <2>1
  <2>3. new \in dfsStates(keep) BY <1>3, <1>6, <2>1 DEF dfsStates, Items
  <2>4. Popped(st, new) BY <1>2, <1>3, <2>2 DEF Popped, todo
  <2>5. Passed(st, new) BY <1>4, <1>8, <2>2, <2>4 DEF Passed, todo
  <2> QED BY <2>3, <2>5 DEF new
<1>9. CASE ~todo[1].leave /\ s \notin st.black /\ s \in st.gray
  <2>1. new = [st EXCEPT !.found = TRUE] BY <1>5, <1>9
  <2>2. new.todo = todo /\ new.gray = st.gray /\ new.black = st.black /\ new.found
    BY <1>6, <2>1 DEF todo
  <2>3. new \in dfsStates(keep) BY <1>6, <2>1 DEF dfsStates, Items
  <2>4. Met(st, new) BY <1>4, <1>9, <2>2 DEF Met, todo
  <2> QED BY <2>3, <2>4 DEF new
<1>10. CASE ~todo[1].leave /\ s \notin st.black /\ s \notin st.gray
  <2> DEFINE kp == KeptParents(up, keep, s)
             head == kept \o <<Leave(s)>>
             all == head \o rest
  <2>1. new = [st EXCEPT !.todo = all, !.gray = @ \cup {s}] BY <1>5, <1>10
  <2>2. up[s] \in Seq(T) BY <1>4
  <2>3. kp \in Seq(keep) /\ Range(kp) = Range(up[s]) \cap keep BY <2>2, KeptParentsFacts
  <2>4. kept = Entered(kp) BY DEF kept
  <2> HIDE DEF kp
  <2>5. PICK c \in Nat : c = Len(kp) BY <2>3
  <2>6. /\ kept \in Seq(Items(keep)) /\ Len(kept) = c
        /\ \A i \in 1 .. c : kept[i].slug = kp[i] /\ ~kept[i].leave
    BY <2>3, <2>4, <2>5, EnteredFacts
  <2>7. /\ <<Leave(s)>> \in Seq(Items(keep)) /\ Len(<<Leave(s)>>) = 1 /\ <<Leave(s)>>[1] = Leave(s)
    BY <1>4 DEF Leave, Items
  <2>8. /\ head \in Seq(Items(keep)) /\ Len(head) = c + 1 /\ head[c + 1] = Leave(s)
        /\ \A m \in 1 .. c : head[m] = kept[m]
    <3> DEFINE one == <<Leave(s)>>
    <3> HIDE DEF one
    <3>1. one \in Seq(Items(keep)) /\ Len(one) = 1 /\ one[1] = Leave(s) BY <2>7 DEF one
    <3>2. /\ kept \o one \in Seq(Items(keep)) /\ Len(kept \o one) = Len(kept) + Len(one)
          /\ \A k \in 1 .. Len(kept) + Len(one) :
                (kept \o one)[k] = IF k <= Len(kept) THEN kept[k] ELSE one[k - Len(kept)]
      BY <2>6, <3>1, Joined, ZenonT(30)
    <3>3. head = kept \o one BY DEF one
    <3> HIDE DEF head
    <3>4. /\ head \in Seq(Items(keep)) /\ Len(head) = c + 1
          /\ \A k \in 1 .. c + 1 : head[k] = IF k <= c THEN kept[k] ELSE one[k - c]
      BY <2>6, <3>1, <3>2, <3>3
    <3>5. c + 1 \in 1 .. c + 1 /\ ~(c + 1 <= c) /\ c + 1 - c = 1 BY <2>5
    <3> QED BY <3>1, <3>4, <3>5
  <2> HIDE DEF head
  <2>9. /\ all \in Seq(Items(keep)) /\ Len(all) = c + n
        /\ \A m \in 1 .. c + n : all[m] = IF m <= c + 1 THEN head[m] ELSE rest[m - (c + 1)]
    <3>1. /\ all \in Seq(Items(keep)) /\ Len(all) = Len(head) + Len(rest)
          /\ \A k \in 1 .. Len(head) + Len(rest) :
                all[k] = IF k <= Len(head) THEN head[k] ELSE rest[k - Len(head)]
      BY <1>3, <2>8, Joined, ZenonT(30)
    <3> HIDE DEF all
    <3>2. Len(head) + Len(rest) = c + n BY <1>3, <2>5, <2>8
    <3> QED BY <2>8, <3>1, <3>2
  <2> HIDE DEF all
  <2>10. \A m \in 1 .. c : ~all[m].leave /\ all[m].slug = kp[m]
    <3>1. \A m \in 1 .. c : m \in 1 .. c + n /\ m <= c + 1 BY <2>5, <1>2
    <3> QED BY <2>6, <2>8, <2>9, <3>1
  <2>11. all[c + 1] = Leave(s)
    <3>1. c + 1 \in 1 .. c + n /\ c + 1 <= c + 1 BY <1>2, <1>3, <2>5
    <3> QED BY <2>8, <2>9, <3>1
  <2>12. \A m \in c + 2 .. c + n : all[m] = todo[m - c]
    <3> SUFFICES ASSUME NEW m \in c + 2 .. c + n PROVE all[m] = todo[m - c] OBVIOUS
    <3>1. /\ m \in 1 .. c + n /\ ~(m <= c + 1) /\ m - (c + 1) \in 1 .. n - 1
          /\ m - (c + 1) + 1 = m - c
      BY <1>2, <2>5
    <3> QED BY <1>3, <2>9, <3>1
  <2>13. new \in dfsStates(keep) BY <1>4, <1>6, <2>1, <2>9 DEF dfsStates, Items
  <2>14. Opened(up, keep, st, new)
    <3>1. kp \in Seq(keep) /\ DOMAIN kp = 1 .. c BY <2>3, <2>5
    <3>2. \A m \in 1 .. c : kp[m] \in Range(up[s]) BY <2>3, <3>1 DEF Range
    <3>3. \A p \in Range(up[s]) \cap keep : \E m \in 1 .. c : kp[m] = p
      BY <2>3, <3>1 DEF Range
    <3>4. /\ \A m \in 1 .. c : ~all[m].leave /\ all[m].slug \in Range(up[s])
          /\ \A p \in Range(up[s]) \cap keep : \E m \in 1 .. c : all[m].slug = p
      BY <2>10, <3>2, <3>3
    <3>5. new.todo = all /\ ~new.found /\ new.gray = st.gray \cup {s} /\ new.black = st.black
      BY <1>6, <2>1
    <3>6. s = st.todo[1].slug /\ ~st.todo[1].leave /\ Len(st.todo) = n /\ st.todo = todo
      BY <1>2, <1>4, <1>10 DEF todo
    <3>7. \E d \in Nat :
              /\ Len(new.todo) = d + Len(st.todo)
              /\ \A m \in 1 .. d : ~new.todo[m].leave /\ new.todo[m].slug \in Range(up[s])
              /\ \A p \in Range(up[s]) \cap keep : \E m \in 1 .. d : new.todo[m].slug = p
              /\ new.todo[d + 1] = Leave(s)
              /\ \A m \in d + 2 .. d + Len(st.todo) : new.todo[m] = st.todo[m - d]
      <4>1. /\ Len(new.todo) = c + Len(st.todo)
            /\ \A m \in 1 .. c : ~new.todo[m].leave /\ new.todo[m].slug \in Range(up[s])
            /\ \A p \in Range(up[s]) \cap keep : \E m \in 1 .. c : new.todo[m].slug = p
            /\ new.todo[c + 1] = Leave(s)
            /\ \A m \in c + 2 .. c + Len(st.todo) : new.todo[m] = st.todo[m - c]
        BY <2>9, <2>11, <2>12, <3>4, <3>5, <3>6
      <4> QED BY <4>1, <2>5
    <3> QED BY <1>10, <3>5, <3>6, <3>7 DEF Opened
  <2> QED BY <2>13, <2>14 DEF new
<1> QED BY <1>4, <1>7, <1>8, <1>9, <1>10

\* From s, t is reached by one or more edges.
Reaches(up, keep, s, t) == \E n \in Nat \ {0} : Walk(up, keep, s, t, n)

\* No set of slugs in B in which each has a parent.
Acyclic(up, B) == \A Y \in SUBSET B : Y # {} => \E y \in Y : Range(up[y]) \cap Y = {}

\* A walk gets longer by an edge at its end, and each walk of one edge or more is
\* one that did.
LEMMA WalkOn ==
    ASSUME NEW up, NEW keep, NEW s, NEW t \in keep, NEW u \in keep, NEW n \in Nat,
           Walk(up, keep, s, t, n), u \in Range(up[t])
    PROVE  Walk(up, keep, s, u, n + 1)
<1>1. PICK p \in [0 .. n -> keep] : /\ p[0] = s /\ p[n] = t
                                    /\ \A k \in 0 .. n - 1 : p[k + 1] \in Range(up[p[k]])
  BY DEF Walk
<1> DEFINE q == [k \in 0 .. n + 1 |-> IF k <= n THEN p[k] ELSE u]
<1>2. q \in [0 .. n + 1 -> keep] BY <1>1
<1>3. (\A k \in 0 .. n : q[k] = p[k]) /\ q[n + 1] = u BY <1>1
<1> HIDE DEF q
<1>4. q[0] = s /\ q[n + 1] = u BY <1>1, <1>3
<1>5. ASSUME NEW k \in 0 .. n + 1 - 1 PROVE q[k + 1] \in Range(up[q[k]])
  <2>1. CASE k = n
    <3>1. q[k + 1] = u /\ q[k] = t BY <1>1, <1>3, <2>1
    <3> QED BY <3>1
  <2>2. CASE k \in 0 .. n - 1
    <3>1. k \in 0 .. n /\ k + 1 \in 0 .. n BY <2>2
    <3>2. q[k] = p[k] /\ q[k + 1] = p[k + 1] BY <1>3, <3>1
    <3> QED BY <1>1, <2>2, <3>2
  <2> QED BY <2>1, <2>2
<1> QED BY <1>2, <1>4, <1>5 DEF Walk

\* The last edge of a walk.
LEMMA WalkBack ==
    ASSUME NEW up, NEW keep, NEW s, NEW u, NEW n \in Nat, Walk(up, keep, s, u, n + 1)
    PROVE  u \in keep /\ \E t \in keep : Walk(up, keep, s, t, n) /\ u \in Range(up[t])
<1>1. PICK p \in [0 .. n + 1 -> keep] :
          /\ p[0] = s /\ p[n + 1] = u
          /\ \A k \in 0 .. n + 1 - 1 : p[k + 1] \in Range(up[p[k]])
  BY DEF Walk
<1> DEFINE q == [k \in 0 .. n |-> p[k]]
<1>2. n \in 0 .. n + 1 - 1 /\ n \in 0 .. n + 1 /\ n + 1 \in 0 .. n + 1 /\ n \in 0 .. n /\ 0 \in 0 .. n
  OBVIOUS
<1>3. p[n] \in keep /\ u \in keep /\ u \in Range(up[p[n]]) BY <1>1, <1>2
<1>4. q \in [0 .. n -> keep] BY <1>1
<1>5. \A k \in 0 .. n - 1 : q[k + 1] \in Range(up[q[k]])
  <2> SUFFICES ASSUME NEW k \in 0 .. n - 1 PROVE q[k + 1] \in Range(up[q[k]]) OBVIOUS
  <2>1. k \in 0 .. n /\ k + 1 \in 0 .. n /\ k \in 0 .. n + 1 - 1 OBVIOUS
  <2> QED BY <1>1, <2>1
<1>6. q[0] = s /\ q[n] = p[n] BY <1>1, <1>2
<1> HIDE DEF q
<1>7. Walk(up, keep, s, p[n], n) BY <1>4, <1>5, <1>6 DEF Walk
<1> QED BY <1>3, <1>7

\* A walk of no edge stays.
LEMMA WalkNone ==
    ASSUME NEW up, NEW keep, NEW s, NEW t
    PROVE  Walk(up, keep, s, t, 0) <=> s = t /\ s \in keep
<1>1. ASSUME Walk(up, keep, s, t, 0) PROVE s = t /\ s \in keep
  <2>1. PICK p \in [0 .. 0 -> keep] : p[0] = s /\ p[0] = t BY <1>1 DEF Walk
  <2>2. 0 \in 0 .. 0 OBVIOUS
  <2> QED BY <2>1, <2>2
<1>2. ASSUME s = t, s \in keep PROVE Walk(up, keep, s, t, 0)
  <2> DEFINE p == [k \in 0 .. 0 |-> s]
  <2>1. p \in [0 .. 0 -> keep] /\ p[0] = s /\ p[0] = t BY <1>2
  <2>2. 0 .. 0 - 1 = {} OBVIOUS
  <2> HIDE DEF p
  <2> QED BY <2>1, <2>2 DEF Walk
<1> QED BY <1>1, <1>2

\* A parent is reached.
LEMMA ReachesStep ==
    ASSUME NEW up, NEW keep, NEW s \in keep, NEW t \in keep, t \in Range(up[s])
    PROVE  Reaches(up, keep, s, t)
<1>1. Walk(up, keep, s, s, 0) BY WalkNone
<1>2. Walk(up, keep, s, t, 0 + 1) BY <1>1, WalkOn
<1> QED BY <1>2 DEF Reaches

\* A parent of what is reached is reached.
LEMMA ReachesOn ==
    ASSUME NEW up, NEW keep, NEW s \in keep, NEW t \in keep, NEW u \in keep,
           Reaches(up, keep, s, t), u \in Range(up[t])
    PROVE  Reaches(up, keep, s, u)
<1>1. PICK n \in Nat \ {0} : Walk(up, keep, s, t, n) BY DEF Reaches
<1>2. Walk(up, keep, s, u, n + 1) BY <1>1, WalkOn
<1>3. n + 1 \in Nat \ {0} OBVIOUS
<1> QED BY <1>2, <1>3 DEF Reaches

\* A shortest walk passes each slug at most once.
LEMMA ShortWalk ==
    ASSUME NEW up, NEW keep, IsFiniteSet(keep), NEW s \in keep, NEW t \in keep,
           Reaches(up, keep, s, t)
    PROVE  \E n \in 1 .. Cardinality(keep) : Walk(up, keep, s, t, n)
<1> DEFINE A == {n \in Nat \ {0} : Walk(up, keep, s, t, n)}
<1>1. PICK n \in A : \A m \in A : n <= m
  <2>1. A \subseteq Nat /\ A # {} BY DEF Reaches
  <2> QED BY <2>1, LeastNat
<1>2. n \in Nat \ {0} /\ Walk(up, keep, s, t, n) OBVIOUS
<1>3. PICK p \in [0 .. n -> keep] : /\ p[0] = s /\ p[n] = t
                                    /\ \A k \in 0 .. n - 1 : p[k + 1] \in Range(up[p[k]])
  BY <1>2 DEF Walk
<1>4. ASSUME NEW a \in 1 .. n, NEW b \in 1 .. n, a < b, p[a] = p[b] PROVE FALSE
  <2> DEFINE d == b - a
             m == n - d
             q == [k \in 0 .. m |-> IF k <= a THEN p[k] ELSE p[k + d]]
  <2>1. d \in Nat \ {0} /\ a + d = b /\ m \in Nat \ {0} /\ m < n /\ a <= m /\ m + d = n
    BY <1>2, <1>4
  <2> HIDE DEF d, m
  <2>2. \A k \in 0 .. m : k \in 0 .. n /\ k + d \in 0 .. n BY <1>2, <2>1
  <2>3. q \in [0 .. m -> keep] BY <1>3, <2>2
  <2>4. /\ \A k \in 0 .. m : k <= a => q[k] = p[k]
        /\ \A k \in 0 .. m : k >= a => q[k] = p[k + d]
    <3>1. \A k \in 0 .. m : k <= a => q[k] = p[k] OBVIOUS
    <3>2. ASSUME NEW k \in 0 .. m, k >= a PROVE q[k] = p[k + d]
      <4>1. CASE k = a BY <1>4, <2>1, <4>1
      <4>2. CASE k > a BY <4>2
      <4> QED BY <3>2, <4>1, <4>2
    <3> QED BY <3>1, <3>2
  <2> HIDE DEF q
  <2>5. q[0] = s
    <3>1. 0 \in 0 .. m /\ 0 <= a BY <2>1
    <3> QED BY <1>3, <2>4, <3>1
  <2>6. q[m] = t
    <3>1. m \in 0 .. m /\ m >= a BY <2>1
    <3> QED BY <1>3, <2>1, <2>4, <3>1
  <2>7. ASSUME NEW k \in 0 .. m - 1 PROVE q[k + 1] \in Range(up[q[k]])
    <3>1. k \in 0 .. m /\ k + 1 \in 0 .. m /\ k \in 0 .. n - 1 /\ k + d \in 0 .. n - 1
      BY <1>2, <2>1
    <3>2. CASE k < a
      <4>1. k <= a /\ k + 1 <= a BY <3>1, <3>2
      <4>2. q[k] = p[k] /\ q[k + 1] = p[k + 1] BY <2>4, <3>1, <4>1
      <4> QED BY <1>3, <3>1, <4>2
    <3>3. CASE k >= a
      <4>1. k + 1 >= a /\ k + 1 + d = k + d + 1 BY <2>1, <3>3
      <4>2. q[k] = p[k + d] /\ q[k + 1] = p[k + d + 1] BY <2>4, <3>1, <3>3, <4>1
      <4> QED BY <1>3, <3>1, <4>2
    <3> QED BY <3>1, <3>2, <3>3
  <2>8. Walk(up, keep, s, t, m) BY <2>3, <2>5, <2>6, <2>7 DEF Walk
  <2>9. n <= m BY <1>1, <2>1, <2>8
  <2> QED BY <1>2, <2>1, <2>9
<1> DEFINE q == [k \in 1 .. n |-> p[k]]
<1>5. q \in Seq(keep) /\ Len(q) = n /\ DOMAIN q = 1 .. n
  <2>1. \A k \in 1 .. n : q[k] \in keep BY <1>3
  <2>2. q = [k \in 1 .. n |-> q[k]] OBVIOUS
  <2> HIDE DEF q
  <2> QED BY <1>2, <2>1, <2>2, Tabled
<1>6. \A i, j \in 1 .. Len(q) : q[i] = q[j] => i = j
  <2> SUFFICES ASSUME NEW i \in 1 .. n, NEW j \in 1 .. n, q[i] = q[j] PROVE i = j
    BY <1>5
  <2>1. p[i] = p[j] OBVIOUS
  <2>2. ~(i < j) /\ ~(j < i) BY <1>4, <2>1
  <2> QED BY <2>2
<1> HIDE DEF q
<1>7. Cardinality(Range(q)) = n BY <1>5, <1>6, InjectiveSize
<1>8. Range(q) \subseteq keep BY <1>5 DEF Range
<1>9. n <= Cardinality(keep) BY <1>7, <1>8, FS_Subset
<1>10. n \in 1 .. Cardinality(keep)
  <2>1. Cardinality(keep) \in Nat BY FS_CardinalityType
  <2> QED BY <1>2, <1>9, <2>1
<1> QED BY <1>2, <1>10

\* Slugs without a cycle among them have no walk back.
LEMMA NoWalkBack ==
    ASSUME NEW up, NEW keep, Acyclic(up, keep), NEW s \in keep, NEW n \in Nat \ {0}
    PROVE  ~Walk(up, keep, s, s, n)
<1> SUFFICES ASSUME Walk(up, keep, s, s, n) PROVE FALSE OBVIOUS
<1>1. PICK p \in [0 .. n -> keep] : /\ p[0] = s /\ p[n] = s
                                    /\ \A k \in 0 .. n - 1 : p[k + 1] \in Range(up[p[k]])
  BY DEF Walk
<1> DEFINE Y == {p[k] : k \in 0 .. n - 1}
<1>2. \A k \in 0 .. n - 1 : k \in 0 .. n /\ k + 1 \in 0 .. n OBVIOUS
<1>3. Y \in SUBSET keep BY <1>1, <1>2
<1>4. 0 \in 0 .. n - 1 OBVIOUS
<1>5. Y # {} BY <1>4
<1>6. \E y \in Y : Range(up[y]) \cap Y = {}
  <2> HIDE DEF Y
  <2> QED BY <1>3, <1>5 DEF Acyclic
<1>7. PICK k \in 0 .. n - 1 : Range(up[p[k]]) \cap Y = {} BY <1>6
<1>8. p[k + 1] \in Y
  <2>1. CASE k + 1 = n BY <1>1, <1>4, <2>1
  <2>2. CASE k + 1 # n
    <3>1. k + 1 \in 0 .. n - 1 BY <2>2
    <3> QED BY <3>1
  <2> QED BY <2>1, <2>2
<1> QED BY <1>1, <1>7, <1>8

\* A slug is gray exactly while the stack holds its end, once.
Marks(st) ==
    /\ st.gray \cap st.black = {}
    /\ \A m \in 1 .. Len(st.todo) : st.todo[m].leave => st.todo[m].slug \in st.gray
    /\ \A g \in st.gray : \E m \in 1 .. Len(st.todo) : st.todo[m].leave /\ st.todo[m].slug = g
    /\ \A l, m \in 1 .. Len(st.todo) :
          st.todo[l].leave /\ st.todo[m].leave /\ st.todo[l].slug = st.todo[m].slug => l = m

\* The slugs that are done have no cycle, and their parents are done.
Done(up, keep, st) ==
    /\ \A s \in st.black : Range(up[s]) \cap keep \subseteq st.black
    /\ Acyclic(up, st.black)

\* A parent of a slug that is being visited is done or comes before its end.
Pending(up, keep, st) ==
    \A m \in 1 .. Len(st.todo) : st.todo[m].leave =>
        \A p \in Range(up[st.todo[m].slug]) \cap keep :
            p \in st.black \/ \E l \in 1 .. m - 1 : st.todo[l].slug = p

\* What comes before the end of a slug can be reached from it.
Above(up, keep, st) ==
    \A m \in 1 .. Len(st.todo) : st.todo[m].leave =>
        \A l \in 1 .. m - 1 : Reaches(up, keep, st.todo[m].slug, st.todo[l].slug)

\* No slug is forgotten.
Covered(keep, st) ==
    \A s \in keep : s \in st.black \/ \E m \in 1 .. Len(st.todo) : st.todo[m].slug = s

\* What holds of the walk between two steps.
DfsInv(up, keep, st) ==
    IF st.found THEN \E s \in keep : Reaches(up, keep, s, s)
    ELSE Marks(st) /\ Done(up, keep, st) /\ Pending(up, keep, st) /\ Above(up, keep, st)
         /\ Covered(keep, st)

\* A state of the walk that is not done.
Walking(keep, st) ==
    /\ st \in dfsStates(keep) /\ ~st.found /\ Len(st.todo) \in Nat /\ Len(st.todo) >= 1
    /\ \A m \in 1 .. Len(st.todo) : st.todo[m].slug \in keep

\* What the stack holds once its first item is gone.
LEMMA PoppedFacts ==
    ASSUME NEW keep, NEW st, Walking(keep, st), NEW new, Popped(st, new)
    PROVE  /\ Len(new.todo) \in Nat
           /\ \A m \in 1 .. Len(new.todo) : m + 1 \in 1 .. Len(st.todo) /\ m + 1 # 1
                                            /\ new.todo[m] = st.todo[m + 1]
           /\ \A m \in 1 .. Len(st.todo) :
                 m = 1 \/ (m - 1 \in 1 .. Len(new.todo) /\ new.todo[m - 1] = st.todo[m])
<1>1. PICK n \in Nat : n = Len(st.todo) /\ n >= 1 BY DEF Walking
<1>2. /\ Len(new.todo) = n - 1 /\ \A m \in 1 .. n - 1 : new.todo[m] = st.todo[m + 1]
  BY <1>1 DEF Popped
<1>3. ASSUME NEW m \in 1 .. n, m # 1 PROVE m - 1 \in 1 .. n - 1 /\ new.todo[m - 1] = st.todo[m]
  <2>1. m - 1 \in 1 .. n - 1 /\ m - 1 + 1 = m BY <1>1, <1>3
  <2> QED BY <1>2, <2>1
<1> QED BY <1>1, <1>2, <1>3

\* To leave a slug keeps the invariant: its parents are done, and so it is.
LEMMA LeftKeeps ==
    ASSUME NEW up, NEW keep, NEW st, Walking(keep, st), NEW new, Left(st, new),
           DfsInv(up, keep, st)
    PROVE  DfsInv(up, keep, new)
<1> DEFINE s == st.todo[1].slug
           n == Len(st.todo)
           k == Len(new.todo)
<1>1. /\ k \in Nat /\ n \in Nat
      /\ \A m \in 1 .. k : m + 1 \in 1 .. n /\ m + 1 # 1 /\ new.todo[m] = st.todo[m + 1]
      /\ \A m \in 1 .. n : m = 1 \/ (m - 1 \in 1 .. k /\ new.todo[m - 1] = st.todo[m])
  BY PoppedFacts DEF Left, Walking
<1>2. /\ 1 \in 1 .. n /\ st.todo[1].leave /\ ~new.found /\ ~st.found
      /\ new.gray = st.gray \ {s} /\ new.black = st.black \cup {s} /\ s \in keep
  BY DEF Left, Walking
<1>3. /\ Marks(st) /\ Done(up, keep, st) /\ Pending(up, keep, st) /\ Above(up, keep, st)
      /\ Covered(keep, st)
  BY <1>2 DEF DfsInv
<1> HIDE DEF s, n, k
<1>4. s \in st.gray /\ s \notin st.black BY <1>2, <1>3 DEF Marks, s, n
<1>5. \A m \in 1 .. n : st.todo[m].leave /\ st.todo[m].slug = s => m = 1
  BY <1>2, <1>3 DEF Marks, s, n
<1>6. Range(up[s]) \cap keep \subseteq st.black
  <2>1. \A p \in Range(up[s]) \cap keep : p \in st.black \/ \E l \in 1 .. 1 - 1 : st.todo[l].slug = p
    BY <1>2, <1>3 DEF Pending, s, n
  <2> QED BY <2>1
<1>7. Marks(new)
  <2>1. new.gray \cap new.black = {} BY <1>2, <1>3 DEF Marks
  <2>2. ASSUME NEW m \in 1 .. k, new.todo[m].leave PROVE new.todo[m].slug \in new.gray
    <3>1. m + 1 \in 1 .. n /\ m + 1 # 1 /\ new.todo[m] = st.todo[m + 1] BY <1>1
    <3>2. st.todo[m + 1].slug \in st.gray BY <1>3, <2>2, <3>1 DEF Marks, n
    <3>3. st.todo[m + 1].slug # s BY <1>5, <2>2, <3>1
    <3> QED BY <1>2, <3>1, <3>2, <3>3
  <2>3. ASSUME NEW g \in new.gray PROVE \E m \in 1 .. k : new.todo[m].leave /\ new.todo[m].slug = g
    <3>1. g \in st.gray /\ g # s BY <1>2
    <3>2. PICK m \in 1 .. n : st.todo[m].leave /\ st.todo[m].slug = g BY <1>3, <3>1 DEF Marks, n
    <3>3. m # 1 BY <3>1, <3>2 DEF s
    <3> QED BY <1>1, <3>2, <3>3
  <2>4. ASSUME NEW l \in 1 .. k, NEW m \in 1 .. k, new.todo[l].leave, new.todo[m].leave,
               new.todo[l].slug = new.todo[m].slug
        PROVE  l = m
    <3>1. /\ l + 1 \in 1 .. n /\ new.todo[l] = st.todo[l + 1]
          /\ m + 1 \in 1 .. n /\ new.todo[m] = st.todo[m + 1]
      BY <1>1
    <3>2. l + 1 = m + 1 BY <1>3, <2>4, <3>1 DEF Marks, n
    <3> QED BY <1>1, <3>2
  <2> QED BY <2>1, <2>2, <2>3, <2>4 DEF Marks, k
<1>8. Done(up, keep, new)
  <2>1. ASSUME NEW x \in new.black PROVE Range(up[x]) \cap keep \subseteq new.black
    BY <1>2, <1>3, <1>6 DEF Done
  <2>2. ASSUME NEW Y \in SUBSET new.black, Y # {} PROVE \E y \in Y : Range(up[y]) \cap Y = {}
    <3> DEFINE Z == Y \cap st.black
    <3>1. CASE Z # {}
      <4>1. PICK y \in Z : Range(up[y]) \cap Z = {}
        <5>1. Z \in SUBSET st.black /\ Acyclic(up, st.black) BY <1>3 DEF Done
        <5> HIDE DEF Z
        <5> QED BY <3>1, <5>1 DEF Acyclic
      <4>2. Range(up[y]) \cap keep \subseteq st.black BY <1>3, <4>1 DEF Done
      <4>3. Range(up[y]) \cap Y \subseteq Range(up[y]) \cap Z
        <5>1. s \notin Range(up[y]) BY <1>2, <1>4, <4>2
        <5> QED BY <1>2, <5>1
      <4> QED BY <4>1, <4>3
    <3>2. CASE Z = {}
      <4>1. Y = {s} BY <1>2, <2>2, <3>2
      <4>2. s \notin Range(up[s]) BY <1>2, <1>4, <1>6
      <4> QED BY <4>1, <4>2
    <3> QED BY <3>1, <3>2
  <2> QED BY <2>1, <2>2 DEF Done, Acyclic
<1>9. Pending(up, keep, new)
  <2> SUFFICES ASSUME NEW m \in 1 .. k, new.todo[m].leave,
                      NEW p \in Range(up[new.todo[m].slug]) \cap keep, p \notin new.black
               PROVE  \E l \in 1 .. m - 1 : new.todo[l].slug = p
    BY DEF Pending, k
  <2>1. m + 1 \in 1 .. n /\ new.todo[m] = st.todo[m + 1] BY <1>1
  <2>2. PICK l \in 1 .. m + 1 - 1 : st.todo[l].slug = p BY <1>2, <1>3, <2>1 DEF Pending, n
  <2>3. l # 1 BY <1>2, <2>2 DEF s
  <2>4. l \in 1 .. n /\ l - 1 \in 1 .. m - 1 BY <1>1, <2>1, <2>3
  <2>5. new.todo[l - 1] = st.todo[l] BY <1>1, <2>3, <2>4
  <2> QED BY <2>2, <2>4, <2>5
<1>10. Above(up, keep, new)
  <2> SUFFICES ASSUME NEW m \in 1 .. k, new.todo[m].leave, NEW l \in 1 .. m - 1
               PROVE  Reaches(up, keep, new.todo[m].slug, new.todo[l].slug)
    BY DEF Above, k
  <2>1. /\ m + 1 \in 1 .. n /\ new.todo[m] = st.todo[m + 1]
        /\ l \in 1 .. k /\ l + 1 \in 1 .. m + 1 - 1
    BY <1>1
  <2>2. new.todo[l] = st.todo[l + 1] BY <1>1, <2>1
  <2> QED BY <1>3, <2>1, <2>2 DEF Above, n
<1>11. Covered(keep, new)
  <2> SUFFICES ASSUME NEW x \in keep, x \notin new.black
               PROVE  \E m \in 1 .. k : new.todo[m].slug = x
    BY DEF Covered, k
  <2>1. PICK m \in 1 .. n : st.todo[m].slug = x BY <1>2, <1>3 DEF Covered, n
  <2>2. m # 1 BY <1>2, <2>1 DEF s
  <2> QED BY <1>1, <2>1, <2>2
<1> QED BY <1>2, <1>7, <1>8, <1>9, <1>10, <1>11 DEF DfsInv

\* To pass a slug that is done keeps the invariant.
LEMMA PassedKeeps ==
    ASSUME NEW up, NEW keep, NEW st, Walking(keep, st), NEW new, Passed(st, new),
           DfsInv(up, keep, st)
    PROVE  DfsInv(up, keep, new)
<1> DEFINE s == st.todo[1].slug
           n == Len(st.todo)
           k == Len(new.todo)
<1>1. /\ k \in Nat /\ n \in Nat
      /\ \A m \in 1 .. k : m + 1 \in 1 .. n /\ m + 1 # 1 /\ new.todo[m] = st.todo[m + 1]
      /\ \A m \in 1 .. n : m = 1 \/ (m - 1 \in 1 .. k /\ new.todo[m - 1] = st.todo[m])
  BY PoppedFacts DEF Passed, Walking
<1>2. /\ 1 \in 1 .. n /\ ~st.todo[1].leave /\ ~new.found /\ ~st.found
      /\ new.gray = st.gray /\ new.black = st.black /\ s \in keep /\ s \in st.black
  BY DEF Passed, Walking
<1>3. /\ Marks(st) /\ Done(up, keep, st) /\ Pending(up, keep, st) /\ Above(up, keep, st)
      /\ Covered(keep, st)
  BY <1>2 DEF DfsInv
<1> HIDE DEF s, n, k
<1>4. Marks(new)
  <2>1. new.gray \cap new.black = {} BY <1>2, <1>3 DEF Marks
  <2>2. ASSUME NEW m \in 1 .. k, new.todo[m].leave PROVE new.todo[m].slug \in new.gray
    <3>1. m + 1 \in 1 .. n /\ m + 1 # 1 /\ new.todo[m] = st.todo[m + 1] BY <1>1
    <3> QED BY <1>2, <1>3, <2>2, <3>1 DEF Marks, n
  <2>3. ASSUME NEW g \in new.gray PROVE \E m \in 1 .. k : new.todo[m].leave /\ new.todo[m].slug = g
    <3>1. PICK m \in 1 .. n : st.todo[m].leave /\ st.todo[m].slug = g BY <1>2, <1>3 DEF Marks, n
    <3>2. m # 1 BY <1>2, <3>1
    <3> QED BY <1>1, <3>1, <3>2
  <2>4. ASSUME NEW l \in 1 .. k, NEW m \in 1 .. k, new.todo[l].leave, new.todo[m].leave,
               new.todo[l].slug = new.todo[m].slug
        PROVE  l = m
    <3>1. /\ l + 1 \in 1 .. n /\ new.todo[l] = st.todo[l + 1]
          /\ m + 1 \in 1 .. n /\ new.todo[m] = st.todo[m + 1]
      BY <1>1
    <3>2. l + 1 = m + 1 BY <1>3, <2>4, <3>1 DEF Marks, n
    <3> QED BY <1>1, <3>2
  <2> QED BY <2>1, <2>2, <2>3, <2>4 DEF Marks, k
<1>5. Done(up, keep, new) BY <1>2, <1>3 DEF Done
<1>6. Pending(up, keep, new)
  <2> SUFFICES ASSUME NEW m \in 1 .. k, new.todo[m].leave,
                      NEW p \in Range(up[new.todo[m].slug]) \cap keep, p \notin new.black
               PROVE  \E l \in 1 .. m - 1 : new.todo[l].slug = p
    BY DEF Pending, k
  <2>1. m + 1 \in 1 .. n /\ new.todo[m] = st.todo[m + 1] BY <1>1
  <2>2. PICK l \in 1 .. m + 1 - 1 : st.todo[l].slug = p BY <1>2, <1>3, <2>1 DEF Pending, n
  <2>3. l # 1 BY <1>2, <2>2 DEF s
  <2>4. l \in 1 .. n /\ l - 1 \in 1 .. m - 1 BY <1>1, <2>1, <2>3
  <2>5. new.todo[l - 1] = st.todo[l] BY <1>1, <2>3, <2>4
  <2> QED BY <2>2, <2>4, <2>5
<1>7. Above(up, keep, new)
  <2> SUFFICES ASSUME NEW m \in 1 .. k, new.todo[m].leave, NEW l \in 1 .. m - 1
               PROVE  Reaches(up, keep, new.todo[m].slug, new.todo[l].slug)
    BY DEF Above, k
  <2>1. /\ m + 1 \in 1 .. n /\ new.todo[m] = st.todo[m + 1]
        /\ l \in 1 .. k /\ l + 1 \in 1 .. m + 1 - 1
    BY <1>1
  <2>2. new.todo[l] = st.todo[l + 1] BY <1>1, <2>1
  <2> QED BY <1>3, <2>1, <2>2 DEF Above, n
<1>8. Covered(keep, new)
  <2> SUFFICES ASSUME NEW x \in keep, x \notin new.black
               PROVE  \E m \in 1 .. k : new.todo[m].slug = x
    BY DEF Covered, k
  <2>1. PICK m \in 1 .. n : st.todo[m].slug = x BY <1>2, <1>3 DEF Covered, n
  <2>2. m # 1 BY <1>2, <2>1 DEF s
  <2> QED BY <1>1, <2>1, <2>2
<1> QED BY <1>2, <1>4, <1>5, <1>6, <1>7, <1>8 DEF DfsInv

\* To meet a slug the walk is in is to find a cycle through it.
LEMMA MetFinds ==
    ASSUME NEW up, NEW keep, NEW st, Walking(keep, st), NEW new, Met(st, new),
           DfsInv(up, keep, st)
    PROVE  DfsInv(up, keep, new)
<1> DEFINE s == st.todo[1].slug
<1>1. /\ Len(st.todo) \in Nat /\ 1 \in 1 .. Len(st.todo) /\ s \in keep /\ ~st.found
      /\ ~st.todo[1].leave /\ s \in st.gray /\ new.found
  BY DEF Walking, Met
<1>2. Marks(st) /\ Above(up, keep, st) BY <1>1 DEF DfsInv
<1>3. PICK m \in 1 .. Len(st.todo) : st.todo[m].leave /\ st.todo[m].slug = s
  BY <1>1, <1>2 DEF Marks
<1>4. 1 \in 1 .. m - 1 BY <1>1, <1>3
<1>5. Reaches(up, keep, s, s) BY <1>2, <1>3, <1>4 DEF Above
<1> HIDE DEF s
<1> QED BY <1>1, <1>5 DEF DfsInv

\* To enter a slug keeps the invariant: its parents are on the stack.
LEMMA OpenedKeeps ==
    ASSUME NEW up, NEW keep, NEW st, Walking(keep, st), NEW new, Opened(up, keep, st, new),
           \A m \in 1 .. Len(new.todo) : new.todo[m].slug \in keep,
           DfsInv(up, keep, st)
    PROVE  DfsInv(up, keep, new)
<1> DEFINE s == st.todo[1].slug
<1>1. PICK n \in Nat : n = Len(st.todo) /\ n >= 1 BY DEF Walking
<1>2. /\ 1 \in 1 .. n /\ ~st.todo[1].leave /\ ~new.found /\ ~st.found /\ s \in keep
      /\ s \notin st.black /\ s \notin st.gray
      /\ new.gray = st.gray \cup {s} /\ new.black = st.black
      /\ \A m \in 1 .. n : st.todo[m].slug \in keep
  BY <1>1 DEF Opened, Walking
<1>3. PICK c \in Nat :
              /\ Len(new.todo) = c + n
              /\ \A m \in 1 .. c : ~new.todo[m].leave /\ new.todo[m].slug \in Range(up[s])
              /\ \A p \in Range(up[s]) \cap keep : \E m \in 1 .. c : new.todo[m].slug = p
              /\ new.todo[c + 1] = Leave(s)
              /\ \A m \in c + 2 .. c + n : new.todo[m] = st.todo[m - c]
  BY <1>1 DEF Opened
<1>4. /\ Marks(st) /\ Done(up, keep, st) /\ Pending(up, keep, st) /\ Above(up, keep, st)
      /\ Covered(keep, st)
  BY <1>2 DEF DfsInv
<1>5. new.todo[c + 1].leave /\ new.todo[c + 1].slug = s BY <1>3 DEF Leave
<1> HIDE DEF s
<1>6. /\ c + 1 \in 1 .. c + n
      /\ \A m \in 1 .. c : m \in 1 .. c + n
      /\ \A m \in 1 .. c + n : m \in 1 .. c \/ m = c + 1 \/ m \in c + 2 .. c + n
      /\ \A m \in c + 2 .. c + n : m \in 1 .. c + n /\ m - c \in 2 .. n /\ m - c \in 1 .. n
  BY <1>1
<1>7. \A m \in 1 .. n : m # 1 => m + c \in c + 2 .. c + n /\ m + c \in 1 .. c + n
                                 /\ new.todo[m + c] = st.todo[m]
  <2> SUFFICES ASSUME NEW m \in 1 .. n, m # 1
               PROVE  m + c \in c + 2 .. c + n /\ m + c \in 1 .. c + n
                      /\ new.todo[m + c] = st.todo[m]
    OBVIOUS
  <2>1. m + c \in c + 2 .. c + n /\ m + c \in 1 .. c + n /\ m + c - c = m BY <1>1
  <2> QED BY <1>3, <2>1
<1>8. Marks(new)
  <2>1. new.gray \cap new.black = {} BY <1>2, <1>4 DEF Marks
  <2>2. ASSUME NEW m \in 1 .. c + n, new.todo[m].leave PROVE new.todo[m].slug \in new.gray
    <3>1. CASE m = c + 1 BY <1>2, <1>5, <3>1
    <3>2. CASE m \in c + 2 .. c + n
      <4>1. m - c \in 1 .. n /\ new.todo[m] = st.todo[m - c] BY <1>3, <1>6, <3>2
      <4>2. st.todo[m - c].slug \in st.gray BY <1>1, <1>4, <2>2, <4>1 DEF Marks
      <4> QED BY <1>2, <4>1, <4>2
    <3> QED BY <1>3, <1>6, <2>2, <3>1, <3>2
  <2>3. ASSUME NEW g \in new.gray
        PROVE  \E m \in 1 .. c + n : new.todo[m].leave /\ new.todo[m].slug = g
    <3>1. CASE g = s BY <1>5, <1>6, <3>1
    <3>2. CASE g \in st.gray
      <4>1. PICK m \in 1 .. n : st.todo[m].leave /\ st.todo[m].slug = g
        BY <1>1, <1>4, <3>2 DEF Marks
      <4>2. m # 1 BY <1>2, <4>1
      <4> QED BY <1>7, <4>1, <4>2
    <3> QED BY <1>2, <3>1, <3>2
  <2>4. ASSUME NEW m \in c + 2 .. c + n, new.todo[m].leave PROVE new.todo[m].slug # s
    <3>1. m - c \in 1 .. n /\ new.todo[m] = st.todo[m - c] BY <1>3, <1>6
    <3>2. st.todo[m - c].slug \in st.gray BY <1>1, <1>4, <2>4, <3>1 DEF Marks
    <3> QED BY <1>2, <3>1, <3>2
  <2>5. ASSUME NEW l \in 1 .. c + n, NEW m \in 1 .. c + n, new.todo[l].leave, new.todo[m].leave,
               new.todo[l].slug = new.todo[m].slug
        PROVE  l = m
    <3>1. (l = c + 1 \/ l \in c + 2 .. c + n) /\ (m = c + 1 \/ m \in c + 2 .. c + n)
      BY <1>3, <1>6, <2>5
    <3>2. CASE l \in c + 2 .. c + n /\ m \in c + 2 .. c + n
      <4>1. /\ l - c \in 1 .. n /\ new.todo[l] = st.todo[l - c]
            /\ m - c \in 1 .. n /\ new.todo[m] = st.todo[m - c]
        BY <1>3, <1>6, <3>2
      <4>2. l - c = m - c BY <1>1, <1>4, <2>5, <4>1 DEF Marks
      <4> QED BY <4>2
    <3> QED BY <1>5, <2>4, <2>5, <3>1, <3>2
  <2> QED BY <1>3, <2>1, <2>2, <2>3, <2>5 DEF Marks
<1>9. Done(up, keep, new) BY <1>2, <1>4 DEF Done
<1>10. Pending(up, keep, new)
  <2> SUFFICES ASSUME NEW m \in 1 .. c + n, new.todo[m].leave,
                      NEW p \in Range(up[new.todo[m].slug]) \cap keep, p \notin new.black
               PROVE  \E l \in 1 .. m - 1 : new.todo[l].slug = p
    BY <1>3 DEF Pending
  <2>1. CASE m = c + 1
    <3>1. PICK l \in 1 .. c : new.todo[l].slug = p BY <1>3, <1>5, <2>1
    <3>2. l \in 1 .. m - 1 BY <2>1
    <3> QED BY <3>1, <3>2
  <2>2. CASE m \in c + 2 .. c + n
    <3>1. m - c \in 1 .. n /\ new.todo[m] = st.todo[m - c] BY <1>3, <1>6, <2>2
    <3>2. PICK l \in 1 .. m - c - 1 : st.todo[l].slug = p BY <1>1, <1>2, <1>4, <3>1 DEF Pending
    <3>3. CASE l = 1
      <4>1. c + 1 \in 1 .. m - 1 BY <2>2
      <4>2. new.todo[c + 1].slug = p BY <1>5, <3>2, <3>3 DEF s
      <4> QED BY <4>1, <4>2
    <3>4. CASE l # 1
      <4>1. l \in 1 .. n /\ l + c \in 1 .. m - 1 BY <2>2, <3>4
      <4>2. new.todo[l + c] = st.todo[l] BY <1>7, <3>4, <4>1
      <4> QED BY <3>2, <4>1, <4>2
    <3> QED BY <3>3, <3>4
  <2> QED BY <1>3, <1>6, <2>1, <2>2
<1>11. Above(up, keep, new)
  <2> SUFFICES ASSUME NEW m \in 1 .. c + n, new.todo[m].leave, NEW l \in 1 .. m - 1
               PROVE  Reaches(up, keep, new.todo[m].slug, new.todo[l].slug)
    BY <1>3 DEF Above
  <2>1. l \in 1 .. c + n /\ new.todo[l].slug \in keep
    <3>1. l \in 1 .. c + n OBVIOUS
    <3> QED BY <1>3, <3>1
  <2>2. CASE m = c + 1
    <3>1. l \in 1 .. c BY <2>2
    <3>2. new.todo[l].slug \in Range(up[s]) BY <1>3, <3>1
    <3>3. Reaches(up, keep, s, new.todo[l].slug) BY <1>2, <2>1, <3>2, ReachesStep
    <3> QED BY <1>5, <2>2, <3>3
  <2>3. CASE m \in c + 2 .. c + n
    <3> DEFINE g == st.todo[m - c].slug
    <3>1. m - c \in 1 .. n /\ new.todo[m] = st.todo[m - c] /\ g \in keep
      BY <1>2, <1>3, <1>6, <2>3
    <3>2. \A i \in 1 .. m - c - 1 : Reaches(up, keep, g, st.todo[i].slug)
      BY <1>1, <1>4, <3>1 DEF Above
    <3>3. 1 \in 1 .. m - c - 1 BY <2>3
    <3>4. Reaches(up, keep, g, s) BY <3>2, <3>3 DEF s
    <3> HIDE DEF g
    <3>5. CASE l \in 1 .. c
      <4>1. new.todo[l].slug \in Range(up[s]) BY <1>3, <3>5
      <4>2. Reaches(up, keep, g, new.todo[l].slug) BY <1>2, <2>1, <3>1, <3>4, <4>1, ReachesOn
      <4> QED BY <3>1, <4>2 DEF g
    <3>6. CASE l = c + 1 BY <1>5, <3>1, <3>4, <3>6 DEF g
    <3>7. CASE l \in c + 2 .. c + n
      <4>1. l - c \in 1 .. m - c - 1 /\ new.todo[l] = st.todo[l - c] BY <1>3, <1>6, <2>3, <3>7
      <4> QED BY <3>1, <3>2, <4>1 DEF g
    <3> QED BY <1>6, <2>1, <3>5, <3>6, <3>7
  <2> QED BY <1>3, <1>6, <2>2, <2>3
<1>12. Covered(keep, new)
  <2> SUFFICES ASSUME NEW x \in keep, x \notin new.black
               PROVE  \E m \in 1 .. c + n : new.todo[m].slug = x
    BY <1>3 DEF Covered
  <2>1. PICK m \in 1 .. n : st.todo[m].slug = x BY <1>1, <1>2, <1>4 DEF Covered
  <2>2. CASE m = 1 BY <1>5, <1>6, <2>1, <2>2 DEF s
  <2>3. CASE m # 1 BY <1>7, <2>1, <2>3
  <2> QED BY <2>2, <2>3
<1> QED BY <1>2, <1>8, <1>9, <1>10, <1>11, <1>12 DEF DfsInv

\* The walk reports a cycle if and only if there is one.
LEMMA CyclesFound ==
    ASSUME NEW T, NEW up, NEW keep, \A s \in keep : up[s] \in Seq(T),
           NEW slugs \in Seq(keep), Range(slugs) = keep
    PROVE  detectCycles(slugs, up, keep)
               <=> \E s \in keep : \E n \in 1 .. Cardinality(keep) : Walk(up, keep, s, s, n)
<1> DEFINE S == dfsStates(keep)
           D == {st \in S : st.found \/ st.todo = <<>>}
           step == [st \in S |-> dfsStep(up, keep, st)]
           res == [st \in S |-> st.found]
           White(st) == keep \ (st.gray \cup st.black)
           a == [st \in S |-> Cardinality(White(st))]
           b == [st \in S |-> IF st.found THEN 0 ELSE Len(st.todo)]
           X == {st \in S : DfsInv(up, keep, st)}
           init == [todo |-> Entered(slugs), gray |-> {}, black |-> {}, found |-> FALSE]
<1>1. IsFiniteSet(keep) /\ Cardinality(keep) \in Nat
  <2>1. PICK n \in Nat : n = Len(slugs) OBVIOUS
  <2>2. IsFiniteSet(1 .. n) BY FS_Interval
  <2>3. slugs \in Surjection(1 .. n, keep) BY <2>1 DEF Surjection, Range
  <2> QED BY <2>2, <2>3, FS_Surjection, FS_CardinalityType
<1>2. ASSUME NEW st \in S \ D
      PROVE  /\ Walking(keep, st) /\ dfsStep(up, keep, st) \in S
             /\ \/ Left(st, dfsStep(up, keep, st)) \/ Passed(st, dfsStep(up, keep, st))
                \/ Met(st, dfsStep(up, keep, st)) \/ Opened(up, keep, st, dfsStep(up, keep, st))
  <2>1. st \in dfsStates(keep) /\ ~st.found /\ st.todo # <<>> OBVIOUS
  <2>2. st.todo \in Seq(Items(keep)) BY DEF dfsStates, Items
  <2>3. Walking(keep, st)
    <3>1. Len(st.todo) \in Nat /\ Len(st.todo) >= 1 BY <2>1, <2>2
    <3>2. \A m \in 1 .. Len(st.todo) : st.todo[m] \in Items(keep) BY <2>2
    <3>3. \A m \in 1 .. Len(st.todo) : st.todo[m].slug \in keep BY <3>2 DEF Items
    <3> QED BY <2>1, <3>1, <3>3 DEF Walking
  <2> HIDE DEF S, D
  <2>4. /\ dfsStep(up, keep, st) \in dfsStates(keep)
        /\ \/ Left(st, dfsStep(up, keep, st)) \/ Passed(st, dfsStep(up, keep, st))
           \/ Met(st, dfsStep(up, keep, st)) \/ Opened(up, keep, st, dfsStep(up, keep, st))
    BY <2>1, DfsSteps
  <2> QED BY <2>3, <2>4 DEF S
<1>3. \A st \in S \ D : step[st] \in S BY <1>2
<1>4. D \in SUBSET S OBVIOUS
<1>5. PICK g : IsLoop(g, S, D, step, res) /\ detectCycles(slugs, up, keep) = g[init]
  <2> DEFINE Eq(g) == g = [st \in S |-> IF st.found \/ st.todo = <<>> THEN st.found
                                        ELSE g[dfsStep(up, keep, st)]]
  <2>1. ASSUME NEW g, IsLoop(g, S, D, step, res) PROVE Eq(g)
    BY <2>1 DEF IsLoop
  <2>2. \E g : IsLoop(g, S, D, step, res)
    <3> HIDE DEF S, D, step, res
    <3> QED BY <1>3, <1>4, LoopDefined
  <2>3. \E g : Eq(g) BY <2>1, <2>2
  <2>4. PICK g : Eq(g) /\ detectCycles(slugs, up, keep) = g[init] BY <2>3 DEF detectCycles
  <2>5. IsLoop(g, S, D, step, res) BY <2>4 DEF IsLoop
  <2> QED BY <2>4, <2>5
<1>6. /\ a \in [S -> Nat] /\ b \in [S -> Nat]
      /\ \A st \in S \ D : a[step[st]] < a[st] \/ (a[step[st]] = a[st] /\ b[step[st]] < b[st])
  <2>1. \A st \in S : IsFiniteSet(White(st)) /\ Cardinality(White(st)) \in Nat
    <3>1. \A st \in S : White(st) \subseteq keep OBVIOUS
    <3> QED BY <1>1, <3>1, FS_Subset, FS_CardinalityType
  <2>2. \A st \in S : Len(st.todo) \in Nat
    <3>1. \A st \in S : st.todo \in Seq(Items(keep)) BY DEF dfsStates, Items
    <3> QED BY <3>1
  <2>3. ASSUME NEW st \in S \ D
        PROVE  a[step[st]] < a[st] \/ (a[step[st]] = a[st] /\ b[step[st]] < b[st])
    <3> DEFINE new == dfsStep(up, keep, st)
               s == st.todo[1].slug
    <3>1. /\ new \in S /\ step[st] = new /\ a[step[st]] = Cardinality(White(new))
          /\ a[st] = Cardinality(White(st)) /\ b[st] = Len(st.todo)
          /\ b[step[st]] = IF new.found THEN 0 ELSE Len(new.todo)
      BY <1>2
    <3>2. /\ Cardinality(White(new)) \in Nat /\ Cardinality(White(st)) \in Nat
          /\ IsFiniteSet(White(st)) /\ Len(st.todo) \in Nat /\ Len(new.todo) \in Nat
      BY <2>1, <2>2, <3>1
    <3>3. Walking(keep, st) /\ Len(st.todo) >= 1 /\ s \in keep
      <4>1. Walking(keep, st) BY <1>2
      <4> QED BY <4>1 DEF Walking
    <3>4. CASE Left(st, new) \/ Passed(st, new)
      <4>1. ~new.found /\ Len(new.todo) = Len(st.todo) - 1 BY <3>4 DEF Left, Passed, Popped
      <4>2. White(new) \subseteq White(st) BY <3>4 DEF Left, Passed
      <4>3. Cardinality(White(new)) <= Cardinality(White(st))
        <5> HIDE DEF White
        <5> QED BY <3>2, <4>2, FS_Subset
      <4> HIDE DEF a, b, step, White, new
      <4> QED BY <3>1, <3>2, <4>1, <4>3
    <3>5. CASE Met(st, new)
      <4>1. new.found /\ White(new) = White(st) BY <3>5 DEF Met
      <4> HIDE DEF a, b, step, White, new
      <4> QED BY <3>1, <3>2, <3>3, <4>1
    <3>6. CASE Opened(up, keep, st, new)
      <4>1. White(new) \subseteq White(st) /\ White(new) # White(st)
        <5>1. new.gray = st.gray \cup {s} /\ new.black = st.black /\ s \notin st.gray \cup st.black
          BY <3>6 DEF Opened
        <5>2. s \in White(st) /\ s \notin White(new) BY <3>3, <5>1
        <5> QED BY <5>1, <5>2
      <4>2. /\ Cardinality(White(new)) <= Cardinality(White(st))
            /\ Cardinality(White(new)) # Cardinality(White(st))
        <5> HIDE DEF White
        <5> QED BY <3>2, <4>1, FS_Subset
      <4> HIDE DEF a, b, step, White, new
      <4> QED BY <3>1, <3>2, <4>2
    <3> QED BY <1>2, <3>4, <3>5, <3>6
  <2> QED BY <2>1, <2>2, <2>3
<1>7. X \in SUBSET S /\ Invariant(X, D, step)
  <2> SUFFICES ASSUME NEW st \in X \ D PROVE step[st] \in X
    BY DEF Invariant
  <2> DEFINE new == dfsStep(up, keep, st)
  <2>1. st \in S \ D /\ DfsInv(up, keep, st) OBVIOUS
  <2>2. /\ Walking(keep, st) /\ new \in S /\ step[st] = new
        /\ \/ Left(st, new) \/ Passed(st, new) \/ Met(st, new) \/ Opened(up, keep, st, new)
    BY <1>2, <2>1
  <2>3. \A m \in 1 .. Len(new.todo) : new.todo[m].slug \in keep
    <3>1. new.todo \in Seq(Items(keep)) BY <2>2 DEF dfsStates, Items
    <3>2. \A m \in 1 .. Len(new.todo) : new.todo[m] \in Items(keep) BY <3>1
    <3> QED BY <3>2 DEF Items
  <2> HIDE DEF new, S, D, step
  <2>4. DfsInv(up, keep, new)
    BY <2>1, <2>2, <2>3, LeftKeeps, PassedKeeps, MetFinds, OpenedKeeps
  <2> QED BY <2>2, <2>4
<1>8. init \in X
  <2>1. /\ Entered(slugs) \in Seq(Items(keep)) /\ Len(Entered(slugs)) = Len(slugs)
        /\ \A i \in 1 .. Len(slugs) : Entered(slugs)[i].slug = slugs[i] /\ ~Entered(slugs)[i].leave
    BY EnteredFacts
  <2>2. init \in S BY <2>1 DEF dfsStates, Items
  <2>3. /\ init.todo = Entered(slugs) /\ init.gray = {} /\ init.black = {} /\ ~init.found
    OBVIOUS
  <2> HIDE DEF init
  <2>4. Marks(init) /\ Pending(up, keep, init) /\ Above(up, keep, init)
    BY <2>1, <2>3 DEF Marks, Pending, Above
  <2>5. Done(up, keep, init) BY <2>3 DEF Done, Acyclic
  <2>6. Covered(keep, init)
    <3>1. \A s \in keep : \E i \in 1 .. Len(slugs) : slugs[i] = s BY DEF Range
    <3> QED BY <2>1, <2>3, <3>1 DEF Covered
  <2>7. DfsInv(up, keep, init) BY <2>3, <2>4, <2>5, <2>6 DEF DfsInv
  <2> QED BY <2>2, <2>7
<1>9. PICK t \in X \cap D : g[init] = res[t]
  <2> HIDE DEF S, D, step, res, a, b, X, init
  <2>1. \A st \in X : \E t \in X \cap D : g[st] = res[t]
    <3>1. IsLoop(g, S, D, step, res) BY <1>5
    <3>2. a \in [S -> Nat] /\ b \in [S -> Nat] BY <1>6
    <3>3. \A st \in S \ D : a[step[st]] < a[st] \/ (a[step[st]] = a[st] /\ b[step[st]] < b[st])
      BY <1>6
    <3>4. X \in SUBSET S /\ Invariant(X, D, step) BY <1>7
    <3> QED BY <1>3, <1>4, <3>1, <3>2, <3>3, <3>4, LoopEnds, SMTT(60)
  <2> QED BY <1>8, <2>1
<1>10. t \in S /\ DfsInv(up, keep, t) /\ (t.found \/ t.todo = <<>>) /\ t.black \in SUBSET keep
  BY <1>9 DEF dfsStates
<1>11. detectCycles(slugs, up, keep) = t.found BY <1>5, <1>9
<1>12. CASE t.found
  <2>1. PICK s \in keep : Reaches(up, keep, s, s) BY <1>10, <1>12 DEF DfsInv
  <2>2. \E n \in 1 .. Cardinality(keep) : Walk(up, keep, s, s, n) BY <1>1, <2>1, ShortWalk
  <2> QED BY <1>11, <1>12, <2>2
<1>13. CASE ~t.found
  <2>1. Covered(keep, t) /\ Done(up, keep, t) /\ t.todo = <<>> BY <1>10, <1>13 DEF DfsInv
  <2>2. 1 .. Len(t.todo) = {} BY <2>1
  <2>3. keep = t.black BY <1>10, <2>1, <2>2 DEF Covered
  <2>4. Acyclic(up, keep) BY <2>1, <2>3 DEF Done
  <2>5. \A s \in keep : \A n \in Nat \ {0} : ~Walk(up, keep, s, s, n) BY <2>4, NoWalkBack
  <2>6. \A n \in 1 .. Cardinality(keep) : n \in Nat \ {0} BY <1>1
  <2> QED BY <1>11, <1>13, <2>5, <2>6
<1> QED BY <1>12, <1>13

\* Sorted, the numbers of a set are all there.
LEMMA AscendingFacts ==
    ASSUME NEW S, S \subseteq Nat, IsFiniteSet(S)
    PROVE  Ascending(S) \in Seq(S) /\ Range(Ascending(S)) = S
<1> DEFINE Upto(n) == {m \in S : m <= n}
           f == [n \in S |-> Cardinality(Upto(n))]
<1>1. PICK c \in Nat : c = Cardinality(S) BY FS_CardinalityType
<1>2. ASSUME NEW n \in S
      PROVE  IsFiniteSet(Upto(n)) /\ Cardinality(Upto(n)) \in 1 .. c
  <2>1. Upto(n) \subseteq S /\ n \in Upto(n) OBVIOUS
  <2> HIDE DEF Upto
  <2>2. IsFiniteSet(Upto(n)) /\ Cardinality(Upto(n)) <= c BY <1>1, <2>1, FS_Subset
  <2>3. Cardinality(Upto(n)) \in Nat /\ Cardinality(Upto(n)) # 0
    BY <2>1, <2>2, FS_CardinalityType, FS_EmptySet
  <2> QED BY <2>2, <2>3
<1>3. ASSUME NEW n \in S, NEW m \in S, n < m PROVE f[n] # f[m]
  <2>1. Upto(n) \subseteq Upto(m) /\ m \in Upto(m) /\ m \notin Upto(n)
    <3>1. n \in Nat /\ m \in Nat OBVIOUS
    <3>2. \A k \in S : k \in Nat /\ (k <= n => k <= m) BY <1>3, <3>1
    <3>3. m <= m /\ ~(m <= n) BY <1>3, <3>1
    <3> QED BY <3>2, <3>3
  <2>2. IsFiniteSet(Upto(m)) BY <1>2
  <2>3. f[n] = Cardinality(Upto(n)) /\ f[m] = Cardinality(Upto(m)) OBVIOUS
  <2> HIDE DEF Upto, f
  <2> QED BY <2>1, <2>2, <2>3, FS_Subset
<1>4. f \in [S -> 1 .. c] BY <1>2
<1>5. \A n, m \in S : f[n] = f[m] => n = m
  <2> HIDE DEF f
  <2> SUFFICES ASSUME NEW n \in S, NEW m \in S, f[n] = f[m] PROVE n = m OBVIOUS
  <2>1. ~(n < m) /\ ~(m < n) BY <1>3
  <2> QED BY <2>1
<1> DEFINE out == Ascending(S)
<1> DEFINE Nth(k) == CHOOSE n \in S : Cardinality({m \in S : m <= n}) = k
<1>6. out = [k \in 1 .. c |-> Nth(k)]
  BY <1>1 DEF Ascending
<1>7. \A n \in S : f[n] = Cardinality({m \in S : m <= n}) OBVIOUS
<1> HIDE DEF out, f
<1>8. f \in Surjection(S, 1 .. c)
  <2>1. f \in Injection(S, 1 .. c) BY <1>4, <1>5 DEF Injection, IsInjective
  <2>2. IsFiniteSet(1 .. c) /\ Cardinality(1 .. c) = c BY FS_Interval
  <2> QED BY <1>1, <2>1, <2>2, FS_Injection
<1>9. ASSUME NEW k \in 1 .. c PROVE out[k] \in S /\ f[out[k]] = k
  <2>1. PICK n \in S : f[n] = k BY <1>8 DEF Surjection
  <2>2. Cardinality({m \in S : m <= n}) = k BY <1>7, <2>1
  <2>3. out[k] = CHOOSE x \in S : Cardinality({m \in S : m <= x}) = k BY <1>6
  <2>4. out[k] \in S /\ Cardinality({m \in S : m <= out[k]}) = k BY <2>2, <2>3
  <2> QED BY <1>7, <2>4
<1>10. out = [k \in 1 .. c |-> out[k]]
  <2> HIDE DEF Nth
  <2> QED BY <1>6
<1>11. out \in Seq(S) /\ DOMAIN out = 1 .. c BY <1>9, <1>10, Tabled
<1>12. \A n \in S : f[n] \in 1 .. c /\ out[f[n]] = n BY <1>4, <1>5, <1>9
<1>13. Range(out) = S BY <1>9, <1>11, <1>12 DEF Range
<1> QED BY <1>11, <1>13 DEF out

\* Parents are loaded first, so that the last cycle check finds nothing.
LEMMA NoCycleFound ==
    ASSUME LoadInv
    PROVE  ~DetectCyclesGraph
<1> DEFINE keep == DOMAIN parentSlugs
           up == parentSlugs
<1>1. LoadTypes /\ GraphInv /\ EdgeInv BY DEF LoadInv
<1>2. /\ Ids \subseteq Nat /\ Len(regions) \in Nat
      /\ \A i \in Ids : regions[i].slug \in Nat
  BY <1>1, RegionFacts
<1>3. keep = {regions[i].slug : i \in Ids} BY <1>1 DEF EdgeInv
<1>4. keep \subseteq Nat BY <1>2, <1>3
<1>5. IsFiniteSet(keep)
  <2> DEFINE f == [i \in Ids |-> regions[i].slug]
  <2>1. f \in Surjection(Ids, keep) BY <1>3 DEF Surjection
  <2>2. IsFiniteSet(Ids) BY <1>2, FS_Interval DEF Ids
  <2> HIDE DEF f, keep
  <2> QED BY <2>1, <2>2, FS_Surjection
<1>6. \A s \in keep : up[s] \in Seq(Named) BY <1>1, <1>3 DEF EdgeInv
<1>7. Acyclic(up, keep)
  <2> SUFFICES ASSUME NEW Y \in SUBSET keep, Y # {}
               PROVE  \E y \in Y : Range(up[y]) \cap Y = {}
    BY DEF Acyclic
  <2> DEFINE A == {i \in Ids : regions[i].slug \in Y}
  <2>1. A \subseteq Nat /\ A # {} BY <1>2, <1>3
  <2>2. PICK i \in A : \A j \in A : i <= j BY <2>1, LeastNat
  <2> DEFINE y == regions[i].slug
  <2>3. y \in Y /\ i \in Ids OBVIOUS
  <2>4. ASSUME NEW x \in Range(up[y]) PROVE x \notin Y
    <3>1. /\ up[y] \in Seq(Named) /\ Len(up[y]) = Len(parents[i])
          /\ \A k \in 1 .. Len(parents[i]) : regions[parents[i][k]].slug = up[y][k]
      BY <1>1, <2>3 DEF EdgeInv
    <3>2. PICK k \in 1 .. Len(parents[i]) : x = up[y][k] BY <2>4, <3>1 DEF Range
    <3>3. parents[i][k] \in 1 .. i - 1 BY <1>1, <2>3, <3>2 DEF GraphInv
    <3>4. parents[i][k] \in Ids /\ ~(i <= parents[i][k])
      BY <1>2, <2>3, <3>3 DEF Ids
    <3>5. regions[parents[i][k]].slug \notin Y BY <2>2, <3>4
    <3> QED BY <3>1, <3>2, <3>5
  <2> QED BY <2>3, <2>4
<1> DEFINE slugs == Ascending(keep)
<1>8. slugs \in Seq(keep) /\ Range(slugs) = keep
  <2> HIDE DEF keep
  <2> QED BY <1>4, <1>5, AscendingFacts
<1>9. DetectCyclesGraph = detectCycles(slugs, up, keep) BY DEF DetectCyclesGraph
<1> HIDE DEF slugs, keep, up
<1>10. detectCycles(slugs, up, keep)
           <=> \E s \in keep : \E n \in 1 .. Cardinality(keep) : Walk(up, keep, s, s, n)
  BY <1>6, <1>8, CyclesFound
<1>11. \A s \in keep : \A n \in Nat \ {0} : ~Walk(up, keep, s, s, n) BY <1>7, NoWalkBack
<1>12. Cardinality(keep) \in Nat BY <1>5, FS_CardinalityType
<1>13. \A n \in 1 .. Cardinality(keep) : n \in Nat \ {0} BY <1>12
<1> QED BY <1>9, <1>10, <1>11, <1>13

\* Every step of the load keeps the invariant.
LEMMA LoadNext == LoadInv /\ [Next]_rsvars => LoadInv'
<1> SUFFICES ASSUME LoadInv, [Next]_rsvars PROVE LoadInv' OBVIOUS
<1>1. ASSUME NEW n \in 1 .. MaxFile, NEW entries \in [1 .. n -> Entries], ReadFile(entries)
      PROVE  LoadInv'
  BY <1>1, ReadFileKeeps
<1>2. CASE CheckFile
  <2>1. CASE Fail("cycle in file") BY <2>1, FailKeeps
  <2>2. CASE phase' = "regions" /\ UNCHANGED <<failure, loadVars, storeVars>>
    BY <2>2, MoveOnKeeps
  <2> QED BY <1>2, <2>1, <2>2 DEF CheckFile
<1>3. CASE LoadRegion
  <2>1. CASE Fail("duplicate") \/ Fail("unknown parent") BY <2>1, FailKeeps
  <2>2. CASE /\ IdOf(Head(file).slug) = 0 /\ \A p \in Range(Head(file).parents) : IdOf(p) # 0
             /\ AddRegion(Head(file))
    BY <1>3, <2>2, AddRegionKeeps DEF LoadRegion
  <2> QED BY <1>3, <2>1, <2>2 DEF LoadRegion
<1>4. CASE RegionsDone
  <2>1. phase' = "rollups" /\ UNCHANGED <<failure, loadVars, storeVars>>
    BY <1>4, NoCycleFound DEF RegionsDone
  <2> QED BY <2>1, MoveOnKeeps
<1>5. CASE AddRollupState BY <1>5, AddRollupStateKeeps
<1>6. CASE RollupsDone BY <1>6, MoveOnKeeps DEF RollupsDone
<1>7. ASSUME NEW r \in Rows, NEW s \in Slugs \cup {Unknown}, AddPostalCode(r, s) PROVE LoadInv'
  BY <1>7, AddPostalCodeKeeps
<1>8. CASE PostalDone BY <1>8, MoveOnKeeps DEF PostalDone
<1>9. ASSUME NEW l \in OrgSlugLists, AddOrg(l) PROVE LoadInv'
  BY <1>9, AddOrgKeeps
<1>10. CASE CheckLeaves
  <2>1. CASE Fail("orphan leaf") BY <2>1, FailKeeps
  <2>2. CASE Orphans = {} /\ phase' = "ready" /\ UNCHANGED <<failure, loadVars, storeVars>>
    <3> USE DEF loadVars, storeVars
    <3>1. LoadTypes' BY <2>2 DEF LoadInv, LoadTypes
    <3>2. GraphInv' /\ EdgeInv' BY <2>2, GraphUnchanged
    <3>3. StoreInv' BY <2>2, StoreUnchanged
    <3>4. Orphans' = Orphans BY <2>2 DEF Orphans, Ids, HasChildren
    <3>5. EndInv' BY <2>2, <3>4 DEF EndInv, LoadInv
    <3> QED BY <3>1, <3>2, <3>3, <3>5 DEF LoadInv
  <2> QED BY <1>10, <2>1, <2>2 DEF CheckLeaves
<1>11. CASE ReadError BY <1>11, FailKeeps DEF ReadError
<1>12. CASE UNCHANGED rsvars
  <2> USE DEF rsvars, loadVars, storeVars
  <2>1. LoadTypes' BY <1>12 DEF LoadInv, LoadTypes
  <2>2. GraphInv' /\ EdgeInv' BY <1>12, GraphUnchanged
  <2>3. StoreInv' BY <1>12, StoreUnchanged
  <2>4. Orphans' = Orphans BY <1>12 DEF Orphans, Ids, HasChildren
  <2>5. EndInv' BY <1>12, <2>4 DEF EndInv, LoadInv
  <2> QED BY <2>1, <2>2, <2>3, <2>5 DEF LoadInv
<1> QED
  BY <1>1, <1>2, <1>3, <1>4, <1>5, <1>6, <1>7, <1>8, <1>9, <1>10, <1>11, <1>12 DEF Next

\* A file is refused if and only if its own edges form a cycle, and the whole
\* graph never.
LEMMA CyclesExact == LoadInv => CycleCheckExact
<1> SUFFICES ASSUME LoadInv PROVE CycleCheckExact OBVIOUS
<1> DEFINE slugs == FileSlugs(file)
           keep == Range(slugs)
           up == FileParents(file)
<1>1. file \in Seq(FileRegion) BY DEF LoadInv, LoadTypes
<1>2. PICK n \in Nat : n = Len(file) BY <1>1
<1>3. \A i \in 1 .. n : file[i] \in FileRegion BY <1>1, <1>2
<1>4. slugs = [i \in 1 .. n |-> file[i].slug] BY <1>2 DEF FileSlugs
<1>5. slugs \in Seq(keep) /\ DOMAIN slugs = 1 .. n
  <2>1. \A i \in 1 .. n : slugs[i] \in keep BY <1>4 DEF Range
  <2>2. slugs = [i \in 1 .. n |-> slugs[i]] BY <1>4
  <2> HIDE DEF slugs, keep
  <2> QED BY <2>1, <2>2, Tabled
<1>6. ASSUME NEW s \in keep PROVE up[s] \in Seq(Named)
  <2>1. \E i \in 1 .. n : file[i].slug = s BY <1>4, <1>5 DEF Range
  <2> DEFINE i == CHOOSE i \in 1 .. n : file[i].slug = s
  <2>2. i \in 1 .. n BY <2>1
  <2>3. up[s] = file[i].parents BY <1>2 DEF FileParents
  <2> HIDE DEF i, up
  <2>4. file[i] \in FileRegion BY <1>3, <2>2
  <2>5. file[i].parents \in Seq(Named) BY <2>4 DEF FileRegion
  <2> QED BY <2>3, <2>5
<1>7. DetectCycles(file) = detectCycles(slugs, up, keep) BY DEF DetectCycles
<1>8. failure # "cycle in graph" BY DEF LoadInv, EndInv
<1> HIDE DEF slugs, keep, up
<1>9. detectCycles(slugs, up, keep)
          <=> \E s \in keep : \E m \in 1 .. Cardinality(keep) : Walk(up, keep, s, s, m)
  BY <1>5, <1>6, CyclesFound DEF keep
<1> QED BY <1>7, <1>8, <1>9 DEF CycleCheckExact, slugs, keep, up

-----------------------------------------------------------------------------
(* The walks over the graph.                                               *)

\* A set of regions that a walk along adj does not leave; it stops at national
\* regions.
Closed(X, adj) == \A i \in X : ~IsNational(i) => Range(adj[i]) \subseteq X

\* The regions a walk along adj meets.
Reach(start, adj) ==
    {j \in Ids : \A X \in SUBSET Ids : start \in X /\ Closed(X, adj) => j \in X}

\* adj lists regions for each region.
Edges(adj) == \A i \in Ids : adj[i] \in Seq(Ids) /\ Range(adj[i]) \subseteq Ids

\* rev has the edges of adj, turned around.
Reversed(adj, rev) == \A x, y \in Ids : y \in Range(adj[x]) <=> x \in Range(rev[y])

\* What a walk meets is the least closed set with its start.
LEMMA ReachFacts ==
    ASSUME NEW adj, Edges(adj), NEW i \in Ids
    PROVE  /\ i \in Reach(i, adj) /\ Reach(i, adj) \subseteq Ids /\ Closed(Reach(i, adj), adj)
           /\ \A X \in SUBSET Ids : i \in X /\ Closed(X, adj) => Reach(i, adj) \subseteq X
           /\ \A j \in Reach(i, adj) : Reach(j, adj) \subseteq Reach(i, adj)
           /\ \A j \in Reach(i, adj) :
                 j = i \/ \E k \in Reach(i, adj) : ~IsNational(k) /\ j \in Range(adj[k])
           /\ IsNational(i) => Reach(i, adj) = {i}
<1>1. i \in Reach(i, adj) /\ Reach(i, adj) \subseteq Ids BY DEF Reach
<1>2. Closed(Reach(i, adj), adj)
  <2> SUFFICES ASSUME NEW k \in Reach(i, adj), ~IsNational(k), NEW j \in Range(adj[k]),
                      NEW X \in SUBSET Ids, i \in X, Closed(X, adj)
               PROVE  j \in X /\ j \in Ids
    BY <1>1 DEF Closed, Reach, Edges
  <2>1. k \in X /\ k \in Ids BY DEF Reach
  <2> QED BY <2>1 DEF Closed, Edges
<1>3. \A X \in SUBSET Ids : i \in X /\ Closed(X, adj) => Reach(i, adj) \subseteq X BY DEF Reach
<1>4. ASSUME NEW j \in Reach(i, adj) PROVE Reach(j, adj) \subseteq Reach(i, adj)
  BY <1>1, <1>2 DEF Reach
<1>5. ASSUME NEW j \in Reach(i, adj), j # i,
             ~\E k \in Reach(i, adj) : ~IsNational(k) /\ j \in Range(adj[k])
      PROVE  FALSE
  <2> DEFINE X == Reach(i, adj) \ {j}
  <2>1. X \in SUBSET Ids /\ i \in X BY <1>1, <1>5
  <2>2. Closed(X, adj) BY <1>2, <1>5 DEF Closed
  <2>3. j \in X
    <3> HIDE DEF X
    <3> QED BY <1>3, <2>1, <2>2
  <2> QED BY <2>3
<1>6. ASSUME IsNational(i) PROVE Reach(i, adj) = {i}
  <2>1. {i} \in SUBSET Ids /\ Closed({i}, adj) BY <1>6 DEF Closed
  <2> QED BY <1>1, <1>3, <2>1
<1> QED BY <1>1, <1>2, <1>3, <1>4, <1>5, <1>6

\* Walked backwards, a way between two regions is a way.
LEMMA ReachMirror ==
    ASSUME NEW adj, NEW rev, Edges(adj), Edges(rev), Reversed(adj, rev),
           NEW i \in Ids, NEW j \in Ids, ~IsNational(i), ~IsNational(j), i \in Reach(j, adj)
    PROVE  j \in Reach(i, rev)
<1> SUFFICES ASSUME NEW X \in SUBSET Ids, i \in X, Closed(X, rev), j \notin X PROVE FALSE
  BY DEF Reach
<1> DEFINE Y == {k \in Ids : k \notin X \/ IsNational(k)}
<1>1. Y \in SUBSET Ids /\ j \in Y OBVIOUS
<1>2. Closed(Y, adj)
  <2> SUFFICES ASSUME NEW k \in Y, ~IsNational(k), NEW p \in Range(adj[k]) PROVE p \in Y
    BY DEF Closed
  <2>1. k \in Ids /\ k \notin X /\ p \in Ids BY DEF Edges
  <2>2. k \in Range(rev[p]) BY <2>1 DEF Reversed
  <2> QED BY <2>1, <2>2 DEF Closed
<1>3. i \in Y
  <2> HIDE DEF Y
  <2> QED BY <1>1, <1>2 DEF Reach
<1> QED BY <1>3

\* The first element of a sequence and the others.
LEMMA HeadTailFacts ==
    ASSUME NEW T, NEW s \in Seq(T), s # <<>>
    PROVE  /\ Head(s) \in T /\ Head(s) = s[1] /\ Tail(s) \in Seq(T)
           /\ Len(s) \in Nat /\ Len(s) >= 1 /\ Len(Tail(s)) = Len(s) - 1
           /\ Range(s) = {Head(s)} \cup Range(Tail(s))
<1>1. PICK n \in Nat : n = Len(s) OBVIOUS
<1>2. /\ n >= 1 /\ Head(s) = s[1] /\ Tail(s) \in Seq(T) /\ Len(Tail(s)) = n - 1
      /\ \A k \in 1 .. n - 1 : Tail(s)[k] = s[k + 1]
  BY <1>1
<1>3. Head(s) \in T /\ DOMAIN s = 1 .. n BY <1>1, <1>2
<1> DEFINE t == Tail(s)
<1>4. DOMAIN t = 1 .. n - 1 /\ \A k \in 1 .. n - 1 : t[k] = s[k + 1] BY <1>2
<1> HIDE DEF t
<1>5. ASSUME NEW k \in 1 .. n PROVE s[k] = s[1] \/ \E m \in 1 .. n - 1 : t[m] = s[k]
  <2>1. CASE k = 1 BY <2>1
  <2>2. CASE k # 1
    <3>1. k - 1 \in 1 .. n - 1 /\ k - 1 + 1 = k BY <2>2
    <3>2. t[k - 1] = s[k] BY <1>4, <3>1
    <3> QED BY <3>1, <3>2
  <2> QED BY <2>1, <2>2
<1>6. \A m \in 1 .. n - 1 : m + 1 \in 1 .. n /\ t[m] = s[m + 1] BY <1>4
<1>7. 1 \in 1 .. n BY <1>2
<1>8. Range(s) = {s[1]} \cup Range(t)
  <2>1. Range(s) = {s[k] : k \in 1 .. n} /\ Range(t) = {t[k] : k \in 1 .. n - 1}
    BY <1>3, <1>4 DEF Range
  <2>2. {s[k] : k \in 1 .. n} \subseteq {s[1]} \cup {t[k] : k \in 1 .. n - 1} BY <1>5
  <2>3. {t[k] : k \in 1 .. n - 1} \subseteq {s[k] : k \in 1 .. n} BY <1>6
  <2> QED BY <1>7, <2>1, <2>2, <2>3
<1> QED BY <1>1, <1>2, <1>3, <1>8 DEF t

\* A sequence and one more element.
LEMMA AppendFacts ==
    ASSUME NEW T, NEW s \in Seq(T), NEW e \in T
    PROVE  Append(s, e) \in Seq(T) /\ Range(Append(s, e)) = Range(s) \cup {e}
<1>1. PICK n \in Nat : n = Len(s) OBVIOUS
<1> DEFINE t == Append(s, e)
<1>2. /\ t \in Seq(T) /\ DOMAIN t = 1 .. n + 1 /\ t[n + 1] = e /\ DOMAIN s = 1 .. n
      /\ \A k \in 1 .. n : t[k] = s[k]
  BY <1>1
<1> HIDE DEF t
<1>3. /\ n + 1 \in 1 .. n + 1 /\ \A k \in 1 .. n : k \in 1 .. n + 1
      /\ \A k \in 1 .. n + 1 : k = n + 1 \/ k \in 1 .. n
  OBVIOUS
<1>4. Range(t) = Range(s) \cup {e} BY <1>2, <1>3 DEF Range
<1> QED BY <1>2, <1>4 DEF t

\* What a walk has collected, and what it still has to visit.
BfsInv(start, adj, st) ==
    /\ start \in st.visited \cup Range(st.queue)
    /\ Range(st.out) = {i \in st.visited : ~IsNational(i)}
    /\ \A i \in st.visited : ~IsNational(i) => Range(adj[i]) \subseteq st.visited \cup Range(st.queue)
    /\ st.visited \cup Range(st.queue) \subseteq Reach(start, adj)

\* A turn of the walk skips a region, stops at it or collects it.
LEMMA BfsSteps ==
    ASSUME NEW adj, Edges(adj), NEW st \in bfsStates, st.queue # <<>>
    PROVE  LET new == bfsStep(adj, st)
               id  == Head(st.queue)
           IN  /\ new \in bfsStates
               /\ id \in Ids /\ Range(st.queue) = {id} \cup Range(Tail(st.queue))
               /\ Len(st.queue) \in Nat /\ Len(new.queue) \in Nat
               /\ \/ /\ id \in st.visited /\ new.visited = st.visited /\ new.out = st.out
                     /\ new.queue = Tail(st.queue) /\ Len(new.queue) < Len(st.queue)
                  \/ /\ id \notin st.visited /\ IsNational(id)
                     /\ new.visited = st.visited \cup {id} /\ new.out = st.out
                     /\ new.queue = Tail(st.queue)
                  \/ /\ id \notin st.visited /\ ~IsNational(id)
                     /\ new.visited = st.visited \cup {id} /\ new.out = Append(st.out, id)
                     /\ Range(new.out) = Range(st.out) \cup {id}
                     /\ new.queue = Tail(st.queue) \o adj[id]
                     /\ Range(new.queue) = Range(Tail(st.queue)) \cup Range(adj[id])
<1> DEFINE new == bfsStep(adj, st)
           queue == st.queue
           id == Head(queue)
           rest == Tail(queue)
<1>1. st \in [queue : Seq(Ids), visited : SUBSET Ids, out : Seq(Ids)] BY DEF bfsStates
<1>2. /\ queue \in Seq(Ids) /\ queue # <<>> /\ st.visited \in SUBSET Ids /\ st.out \in Seq(Ids)
  BY <1>1
<1>3. new = IF id \in st.visited THEN [st EXCEPT !.queue = rest]
            ELSE IF IsNational(id) THEN [st EXCEPT !.queue = rest, !.visited = @ \cup {id}]
            ELSE [queue |-> rest \o adj[id], visited |-> st.visited \cup {id},
                  out |-> Append(st.out, id)]
  BY DEF bfsStep
<1> HIDE DEF new, queue
<1>4. /\ id \in Ids /\ rest \in Seq(Ids) /\ Len(queue) \in Nat /\ Len(queue) >= 1
      /\ Len(rest) = Len(queue) - 1 /\ Range(queue) = {id} \cup Range(rest)
  BY <1>2, HeadTailFacts
<1> HIDE DEF id, rest
<1>5. Len(rest) \in Nat /\ Len(rest) < Len(queue) BY <1>4
<1>6. CASE id \in st.visited
  <2>1. new = [st EXCEPT !.queue = rest] BY <1>3, <1>6
  <2>2. new.queue = rest /\ new.visited = st.visited /\ new.out = st.out BY <1>1, <2>1
  <2>3. new \in bfsStates BY <1>1, <1>4, <2>1 DEF bfsStates
  <2> QED BY <1>4, <1>5, <1>6, <2>2, <2>3 DEF new, queue, id, rest
<1>7. CASE id \notin st.visited /\ IsNational(id)
  <2>1. new = [st EXCEPT !.queue = rest, !.visited = @ \cup {id}] BY <1>3, <1>7
  <2>2. new.queue = rest /\ new.visited = st.visited \cup {id} /\ new.out = st.out
    BY <1>1, <2>1
  <2>3. new \in bfsStates BY <1>1, <1>4, <2>1 DEF bfsStates
  <2> QED BY <1>4, <1>5, <1>7, <2>2, <2>3 DEF new, queue, id, rest
<1>8. CASE id \notin st.visited /\ ~IsNational(id)
  <2>1. new = [queue |-> rest \o adj[id], visited |-> st.visited \cup {id},
               out |-> Append(st.out, id)]
    BY <1>3, <1>8
  <2>2. new.queue = rest \o adj[id] /\ new.visited = st.visited \cup {id}
        /\ new.out = Append(st.out, id)
    BY <2>1
  <2>3. adj[id] \in Seq(Ids) BY <1>4 DEF Edges
  <2>4. rest \o adj[id] \in Seq(Ids) /\ Range(rest \o adj[id]) = Range(rest) \cup Range(adj[id])
    BY <1>4, <2>3, Joined
  <2>5. Append(st.out, id) \in Seq(Ids) /\ Range(Append(st.out, id)) = Range(st.out) \cup {id}
    BY <1>2, <1>4, AppendFacts
  <2>6. new \in bfsStates /\ Len(new.queue) \in Nat BY <1>2, <1>4, <2>1, <2>2, <2>4, <2>5 DEF bfsStates
  <2> QED BY <1>4, <1>5, <1>8, <2>2, <2>4, <2>5, <2>6 DEF new, queue, id, rest
<1> QED BY <1>6, <1>7, <1>8

\* The walk ends in a state that satisfies each of its invariants.
LEMMA BfsLoop ==
    ASSUME NEW adj, Edges(adj), NEW start \in Ids, IsFiniteSet(Ids),
           NEW X \in SUBSET bfsStates,
           [queue |-> <<start>>, visited |-> {}, out |-> <<>>] \in X,
           \A st \in X : st.queue # <<>> => bfsStep(adj, st) \in X
    PROVE  \E t \in X : t.queue = <<>> /\ bfsCollectIDs(start, adj) = t.out
<1> DEFINE S == bfsStates
           D == {st \in S : st.queue = <<>>}
           step == [st \in S |-> bfsStep(adj, st)]
           res == [st \in S |-> st.out]
           a == [st \in S |-> Cardinality(Ids \ st.visited)]
           b == [st \in S |-> Len(st.queue)]
           init == [queue |-> <<start>>, visited |-> {}, out |-> <<>>]
<1>1. ASSUME NEW st \in S \ D
      PROVE  LET new == bfsStep(adj, st)
                 id  == Head(st.queue)
             IN  /\ new \in S
                 /\ id \in Ids /\ Range(st.queue) = {id} \cup Range(Tail(st.queue))
                 /\ Len(st.queue) \in Nat /\ Len(new.queue) \in Nat
                 /\ \/ /\ id \in st.visited /\ new.visited = st.visited /\ new.out = st.out
                       /\ new.queue = Tail(st.queue) /\ Len(new.queue) < Len(st.queue)
                    \/ /\ id \notin st.visited /\ IsNational(id)
                       /\ new.visited = st.visited \cup {id} /\ new.out = st.out
                       /\ new.queue = Tail(st.queue)
                    \/ /\ id \notin st.visited /\ ~IsNational(id)
                       /\ new.visited = st.visited \cup {id} /\ new.out = Append(st.out, id)
                       /\ Range(new.out) = Range(st.out) \cup {id}
                       /\ new.queue = Tail(st.queue) \o adj[id]
                       /\ Range(new.queue) = Range(Tail(st.queue)) \cup Range(adj[id])
  <2>1. st \in bfsStates /\ st.queue # <<>> OBVIOUS
  <2> QED BY <2>1, BfsSteps
<1>2. \A st \in S \ D : step[st] \in S
  <2> SUFFICES ASSUME NEW st \in S \ D PROVE step[st] \in S OBVIOUS
  <2>1. bfsStep(adj, st) \in S BY <1>1
  <2> QED BY <2>1
<1>3. D \in SUBSET S OBVIOUS
<1>4. PICK g : IsLoop(g, S, D, step, res) /\ bfsCollectIDs(start, adj) = g[init]
  <2> DEFINE Eq(g) == g = [st \in S |-> IF st.queue = <<>> THEN st.out ELSE g[bfsStep(adj, st)]]
  <2>1. ASSUME NEW g, IsLoop(g, S, D, step, res) PROVE Eq(g)
    BY <2>1 DEF IsLoop
  <2>2. \E g : IsLoop(g, S, D, step, res)
    <3> HIDE DEF S, D, step, res
    <3> QED BY <1>2, <1>3, LoopDefined
  <2>3. \E g : Eq(g) BY <2>1, <2>2
  <2>4. PICK g : Eq(g) /\ bfsCollectIDs(start, adj) = g[init] BY <2>3 DEF bfsCollectIDs
  <2>5. IsLoop(g, S, D, step, res) BY <2>4 DEF IsLoop
  <2> QED BY <2>4, <2>5
<1>5. /\ a \in [S -> Nat] /\ b \in [S -> Nat]
      /\ \A st \in S \ D : a[step[st]] < a[st] \/ (a[step[st]] = a[st] /\ b[step[st]] < b[st])
  <2>1. \A Y \in SUBSET Ids : IsFiniteSet(Y) /\ Cardinality(Y) \in Nat
    BY FS_Subset, FS_CardinalityType
  <2>2. a \in [S -> Nat] BY <2>1
  <2>3. b \in [S -> Nat]
    <3>1. \A st \in S : st.queue \in Seq(Ids) BY DEF bfsStates
    <3> QED BY <3>1
  <2>4. ASSUME NEW st \in S \ D
        PROVE  a[step[st]] < a[st] \/ (a[step[st]] = a[st] /\ b[step[st]] < b[st])
    <3> DEFINE new == bfsStep(adj, st)
               id == Head(st.queue)
    <3>1. /\ new \in S /\ id \in Ids
          /\ \/ id \in st.visited /\ new.visited = st.visited /\ Len(new.queue) < Len(st.queue)
             \/ id \notin st.visited /\ new.visited = st.visited \cup {id}
      BY <1>1
    <3>2. /\ a[step[st]] = Cardinality(Ids \ new.visited) /\ a[st] = Cardinality(Ids \ st.visited)
          /\ b[step[st]] = Len(new.queue) /\ b[st] = Len(st.queue)
      BY <3>1
    <3> HIDE DEF new, id, a, b, step
    <3>3. CASE new.visited = st.visited /\ Len(new.queue) < Len(st.queue) BY <3>2, <3>3
    <3>4. CASE id \notin st.visited /\ new.visited = st.visited \cup {id}
      <4> DEFINE U == Ids \ st.visited
                 V == Ids \ new.visited
      <4>1. V \subseteq U /\ V # U /\ IsFiniteSet(U) /\ Cardinality(U) \in Nat
            /\ Cardinality(V) \in Nat
        <5>1. id \in U /\ id \notin V /\ V \subseteq U BY <3>1, <3>4
        <5>2. U \in SUBSET Ids /\ V \in SUBSET Ids OBVIOUS
        <5> QED BY <2>1, <5>1, <5>2
      <4>2. a[step[st]] = Cardinality(V) /\ a[st] = Cardinality(U) BY <3>2
      <4> HIDE DEF U, V
      <4>3. Cardinality(V) <= Cardinality(U) /\ Cardinality(V) # Cardinality(U)
        BY <4>1, FS_Subset
      <4> QED BY <4>1, <4>2, <4>3
    <3> QED BY <3>1, <3>3, <3>4
  <2> QED BY <2>2, <2>3, <2>4
<1>6. Invariant(X, D, step) BY DEF Invariant
<1>7. PICK t \in X \cap D : g[init] = res[t]
  <2> HIDE DEF S, D, step, res, a, b, init
  <2>1. \A st \in X : \E t \in X \cap D : g[st] = res[t]
    <3>1. IsLoop(g, S, D, step, res) BY <1>4
    <3>2. a \in [S -> Nat] /\ b \in [S -> Nat] BY <1>5
    <3>3. \A st \in S \ D : a[step[st]] < a[st] \/ (a[step[st]] = a[st] /\ b[step[st]] < b[st])
      BY <1>5
    <3>4. X \in SUBSET S /\ Invariant(X, D, step) BY <1>6 DEF S
    <3> QED BY <1>2, <1>3, <3>1, <3>2, <3>3, <3>4, LoopEnds, SMTT(60)
  <2> QED BY <2>1 DEF init
<1> QED BY <1>4, <1>7

\* A turn of the walk keeps what it has collected and what it has to visit.
LEMMA BfsKeeps ==
    ASSUME NEW adj, Edges(adj), NEW start \in Ids, NEW st \in bfsStates,
           BfsInv(start, adj, st), st.queue # <<>>
    PROVE  bfsStep(adj, st) \in bfsStates /\ BfsInv(start, adj, bfsStep(adj, st))
<1> DEFINE new == bfsStep(adj, st)
           id == Head(st.queue)
           rest == Tail(st.queue)
<1>1. /\ new \in bfsStates /\ id \in Ids /\ Range(st.queue) = {id} \cup Range(rest)
      /\ \/ /\ id \in st.visited /\ new.visited = st.visited /\ new.out = st.out
            /\ new.queue = rest
         \/ /\ id \notin st.visited /\ IsNational(id)
            /\ new.visited = st.visited \cup {id} /\ new.out = st.out /\ new.queue = rest
         \/ /\ id \notin st.visited /\ ~IsNational(id) /\ new.visited = st.visited \cup {id}
            /\ Range(new.out) = Range(st.out) \cup {id}
            /\ Range(new.queue) = Range(rest) \cup Range(adj[id])
  BY BfsSteps
<1> HIDE DEF new, id, rest
<1>2. BfsInv(start, adj, new)
  <2>1. /\ start \in st.visited \cup Range(st.queue)
        /\ Range(st.out) = {i \in st.visited : ~IsNational(i)}
        /\ \A i \in st.visited :
              ~IsNational(i) => Range(adj[i]) \subseteq st.visited \cup Range(st.queue)
        /\ st.visited \cup Range(st.queue) \subseteq Reach(start, adj)
    BY DEF BfsInv
  <2>2. CASE id \in st.visited /\ new.visited = st.visited /\ new.out = st.out
             /\ new.queue = rest
    BY <1>1, <2>1, <2>2 DEF BfsInv
  <2>3. CASE /\ IsNational(id) /\ new.visited = st.visited \cup {id} /\ new.out = st.out
             /\ new.queue = rest
    BY <1>1, <2>1, <2>3 DEF BfsInv
  <2>4. CASE /\ ~IsNational(id) /\ new.visited = st.visited \cup {id}
             /\ Range(new.out) = Range(st.out) \cup {id}
             /\ Range(new.queue) = Range(rest) \cup Range(adj[id])
    <3>1. Range(adj[id]) \subseteq Reach(start, adj)
      <4>1. Closed(Reach(start, adj), adj) BY ReachFacts
      <4>2. id \in Reach(start, adj) BY <1>1, <2>1
      <4> QED BY <2>4, <4>1, <4>2 DEF Closed
    <3>2. start \in new.visited \cup Range(new.queue) BY <1>1, <2>1, <2>4
    <3>3. Range(new.out) = {i \in new.visited : ~IsNational(i)} BY <2>1, <2>4
    <3>4. \A i \in new.visited :
              ~IsNational(i) => Range(adj[i]) \subseteq new.visited \cup Range(new.queue)
      BY <1>1, <2>1, <2>4
    <3>5. new.visited \cup Range(new.queue) \subseteq Reach(start, adj)
      BY <1>1, <2>1, <2>4, <3>1
    <3> QED BY <3>2, <3>3, <3>4, <3>5 DEF BfsInv
  <2> QED BY <1>1, <2>2, <2>3, <2>4
<1> QED BY <1>1, <1>2 DEF new

\* The walk collects what it can reach, but for national regions.
LEMMA BfsCollects ==
    ASSUME NEW adj, Edges(adj), NEW start \in Ids, IsFiniteSet(Ids)
    PROVE  /\ bfsCollectIDs(start, adj) \in Seq(Ids)
           /\ Range(bfsCollectIDs(start, adj)) = {j \in Reach(start, adj) : ~IsNational(j)}
<1> DEFINE X == {st \in bfsStates : BfsInv(start, adj, st)}
           init == [queue |-> <<start>>, visited |-> {}, out |-> <<>>]
<1>1. ASSUME NEW st \in X, st.queue # <<>> PROVE bfsStep(adj, st) \in X
  BY <1>1, BfsKeeps
<1>2. Range(<<>>) = {}
  BY DEF Range
<1>3. init \in X
  <2>1. init \in bfsStates BY DEF bfsStates
  <2>2. init.queue = <<start>> /\ init.visited = {} /\ init.out = <<>> OBVIOUS
  <2>3. Range(<<start>>) = {start} BY DEF Range
  <2>4. start \in Reach(start, adj) BY ReachFacts
  <2> HIDE DEF init
  <2>5. BfsInv(start, adj, init) BY <1>2, <2>2, <2>3, <2>4 DEF BfsInv
  <2> QED BY <2>1, <2>5
<1>4. PICK t \in X : t.queue = <<>> /\ bfsCollectIDs(start, adj) = t.out
  <2>1. X \in SUBSET bfsStates OBVIOUS
  <2> HIDE DEF X
  <2> QED BY <1>1, <1>3, <2>1, BfsLoop
<1>5. /\ BfsInv(start, adj, t) /\ t.queue = <<>> /\ t.visited \in SUBSET Ids /\ t.out \in Seq(Ids)
  BY <1>4 DEF bfsStates
<1>6. t.visited = Reach(start, adj)
  <2>1. Range(t.queue) = {} BY <1>2, <1>5
  <2>2. start \in t.visited /\ Closed(t.visited, adj) BY <1>5, <2>1 DEF BfsInv, Closed
  <2>3. Reach(start, adj) \subseteq t.visited BY <1>5, <2>2, ReachFacts
  <2> QED BY <1>5, <2>3 DEF BfsInv
<1> QED BY <1>4, <1>5, <1>6 DEF BfsInv

\* The graph that the loader leaves, and its children.
LEMMA GraphEdges ==
    ASSUME LoadInv
    PROVE  /\ Edges(parents) /\ Edges(childrenOf) /\ Reversed(parents, childrenOf)
           /\ Reversed(childrenOf, parents) /\ IsFiniteSet(Ids)
           /\ \A i, j \in Ids : i \in Range(parents[j]) => i < j
<1>1. LoadTypes /\ GraphInv BY DEF LoadInv
<1>2. Len(regions) \in Nat /\ Ids \subseteq Nat /\ IsFiniteSet(Ids)
  BY <1>1, RegionFacts, FS_Interval DEF Ids
<1>3. ASSUME NEW i \in Ids
      PROVE  parents[i] \in Seq(Ids) /\ \A j \in Range(parents[i]) : j \in Ids /\ j < i
  <2>1. parents[i] \in Seq(Nat) BY <1>1 DEF GraphInv, Ids
  <2>2. Len(parents[i]) \in Nat /\ DOMAIN parents[i] = 1 .. Len(parents[i])
        /\ parents[i] = [k \in 1 .. Len(parents[i]) |-> parents[i][k]]
    BY <2>1
  <2>3. ASSUME NEW k \in 1 .. Len(parents[i]) PROVE parents[i][k] \in Ids /\ parents[i][k] < i
    <3>1. parents[i][k] \in 1 .. i - 1 BY <1>1 DEF GraphInv
    <3> QED BY <1>2, <3>1 DEF Ids
  <2>4. parents[i] \in Seq(Ids) BY <2>2, <2>3, Tabled
  <2> QED BY <2>2, <2>3, <2>4 DEF Range
<1>4. ASSUME NEW p \in Ids
      PROVE  /\ childrenOf[p] \in Seq(Ids)
             /\ Range(childrenOf[p]) = {c \in Ids : p \in Range(parents[c])}
  <2> DEFINE s == [i \in Ids |-> i]
             keep == {c \in Ids : p \in Range(parents[c])}
  <2>1. childrenOf[p] = Picked(s, keep) BY DEF childrenOf
  <2>2. PICK n \in Nat : n = Len(regions) /\ Ids = 1 .. n BY <1>2 DEF Ids
  <2>3. s \in Seq(Ids) /\ Len(s) = n
    <3>1. \A k \in 1 .. n : s[k] \in Ids BY <2>2
    <3>2. s = [k \in 1 .. n |-> s[k]] BY <2>2
    <3> HIDE DEF s
    <3> QED BY <2>2, <3>1, <3>2, Tabled
  <2>4. \A i \in Ids : s[i] = i OBVIOUS
  <2>5. keep \in SUBSET Ids OBVIOUS
  <2> HIDE DEF s, keep
  <2>6. keep \in SUBSET (1 .. Len(s)) BY <2>2, <2>3, <2>5
  <2>7. Picked(s, keep) \in Seq(Ids) /\ Range(Picked(s, keep)) = {s[i] : i \in keep}
    BY <2>3, <2>6, PickedFacts
  <2>8. {s[i] : i \in keep} = keep BY <2>4, <2>5
  <2> QED BY <2>1, <2>7, <2>8 DEF keep
<1>5. Edges(parents) BY <1>3 DEF Edges
<1>6. Edges(childrenOf) BY <1>4 DEF Edges
<1>7. Reversed(parents, childrenOf) /\ Reversed(childrenOf, parents) BY <1>4 DEF Reversed
<1> QED BY <1>2, <1>3, <1>5, <1>6, <1>7

\* The regions that are not national.
Shown == {i \in Ids : ~IsNational(i)}

\* A way up the graph, from i to j by n edges, past no national region.
Way(i, j, n) == Walk(parents, Shown, i, j, n)

\* A walk up meets the regions that a way leads to.
LEMMA WayReaches ==
    ASSUME LoadInv, NEW i \in Ids, NEW j, NEW n \in Nat, Way(i, j, n)
    PROVE  j \in Reach(i, parents) /\ j \in Shown
<1>1. PICK p \in [0 .. n -> Shown] : /\ p[0] = i /\ p[n] = j
                                     /\ \A k \in 0 .. n - 1 : p[k + 1] \in Range(parents[p[k]])
  BY DEF Way, Walk
<1> DEFINE R == Reach(i, parents)
           A == {k \in 0 .. n : p[k] \notin R}
<1>2. i \in R /\ Closed(R, parents) BY GraphEdges, ReachFacts
<1> HIDE DEF R
<1>3. A = {}
  <2> SUFFICES ASSUME A # {} PROVE FALSE OBVIOUS
  <2>1. A \subseteq Nat OBVIOUS
  <2>2. PICK m \in A : \A k \in A : m <= k BY <2>1, LeastNat
  <2>3. m # 0 BY <1>1, <1>2
  <2>4. m - 1 \in 0 .. n /\ ~(m <= m - 1) /\ m - 1 \in 0 .. n - 1 /\ m - 1 + 1 = m BY <2>3
  <2>5. p[m - 1] \in R /\ p[m - 1] \in Shown BY <1>1, <2>2, <2>4
  <2>6. p[m] \in Range(parents[p[m - 1]]) BY <1>1, <2>4
  <2>7. p[m] \in R BY <1>2, <2>5, <2>6 DEF Closed, Shown
  <2> QED BY <2>7
<1>4. n \in 0 .. n OBVIOUS
<1> QED BY <1>1, <1>3, <1>4 DEF R

\* The first of some regions by slug.
LEMMA SlugFirstFacts ==
    ASSUME LoadInv, NEW S \in SUBSET Ids, S # {}
    PROVE  /\ SlugFirst(S) \in S
           /\ \A j \in S \ {SlugFirst(S)} : regions[SlugFirst(S)].slug < regions[j].slug
<1> DEFINE A == {regions[i].slug : i \in S}
<1>1. /\ \A i \in Ids : regions[i].slug \in Nat
      /\ \A i, j \in Ids : regions[i].slug = regions[j].slug => i = j
  BY RegionFacts DEF LoadInv, GraphInv
<1>2. A \subseteq Nat /\ A # {} BY <1>1
<1>3. PICK m \in A : \A x \in A : m <= x BY <1>2, LeastNat
<1>4. \E i \in S : \A j \in S : regions[i].slug <= regions[j].slug BY <1>3
<1> DEFINE f == SlugFirst(S)
<1>5. f \in S /\ \A j \in S : regions[f].slug <= regions[j].slug BY <1>4 DEF SlugFirst
<1> HIDE DEF f
<1>6. ASSUME NEW j \in S \ {f} PROVE regions[f].slug < regions[j].slug
  <2>1. regions[f].slug # regions[j].slug BY <1>1, <1>5
  <2>2. regions[f].slug \in Nat /\ regions[j].slug \in Nat BY <1>1, <1>5
  <2> QED BY <1>5, <2>1, <2>2
<1> QED BY <1>5, <1>6 DEF f

levelStates == [current : SUBSET Ids, visited : SUBSET Ids]

\* The levels of the upward walk: after l turns, current holds what is l edges
\* away, and what was visited before is nearer, and does not match.
LevelInv(root, matching, st) ==
    \E l \in Nat \ {0} :
        /\ root \in st.visited
        /\ \A i \in st.current \cap Shown : Way(root, i, l)
        /\ \A i \in Shown : \A n \in Nat : n < l /\ Way(root, i, n) => i \in st.visited
        /\ \A i \in st.visited \cap Shown : Range(parents[i]) \subseteq st.visited \cup st.current
        /\ \A i \in st.visited \cap Shown : i = root \/ i \notin matching

\* Nothing that matches is nearer than the region found, or as near with a
\* smaller slug.
NearestBy(root, matching, r) ==
    IF r = 0 THEN \A j \in Shown \ {root} : \A n \in Nat : Way(root, j, n) => j \notin matching
    ELSE /\ r \in (Shown \cap matching) \ {root}
         /\ \E l \in Nat \ {0} :
              /\ Way(root, r, l) /\ \A n \in Nat : n < l => ~Way(root, r, n)
              /\ \A j \in (Shown \cap matching) \ {root, r} : \A n \in Nat :
                    Way(root, j, n) =>
                        l < n \/ (l = n /\ regions[r].slug < regions[j].slug)

\* A turn without a match keeps the levels.
LEMMA LevelKeeps ==
    ASSUME LoadInv, NEW root \in Shown, NEW matching, NEW st \in levelStates,
           LevelInv(root, matching, st), FreshIn(st) \cap matching = {}
    PROVE  levelStep(st) \in levelStates /\ LevelInv(root, matching, levelStep(st))
<1> DEFINE new == levelStep(st)
<1>1. PICK l \in Nat \ {0} :
        /\ root \in st.visited
        /\ \A i \in st.current \cap Shown : Way(root, i, l)
        /\ \A i \in Shown : \A n \in Nat : n < l /\ Way(root, i, n) => i \in st.visited
        /\ \A i \in st.visited \cap Shown : Range(parents[i]) \subseteq st.visited \cup st.current
        /\ \A i \in st.visited \cap Shown : i = root \/ i \notin matching
  BY DEF LevelInv
<1>2. st.current \in SUBSET Ids /\ st.visited \in SUBSET Ids BY DEF levelStates
<1>3. FreshIn(st) = (st.current \ st.visited) \cap Shown BY <1>2 DEF FreshIn, Shown
<1>4. /\ new.current = UNION {Range(parents[i]) : i \in FreshIn(st)}
      /\ new.visited = st.visited \cup st.current
  BY DEF levelStep
<1>5. \A i \in Ids : Range(parents[i]) \subseteq Ids BY GraphEdges DEF Edges
<1>6. new \in levelStates
  <2>1. UNION {Range(parents[i]) : i \in FreshIn(st)} \in SUBSET Ids BY <1>2, <1>3, <1>5
  <2>2. new = [current |-> UNION {Range(parents[i]) : i \in FreshIn(st)},
               visited |-> st.visited \cup st.current]
    BY DEF levelStep
  <2> QED BY <1>2, <2>1, <2>2 DEF levelStates
<1> HIDE DEF new
<1>7. ASSUME NEW i \in new.current \cap Shown PROVE Way(root, i, l + 1)
  <2>1. PICK x \in FreshIn(st) : i \in Range(parents[x]) BY <1>4
  <2>2. x \in Shown /\ Way(root, x, l) BY <1>1, <1>3, <2>1
  <2> QED BY <2>1, <2>2, WalkOn DEF Way
<1>8. ASSUME NEW i \in Shown, NEW n \in Nat, n < l + 1, Way(root, i, n) PROVE i \in new.visited
  <2>1. CASE n < l BY <1>1, <1>4, <1>8, <2>1
  <2>2. CASE n = l
    <3>1. l - 1 \in Nat /\ l - 1 < l /\ l - 1 + 1 = l OBVIOUS
    <3>2. PICK m \in Nat : m = l - 1 BY <3>1
    <3>3. Walk(parents, Shown, root, i, m + 1) BY <1>8, <2>2, <3>1, <3>2 DEF Way
    <3>4. PICK x \in Shown : Walk(parents, Shown, root, x, m) /\ i \in Range(parents[x])
      BY <3>3, WalkBack
    <3>5. x \in st.visited BY <1>1, <3>1, <3>2, <3>4 DEF Way
    <3> QED BY <1>1, <1>4, <3>4, <3>5
  <2> QED BY <1>8, <2>1, <2>2
<1>9. ASSUME NEW i \in new.visited \cap Shown
      PROVE  Range(parents[i]) \subseteq new.visited \cup new.current
  <2>1. CASE i \in st.visited BY <1>1, <1>4, <2>1
  <2>2. CASE i \notin st.visited
    <3>1. i \in FreshIn(st) BY <1>3, <1>4, <2>2
    <3> QED BY <1>4, <3>1
  <2> QED BY <2>1, <2>2
<1>10. ASSUME NEW i \in new.visited \cap Shown PROVE i = root \/ i \notin matching
  <2>1. i \in st.visited \/ i \in FreshIn(st) BY <1>3, <1>4
  <2> QED BY <1>1, <2>1
<1>11. l + 1 \in Nat \ {0} /\ root \in new.visited BY <1>1, <1>4
<1>12. LevelInv(root, matching, new) BY <1>7, <1>8, <1>9, <1>10, <1>11 DEF LevelInv
<1> QED BY <1>6, <1>12 DEF new

\* The walk finds the nearest match.
LEMMA NearestFound ==
    ASSUME LoadInv, NEW root \in Shown, NEW matching \in SUBSET Ids
    PROVE  NearestBy(root, matching, bfsUpwardFirstMatch(root, matching))
<1> DEFINE S == levelStates
           Hit(st) == FreshIn(st) \cap matching
           D == {st \in S : st.current = {} \/ Hit(st) # {}}
           step == [st \in S |-> levelStep(st)]
           res == [st \in S |-> IF st.current = {} THEN 0 ELSE SlugFirst(Hit(st))]
           a == [st \in S |-> Cardinality(Ids \ st.visited)]
           b == [st \in S |-> IF st.current = {} THEN 0 ELSE 1]
           X == {st \in S : LevelInv(root, matching, st)}
           init == [current |-> Range(parents[root]), visited |-> {root}]
<1>1. root \in Ids /\ ~IsNational(root) /\ IsFiniteSet(Ids) BY GraphEdges DEF Shown
<1>2. \A i \in Ids : Range(parents[i]) \subseteq Ids BY GraphEdges DEF Edges
<1>3. ASSUME NEW st \in S
      PROVE  /\ levelStep(st) \in S /\ st.current \in SUBSET Ids /\ st.visited \in SUBSET Ids
             /\ levelStep(st).visited = st.visited \cup st.current
             /\ st.current \subseteq st.visited => levelStep(st).current = {}
  <2>1. st.current \in SUBSET Ids /\ st.visited \in SUBSET Ids BY DEF levelStates
  <2>2. FreshIn(st) \subseteq st.current \ st.visited BY DEF FreshIn
  <2>3. UNION {Range(parents[i]) : i \in FreshIn(st)} \in SUBSET Ids BY <1>2, <2>1, <2>2
  <2>4. levelStep(st) = [current |-> UNION {Range(parents[i]) : i \in FreshIn(st)},
                         visited |-> st.visited \cup st.current]
    BY DEF levelStep
  <2>5. levelStep(st) \in S BY <2>1, <2>3, <2>4 DEF levelStates
  <2>6. /\ levelStep(st).visited = st.visited \cup st.current
        /\ levelStep(st).current = UNION {Range(parents[i]) : i \in FreshIn(st)}
    BY <2>4
  <2>7. ASSUME st.current \subseteq st.visited PROVE levelStep(st).current = {}
    <3>1. FreshIn(st) = {} BY <2>2, <2>7
    <3> QED BY <2>6, <3>1
  <2> QED BY <2>1, <2>5, <2>6, <2>7
<1>4. \A st \in S \ D : step[st] \in S BY <1>3
<1>5. D \in SUBSET S OBVIOUS
<1>6. PICK g : IsLoop(g, S, D, step, res) /\ bfsUpwardFirstMatch(root, matching) = g[init]
  <2> DEFINE Eq(g) == g = [st \in S |-> IF st.current = {} THEN 0
                                        ELSE IF FreshIn(st) \cap matching # {}
                                        THEN SlugFirst(FreshIn(st) \cap matching)
                                        ELSE g[levelStep(st)]]
  <2>1. ASSUME NEW g, IsLoop(g, S, D, step, res) PROVE Eq(g)
    BY <2>1 DEF IsLoop
  <2>2. \E g : IsLoop(g, S, D, step, res)
    <3> HIDE DEF S, D, step, res
    <3> QED BY <1>4, <1>5, LoopDefined
  <2>3. \E g : Eq(g) BY <2>1, <2>2
  <2>4. PICK g : Eq(g) /\ bfsUpwardFirstMatch(root, matching) = g[init]
    BY <2>3 DEF bfsUpwardFirstMatch, levelStates
  <2>5. IsLoop(g, S, D, step, res) BY <2>4 DEF IsLoop
  <2> QED BY <2>4, <2>5
<1>7. /\ a \in [S -> Nat] /\ b \in [S -> Nat]
      /\ \A st \in S \ D : a[step[st]] < a[st] \/ (a[step[st]] = a[st] /\ b[step[st]] < b[st])
  <2>1. \A Y \in SUBSET Ids : IsFiniteSet(Y) /\ Cardinality(Y) \in Nat
    BY <1>1, FS_Subset, FS_CardinalityType
  <2>2. a \in [S -> Nat] /\ b \in [S -> Nat] BY <2>1
  <2>3. ASSUME NEW st \in S \ D
        PROVE  a[step[st]] < a[st] \/ (a[step[st]] = a[st] /\ b[step[st]] < b[st])
    <3> DEFINE new == levelStep(st)
    <3>1. /\ new \in S /\ st.current # {} /\ st.current \in SUBSET Ids /\ st.visited \in SUBSET Ids
          /\ new.visited = st.visited \cup st.current
          /\ st.current \subseteq st.visited => new.current = {}
      BY <1>3
    <3>2. /\ a[step[st]] = Cardinality(Ids \ new.visited) /\ a[st] = Cardinality(Ids \ st.visited)
          /\ b[step[st]] = (IF new.current = {} THEN 0 ELSE 1) /\ b[st] = 1
      BY <3>1
    <3> HIDE DEF new, a, b, step, S, D
    <3>3. CASE st.current \subseteq st.visited
      <4>1. new.visited = st.visited BY <3>1, <3>3
      <4> QED BY <3>1, <3>2, <3>3, <4>1
    <3>4. CASE ~(st.current \subseteq st.visited)
      <4> DEFINE U == Ids \ st.visited
                 V == Ids \ new.visited
      <4>1. V \subseteq U /\ V # U /\ IsFiniteSet(U) /\ Cardinality(U) \in Nat
            /\ Cardinality(V) \in Nat
        <5>1. PICK x \in st.current : x \notin st.visited BY <3>4
        <5>2. x \in U /\ x \notin V /\ V \subseteq U BY <3>1, <5>1
        <5>3. U \in SUBSET Ids /\ V \in SUBSET Ids OBVIOUS
        <5> QED BY <2>1, <5>2, <5>3
      <4>2. a[step[st]] = Cardinality(V) /\ a[st] = Cardinality(U) BY <3>2
      <4> HIDE DEF U, V
      <4>3. Cardinality(V) <= Cardinality(U) /\ Cardinality(V) # Cardinality(U)
        BY <4>1, FS_Subset
      <4> QED BY <4>1, <4>2, <4>3
    <3> QED BY <3>3, <3>4
  <2> QED BY <2>2, <2>3
<1>8. X \in SUBSET S /\ Invariant(X, D, step)
  <2> SUFFICES ASSUME NEW st \in X \ D PROVE step[st] \in X
    BY DEF Invariant
  <2>1. st \in levelStates /\ LevelInv(root, matching, st) /\ FreshIn(st) \cap matching = {}
    OBVIOUS
  <2>2. levelStep(st) \in levelStates /\ LevelInv(root, matching, levelStep(st))
    BY <2>1, LevelKeeps
  <2> QED BY <2>1, <2>2
<1>9. init \in X
  <2>1. init \in S BY <1>1, <1>2 DEF levelStates
  <2>2. init.current = Range(parents[root]) /\ init.visited = {root} OBVIOUS
  <2>3. Way(root, root, 0) BY WalkNone DEF Way
  <2> HIDE DEF init
  <2>4. ASSUME NEW i \in init.current \cap Shown PROVE Way(root, i, 1)
    <3>1. Walk(parents, Shown, root, i, 0 + 1) BY <2>2, <2>3, <2>4, WalkOn DEF Way
    <3> QED BY <3>1 DEF Way
  <2>5. ASSUME NEW i \in Shown, NEW n \in Nat, n < 1, Way(root, i, n) PROVE i \in init.visited
    <3>1. n = 0 BY <2>5
    <3>2. i = root BY <2>5, <3>1, WalkNone DEF Way
    <3> QED BY <2>2, <3>2
  <2>6. LevelInv(root, matching, init)
    <3>1. 1 \in Nat \ {0} OBVIOUS
    <3> QED BY <2>2, <2>4, <2>5, <3>1 DEF LevelInv
  <2> QED BY <2>1, <2>6
<1>10. PICK t \in X \cap D : g[init] = res[t]
  <2> HIDE DEF S, D, step, res, a, b, X, init
  <2>1. \A st \in X : \E t \in X \cap D : g[st] = res[t]
    <3>1. IsLoop(g, S, D, step, res) BY <1>6
    <3>2. a \in [S -> Nat] /\ b \in [S -> Nat] BY <1>7
    <3>3. \A st \in S \ D : a[step[st]] < a[st] \/ (a[step[st]] = a[st] /\ b[step[st]] < b[st])
      BY <1>7
    <3>4. X \in SUBSET S /\ Invariant(X, D, step) BY <1>8
    <3> QED BY <1>4, <1>5, <3>1, <3>2, <3>3, <3>4, LoopEnds, SMTT(60)
  <2> QED BY <1>9, <2>1
<1> DEFINE r == bfsUpwardFirstMatch(root, matching)
<1>11. /\ t.current \in SUBSET Ids /\ t.visited \in SUBSET Ids
       /\ t.current = {} \/ Hit(t) # {}
       /\ r = IF t.current = {} THEN 0 ELSE SlugFirst(Hit(t))
  BY <1>3, <1>6, <1>10
<1>12. PICK l \in Nat \ {0} :
        /\ root \in t.visited
        /\ \A i \in t.current \cap Shown : Way(root, i, l)
        /\ \A i \in Shown : \A n \in Nat : n < l /\ Way(root, i, n) => i \in t.visited
        /\ \A i \in t.visited \cap Shown : Range(parents[i]) \subseteq t.visited \cup t.current
        /\ \A i \in t.visited \cap Shown : i = root \/ i \notin matching
  BY <1>10 DEF LevelInv
<1> HIDE DEF r
<1>13. CASE t.current = {}
  <2>1. r = 0 BY <1>11, <1>13
  <2>2. Closed(t.visited, parents) BY <1>11, <1>12, <1>13 DEF Closed, Shown
  <2>3. Reach(root, parents) \subseteq t.visited BY <1>1, <1>11, <1>12, <2>2, GraphEdges, ReachFacts
  <2>4. ASSUME NEW j \in Shown \ {root}, NEW n \in Nat, Way(root, j, n) PROVE j \notin matching
    <3>1. j \in t.visited BY <1>1, <2>3, <2>4, WayReaches
    <3> QED BY <1>12, <3>1
  <2> QED BY <2>1, <2>4 DEF NearestBy, r
<1>14. CASE t.current # {}
  <2> DEFINE F == Hit(t)
  <2>1. F \subseteq Ids /\ F # {} /\ r = SlugFirst(F)
        /\ F = ((t.current \ t.visited) \cap Shown) \cap matching
    BY <1>11, <1>14 DEF FreshIn, Shown
  <2> HIDE DEF F, Hit
  <2>2. r \in F /\ \A j \in F \ {r} : regions[r].slug < regions[j].slug BY <2>1, SlugFirstFacts
  <2>3. r \in (Shown \cap matching) \ {root} /\ r \in t.current /\ r \notin t.visited
    BY <1>12, <2>1, <2>2
  <2>4. r # 0
    <3>1. 0 \notin Ids BY IdOfFacts DEF LoadInv
    <3> QED BY <2>3, <3>1 DEF Shown
  <2>5. Way(root, r, l) /\ \A n \in Nat : n < l => ~Way(root, r, n) BY <1>12, <2>3
  <2>6. ASSUME NEW j \in (Shown \cap matching) \ {root, r}, NEW n \in Nat, Way(root, j, n)
        PROVE  l < n \/ (l = n /\ regions[r].slug < regions[j].slug)
    <3>1. j \notin t.visited BY <1>12
    <3>2. ~(n < l) BY <1>12, <2>6, <3>1
    <3>3. CASE n = l
      <4>1. l - 1 \in Nat /\ l - 1 < l /\ l - 1 + 1 = l OBVIOUS
      <4>2. PICK m \in Nat : m = l - 1 BY <4>1
      <4>3. Walk(parents, Shown, root, j, m + 1) BY <2>6, <3>3, <4>1, <4>2 DEF Way
      <4>4. PICK x \in Shown : Walk(parents, Shown, root, x, m) /\ j \in Range(parents[x])
        BY <4>3, WalkBack
      <4>5. x \in t.visited BY <1>12, <4>1, <4>2, <4>4 DEF Way
      <4>6. j \in t.current BY <1>12, <3>1, <4>4, <4>5
      <4>7. j \in F \ {r} BY <2>1, <3>1, <4>6
      <4> QED BY <2>2, <3>3, <4>7
    <3> QED BY <3>2, <3>3
  <2> QED BY <2>3, <2>4, <2>5, <2>6 DEF NearestBy, r
<1> QED BY <1>13, <1>14

\* What a lookup searches, and what a page shows.
LEMMA WalkRanges ==
    ASSUME LoadInv, NEW i \in Ids
    PROVE  /\ Range(AncestorRegions(i)) = Reach(i, parents) \cap Shown
           /\ Range(DescendantRegions(i)) = Reach(i, childrenOf) \cap Shown
<1>1. Edges(parents) /\ Edges(childrenOf) /\ IsFiniteSet(Ids) BY GraphEdges
<1>2. Reach(i, parents) \subseteq Ids /\ Reach(i, childrenOf) \subseteq Ids BY <1>1, ReachFacts
<1>3. /\ Range(bfsCollectIDs(i, parents)) = {j \in Reach(i, parents) : ~IsNational(j)}
      /\ Range(bfsCollectIDs(i, childrenOf)) = {j \in Reach(i, childrenOf) : ~IsNational(j)}
  BY <1>1, BfsCollects
<1> QED BY <1>2, <1>3 DEF AncestorRegions, DescendantRegions, Shown

\* No region below another is above it too.
LEMMA AboveOnly ==
    ASSUME LoadInv, NEW i \in Ids
    PROVE  Range(AncestorRegions(i)) \cap Range(DescendantRegions(i)) \subseteq {i}
<1>1. /\ Edges(parents) /\ Edges(childrenOf) /\ Reversed(parents, childrenOf)
      /\ \A k, j \in Ids : k \in Range(parents[j]) => k < j
  BY GraphEdges
<1>2. Ids \subseteq Nat BY RegionFacts DEF LoadInv
<1> DEFINE up == {k \in Ids : k <= i}
           down == {k \in Ids : k >= i}
<1>3. Closed(up, parents)
  <2> SUFFICES ASSUME NEW k \in up, NEW p \in Range(parents[k]) PROVE p \in up
    BY DEF Closed
  <2>1. k \in Ids /\ p \in Ids /\ k <= i BY <1>1 DEF Edges
  <2>2. p < k BY <1>1, <2>1
  <2> QED BY <1>2, <2>1, <2>2
<1>4. Closed(down, childrenOf)
  <2> SUFFICES ASSUME NEW k \in down, NEW c \in Range(childrenOf[k]) PROVE c \in down
    BY DEF Closed
  <2>1. k \in Ids /\ c \in Ids /\ k >= i BY <1>1 DEF Edges
  <2>2. k < c BY <1>1, <2>1 DEF Reversed
  <2> QED BY <1>2, <2>1, <2>2
<1>5. i \in up /\ i \in down /\ up \in SUBSET Ids /\ down \in SUBSET Ids /\ up \cap down \subseteq {i}
  <2>1. i \in Nat /\ \A k \in Ids : k \in Nat BY <1>2
  <2>2. ASSUME NEW k \in up \cap down PROVE k = i
    <3>1. k \in Nat /\ k <= i /\ k >= i BY <2>1
    <3> QED BY <2>1, <3>1
  <2>3. i \in up /\ i \in down BY <2>1
  <2>4. up \in SUBSET Ids /\ down \in SUBSET Ids OBVIOUS
  <2> HIDE DEF up, down
  <2> QED BY <2>2, <2>3, <2>4
<1> HIDE DEF up, down
<1>6. Reach(i, parents) \subseteq up /\ Reach(i, childrenOf) \subseteq down
  BY <1>1, <1>3, <1>4, <1>5, ReachFacts
<1> QED BY <1>5, <1>6, WalkRanges

\* A region is below another exactly if that one is above it.
LEMMA AboveBelow ==
    ASSUME LoadInv, NEW i \in Shown, NEW j \in Ids
    PROVE  j \in Range(DescendantRegions(i)) <=> i \in Range(AncestorRegions(j))
<1>1. i \in Ids /\ ~IsNational(i) BY DEF Shown
<1>2. /\ Edges(parents) /\ Edges(childrenOf)
      /\ Reversed(parents, childrenOf) /\ Reversed(childrenOf, parents)
  BY GraphEdges
<1>3. CASE IsNational(j)
  <2>1. j \notin Shown BY <1>3 DEF Shown
  <2>2. Reach(j, parents) = {j} BY <1>2, <1>3, ReachFacts
  <2>3. i # j BY <1>1, <1>3
  <2> QED BY <1>1, <2>1, <2>2, <2>3, WalkRanges
<1>4. CASE ~IsNational(j)
  <2>1. j \in Shown BY <1>4 DEF Shown
  <2>2. i \in Reach(j, parents) => j \in Reach(i, childrenOf) BY <1>1, <1>2, <1>4, ReachMirror
  <2>3. j \in Reach(i, childrenOf) => i \in Reach(j, parents) BY <1>1, <1>2, <1>4, ReachMirror
  <2> QED BY <1>1, <2>1, <2>2, <2>3, WalkRanges
<1> QED BY <1>3, <1>4

\* An org is dropped exactly if it serves no region in scope.
LEMMA BucketNone ==
    ASSUME NEW scope
    PROVE  Bucket(scope) # "none" <=> org \cap scope # {}
  BY DEF Bucket

\* Pages mirror lookups.
LEMMA PagesMirror == LoadInv => PagesMirrorLookups
<1> SUFFICES ASSUME LoadInv
             PROVE  /\ \A i \in Ids : HasPage(i) =>
                        /\ GetRegion(i) # "none"
                              <=> \E j \in org : \/ i \in Range(AncestorRegions(j))
                                                 \/ j \in RollupMetrosFor(i)
                        /\ Range(DescendantRegions(i)) \ {i} \subseteq PageNames(i)
                    /\ Live <=> \E i \in Ids : HasPage(i) /\ GetRegion(i) # "none"
                    /\ \A k \in Keys : leaf[k] # 0 /\ Lookup(leaf[k]) # "none" => Live
  BY DEF PagesMirrorLookups
<1>1. /\ org \subseteq Ids /\ \A k \in Keys : leaf[k] \in 0 .. Len(regions)
      /\ \A i \in Ids : Range(rollupBy[i]) \subseteq Ids
  BY DEF LoadInv, StoreInv
<1>2. Len(regions) \in Nat BY RegionFacts DEF LoadInv
<1>3. ASSUME NEW i \in Ids, HasPage(i)
      PROVE  /\ GetRegion(i) # "none"
                   <=> \E j \in org : i \in Range(AncestorRegions(j)) \/ j \in RollupMetrosFor(i)
             /\ Range(DescendantRegions(i)) \ {i} \subseteq PageNames(i)
  <2>1. i \in Shown BY <1>3 DEF HasPage, Shown
  <2>2. GetRegion(i) # "none" <=> org \cap PageScope(i) # {} BY BucketNone DEF GetRegion
  <2>3. \A j \in org : j \in Range(DescendantRegions(i)) <=> i \in Range(AncestorRegions(j))
    BY <1>1, <2>1, AboveBelow
  <2>4. org \cap PageScope(i) # {}
            <=> \E j \in org : i \in Range(AncestorRegions(j)) \/ j \in RollupMetrosFor(i)
    BY <2>3 DEF PageScope
  <2>5. Range(DescendantRegions(i)) \ {i} \subseteq PageNames(i)
    BY AboveOnly DEF PageNames, PageScope
  <2> QED BY <2>2, <2>4, <2>5
<1>4. ASSUME NEW i \in org, ~IsNational(i) PROVE HasPage(i) /\ GetRegion(i) # "none"
  <2>1. i \in Ids /\ i \in Shown BY <1>1, <1>4 DEF Shown
  <2>2. i \in Reach(i, childrenOf) BY <2>1, GraphEdges, ReachFacts
  <2>3. i \in Range(DescendantRegions(i)) BY <2>1, <2>2, WalkRanges
  <2>4. org \cap PageScope(i) # {} BY <2>3 DEF PageScope
  <2> QED BY <1>4, <2>4, BucketNone DEF GetRegion, HasPage
<1>5. ASSUME NEW i \in Ids, GetRegion(i) # "none" PROVE Live
  <2>1. PICK j \in org : j \in PageScope(i) BY <1>5, BucketNone DEF GetRegion
  <2>2. ~IsNational(j)
    <3>1. CASE j \in Range(DescendantRegions(i)) BY <3>1, WalkRanges DEF Shown
    <3>2. CASE j \in RollupMetrosFor(i) BY <3>2 DEF RollupMetrosFor
    <3> QED BY <2>1, <3>1, <3>2 DEF PageScope
  <2> QED BY <2>1, <2>2 DEF Live
<1>6. ASSUME NEW k \in Keys, leaf[k] # 0, Lookup(leaf[k]) # "none" PROVE Live
  <2>1. leaf[k] \in Ids BY <1>1, <1>2, <1>6 DEF Ids
  <2>2. PICK j \in org : j \in Range(AncestorRegions(leaf[k])) BY <1>6, BucketNone DEF Lookup
  <2>3. ~IsNational(j) BY <2>1, <2>2, WalkRanges DEF Shown
  <2> QED BY <2>2, <2>3 DEF Live
<1>7. Live <=> \E i \in Ids : HasPage(i) /\ GetRegion(i) # "none"
  BY <1>1, <1>4, <1>5 DEF Live
<1> QED BY <1>3, <1>6, <1>7

\* Rows nest under rows.
LEMMA RowsNest == LoadInv => BrowseTreeConsistent
<1> SUFFICES ASSUME LoadInv, NEW i \in BrowseRows, BrowseParent(i) # 0
             PROVE  /\ BrowseParent(i) \in BrowseRows
                    /\ Range(DescendantRegions(i)) \subseteq PageScope(BrowseParent(i))
  BY DEF BrowseTreeConsistent
<1> DEFINE r == BrowseParent(i)
           matching == {j \in Ids : IsBrowseKind(regions[j].kind)}
<1>1. i \in Ids /\ i \in Shown /\ OrgCount(i) > 0 BY DEF BrowseRows, Shown
<1>2. r = bfsUpwardFirstMatch(i, matching) /\ matching \in SUBSET Ids BY DEF BrowseParent
<1>3. NearestBy(i, matching, r)
  <2> HIDE DEF r, matching
  <2> QED BY <1>1, <1>2, NearestFound
<1>4. r # 0 OBVIOUS
<1> HIDE DEF r
<1>5. r \in Shown /\ r \in matching /\ \E l \in Nat : Way(i, r, l)
  <2> HIDE DEF matching
  <2> QED BY <1>3, <1>4 DEF NearestBy
<1>6. r \in Ids /\ ~IsNational(r) BY <1>5 DEF Shown
<1>7. r \in Range(AncestorRegions(i)) BY <1>1, <1>5, WayReaches, WalkRanges
<1>8. i \in Range(DescendantRegions(r)) BY <1>1, <1>5, <1>7, AboveBelow
<1>9. Range(DescendantRegions(i)) \subseteq Range(DescendantRegions(r))
  <2>1. i \in Reach(r, childrenOf) BY <1>6, <1>8, WalkRanges
  <2>2. Reach(i, childrenOf) \subseteq Reach(r, childrenOf) BY <1>6, <2>1, GraphEdges, ReachFacts
  <2> QED BY <1>1, <1>6, <2>2, WalkRanges
<1>10. OrgCount(r) > 0
  <2>1. org \cap Range(DescendantRegions(i)) # {} BY <1>1 DEF OrgCount
  <2>2. org \cap Range(DescendantRegions(r)) # {} BY <1>9, <2>1
  <2> QED BY <2>2 DEF OrgCount
<1>11. r \in BrowseRows BY <1>5, <1>6, <1>10 DEF BrowseRows
<1> QED BY <1>9, <1>11 DEF PageScope, r

\* The last region below a local one is a leaf, which the leaf check has seen.
LEMMA LocalsReached == LoadInv => LocalRegionsReachable
<1> SUFFICES ASSUME LoadInv, phase = "ready", NEW i \in Ids,
                    \A j \in Ids : (j = i \/ \E k \in Range(DescendantRegions(i)) :
                                                k \in Range(parents[j]))
                                       => regions[j].tier = "local"
             PROVE  Range(DescendantRegions(i)) \cap (Range(leaf) \cup org) # {}
  BY DEF LocalRegionsReachable
<1> DEFINE below == Range(DescendantRegions(i))
           R == Reach(i, childrenOf)
<1>1. /\ Edges(childrenOf) /\ Reversed(parents, childrenOf)
      /\ \A x, y \in Ids : x \in Range(parents[y]) => x < y
  BY GraphEdges
<1>2. /\ i \in R /\ R \subseteq Ids /\ Closed(R, childrenOf)
      /\ \A j \in R : j = i \/ \E k \in R : ~IsNational(k) /\ j \in Range(childrenOf[k])
  BY <1>1, ReachFacts
<1>3. below = R \cap Shown BY WalkRanges
<1>4. \A j \in Ids : (j = i \/ \E k \in below : k \in Range(parents[j])) => regions[j].tier = "local"
  OBVIOUS
<1> HIDE DEF below, R
<1>5. ASSUME NEW j \in R PROVE regions[j].tier = "local" /\ j \in below
  <2>1. j = i \/ \E k \in below : k \in Range(parents[j])
    BY <1>1, <1>2, <1>3 DEF Reversed, Shown
  <2>2. j \in Ids /\ regions[j].tier = "local" BY <1>2, <1>4, <2>1
  <2>3. j \in Shown BY <2>2 DEF Shown, IsNational
  <2> QED BY <1>3, <2>2, <2>3
<1>6. Len(regions) \in Nat /\ \A x \in Ids : x \in 1 .. Len(regions)
  BY RegionFacts DEF LoadInv, Ids
<1>7. PICK m \in R : \A x \in R : x <= m
  <2> DEFINE A == {Len(regions) - x : x \in R}
  <2>1. A \subseteq Nat /\ A # {} BY <1>2, <1>6
  <2>2. PICK d \in A : \A e \in A : d <= e BY <2>1, LeastNat
  <2>3. PICK m \in R : d = Len(regions) - m BY <2>2
  <2>4. ASSUME NEW x \in R PROVE x <= m
    <3>1. Len(regions) - m <= Len(regions) - x BY <2>2, <2>3
    <3>2. x \in Int /\ m \in Int BY <1>2, <1>6
    <3> QED BY <1>6, <3>1, <3>2
  <2> QED BY <2>4
<1>8. m \in Ids /\ regions[m].tier = "local" /\ m \in below BY <1>2, <1>5, <1>7
<1>9. ~HasChildren(m)
  <2> SUFFICES ASSUME NEW j \in Ids, m \in Range(parents[j]) PROVE FALSE
    BY DEF HasChildren
  <2>1. j \in Range(childrenOf[m]) BY <1>1, <1>8 DEF Reversed
  <2>2. ~IsNational(m) BY <1>8 DEF IsNational
  <2>3. j \in R BY <1>2, <1>7, <2>1, <2>2 DEF Closed
  <2>4. m < j /\ j <= m BY <1>1, <1>7, <1>8, <2>3
  <2> QED BY <1>6, <1>8, <2>4
<1>10. Orphans = {} BY DEF LoadInv, EndInv
<1>11. m \in Range(leaf) \cup org BY <1>8, <1>9, <1>10 DEF Orphans
<1> QED BY <1>8, <1>11 DEF below

\* The slugs kept for the cycle check and the ids of the store name the same ways.
LEMMA SlugWays ==
    ASSUME LoadInv, NEW i \in Ids, NEW j \in Ids, NEW n \in Nat
    PROVE  Walk(parentSlugs, Kept, regions[i].slug, regions[j].slug, n) <=> Way(i, j, n)
<1> DEFINE Slug(x) == regions[x].slug
<1>1. LoadTypes /\ GraphInv /\ EdgeInv BY DEF LoadInv
<1>2. \A x \in Ids : IdOf(Slug(x)) = x BY <1>1, IdOfFacts
<1>3. \A x, y \in Ids : Slug(x) = Slug(y) => x = y BY <1>1 DEF GraphInv
<1>4. DOMAIN parentSlugs = {Slug(x) : x \in Ids} BY <1>1 DEF EdgeInv
<1>5. Kept = {Slug(x) : x \in Shown} BY <1>2, <1>4 DEF Kept, Shown
<1>6. ASSUME NEW x \in Ids, NEW y \in Ids
      PROVE  Slug(y) \in Range(parentSlugs[Slug(x)]) <=> y \in Range(parents[x])
  <2> DEFINE q == parentSlugs[Slug(x)]
             u == parents[x]
  <2>1. /\ q \in Seq(Named) /\ Len(q) = Len(u)
        /\ \A k \in 1 .. Len(u) : Slug(u[k]) = q[k]
    BY <1>1 DEF EdgeInv
  <2>2. u \in Seq(Ids) BY GraphEdges DEF Edges
  <2> HIDE DEF q, u
  <2>3. DOMAIN q = 1 .. Len(u) /\ DOMAIN u = 1 .. Len(u) /\ \A k \in 1 .. Len(u) : u[k] \in Ids
    BY <2>1, <2>2
  <2>4. ASSUME Slug(y) \in Range(q) PROVE y \in Range(u)
    <3>1. PICK k \in 1 .. Len(u) : Slug(y) = q[k] BY <2>3, <2>4 DEF Range
    <3>2. y = u[k] BY <1>3, <2>1, <2>3, <3>1
    <3> QED BY <2>3, <3>2 DEF Range
  <2>5. ASSUME y \in Range(u) PROVE Slug(y) \in Range(q)
    <3>1. PICK k \in 1 .. Len(u) : y = u[k] BY <2>3, <2>5 DEF Range
    <3>2. Slug(y) = q[k] BY <2>1, <3>1
    <3> QED BY <2>3, <3>2 DEF Range
  <2> QED BY <2>4, <2>5 DEF q, u
<1> HIDE DEF Slug
<1>7. ASSUME Walk(parentSlugs, Kept, Slug(i), Slug(j), n) PROVE Way(i, j, n)
  <2>1. PICK p \in [0 .. n -> Kept] :
            /\ p[0] = Slug(i) /\ p[n] = Slug(j)
            /\ \A k \in 0 .. n - 1 : p[k + 1] \in Range(parentSlugs[p[k]])
    BY <1>7 DEF Walk
  <2> DEFINE q == [k \in 0 .. n |-> IdOf(p[k])]
  <2>2. \A s \in Kept : IdOf(s) \in Shown /\ IdOf(s) \in Ids /\ Slug(IdOf(s)) = s
    BY <1>2, <1>5 DEF Shown
  <2>3. \A k \in 0 .. n : q[k] \in Shown /\ q[k] \in Ids /\ Slug(q[k]) = p[k] BY <2>1, <2>2
  <2>4. q \in [0 .. n -> Shown] BY <2>3
  <2>5. q[0] = i /\ q[n] = j
    <3>1. 0 \in 0 .. n /\ n \in 0 .. n OBVIOUS
    <3> QED BY <1>2, <2>1, <3>1
  <2> HIDE DEF q
  <2>6. ASSUME NEW k \in 0 .. n - 1 PROVE q[k + 1] \in Range(parents[q[k]])
    <3>1. k \in 0 .. n /\ k + 1 \in 0 .. n OBVIOUS
    <3>2. Slug(q[k + 1]) \in Range(parentSlugs[Slug(q[k])]) BY <2>1, <2>3, <3>1
    <3> QED BY <1>6, <2>3, <3>1, <3>2
  <2> QED BY <2>4, <2>5, <2>6 DEF Way, Walk
<1>8. ASSUME Way(i, j, n) PROVE Walk(parentSlugs, Kept, Slug(i), Slug(j), n)
  <2>1. PICK p \in [0 .. n -> Shown] :
            /\ p[0] = i /\ p[n] = j
            /\ \A k \in 0 .. n - 1 : p[k + 1] \in Range(parents[p[k]])
    BY <1>8 DEF Way, Walk
  <2> DEFINE q == [k \in 0 .. n |-> Slug(p[k])]
  <2>2. \A k \in 0 .. n : p[k] \in Ids /\ p[k] \in Shown BY <2>1 DEF Shown
  <2>3. q \in [0 .. n -> Kept] BY <1>5, <2>2
  <2>4. (\A k \in 0 .. n : q[k] = Slug(p[k])) /\ 0 \in 0 .. n /\ n \in 0 .. n OBVIOUS
  <2> HIDE DEF q
  <2>5. q[0] = Slug(i) /\ q[n] = Slug(j) BY <2>1, <2>4
  <2>6. ASSUME NEW k \in 0 .. n - 1 PROVE q[k + 1] \in Range(parentSlugs[q[k]])
    <3>1. k \in 0 .. n /\ k + 1 \in 0 .. n OBVIOUS
    <3>2. Slug(p[k + 1]) \in Range(parentSlugs[Slug(p[k])]) BY <1>6, <2>1, <2>2, <3>1
    <3> QED BY <2>4, <3>1, <3>2
  <2> QED BY <2>3, <2>5, <2>6 DEF Walk
<1> QED BY <1>7, <1>8 DEF Slug

\* Ids fall along a way, so that it is shorter than the graph.
LEMMA WayBound ==
    ASSUME LoadInv, NEW i \in Ids, NEW j \in Ids, NEW n \in Nat, Way(i, j, n)
    PROVE  n <= Len(regions) - 1
<1>1. PICK p \in [0 .. n -> Shown] :
          /\ p[0] = i /\ p[n] = j
          /\ \A k \in 0 .. n - 1 : p[k + 1] \in Range(parents[p[k]])
  BY DEF Way, Walk
<1>2. PICK len \in Nat : len = Len(regions) BY RegionFacts DEF LoadInv
<1>3. \A x \in Ids : x \in 1 .. len BY <1>2 DEF Ids
<1>4. \A k \in 0 .. n : p[k] \in Ids /\ p[k] \in 1 .. len BY <1>1, <1>3 DEF Shown
<1> DEFINE A == {k \in 0 .. n : p[k] + k > i}
<1>5. A = {}
  <2> SUFFICES ASSUME A # {} PROVE FALSE OBVIOUS
  <2>1. A \subseteq Nat OBVIOUS
  <2>2. PICK m \in A : \A k \in A : m <= k BY <2>1, LeastNat
  <2>3. m # 0 BY <1>1, <1>3
  <2>4. PICK k \in 0 .. n - 1 : m = k + 1
    <3>1. m - 1 \in 0 .. n - 1 /\ m = m - 1 + 1 BY <2>3
    <3> QED BY <3>1
  <2>5. k \in 0 .. n /\ k + 1 \in 0 .. n /\ ~(m <= k) BY <2>4
  <2>6. ~(p[k] + k > i) BY <2>2, <2>5
  <2>7. p[k + 1] < p[k]
    <3>1. p[k + 1] \in Range(parents[p[k]]) BY <1>1
    <3> QED BY <1>4, <2>5, <3>1, GraphEdges
  <2>8. p[k + 1] + (k + 1) > i BY <2>2, <2>4
  <2>9. p[k] \in Nat /\ p[k + 1] \in Nat /\ i \in Nat BY <1>3, <1>4, <2>5
  <2> QED BY <2>6, <2>7, <2>8, <2>9
<1>6. n \in 0 .. n OBVIOUS
<1>7. ~(j + n > i) BY <1>1, <1>5, <1>6
<1>8. i \in 1 .. len /\ j \in 1 .. len BY <1>3
<1> QED BY <1>2, <1>7, <1>8

\* A distance is the length of a shortest way.
LEMMA DistanceFacts ==
    ASSUME LoadInv, NEW i \in Ids, NEW j \in Ids
    PROVE  /\ Distance(i, j) \in Nat
           /\ Distance(i, j) < Len(regions) <=> \E n \in Nat : Way(i, j, n)
           /\ \A n \in Nat : Way(i, j, n) =>
                 /\ Distance(i, j) <= n /\ Distance(i, j) < Len(regions)
                 /\ Way(i, j, Distance(i, j))
<1>1. PICK len \in Nat : len = Len(regions) BY RegionFacts DEF LoadInv
<1> DEFINE ns == {k \in 0 .. len - 1 : Walk(parentSlugs, Kept, regions[i].slug, regions[j].slug, k)}
           d == Distance(i, j)
<1>2. d = IF ns = {} THEN len ELSE CHOOSE k \in ns : \A m \in ns : k <= m
  BY <1>1 DEF Distance
<1>3. \A k \in 0 .. len - 1 : k \in Nat OBVIOUS
<1>4. ns = {k \in 0 .. len - 1 : Way(i, j, k)} BY <1>3, SlugWays
<1> HIDE DEF ns, d
<1>5. ns \subseteq Nat BY <1>3, <1>4
<1>6. ns # {} => d \in ns /\ \A m \in ns : d <= m
  <2> SUFFICES ASSUME ns # {} PROVE d \in ns /\ \A m \in ns : d <= m OBVIOUS
  <2>1. \E k \in ns : \A m \in ns : k <= m BY <1>5, LeastNat
  <2> QED BY <1>2, <2>1
<1>7. \A n \in Nat : Way(i, j, n) => n \in ns
  <2> SUFFICES ASSUME NEW n \in Nat, Way(i, j, n) PROVE n \in ns OBVIOUS
  <2>1. n <= len - 1 BY <1>1, WayBound
  <2> QED BY <1>1, <1>4, <2>1
<1>8. d \in Nat BY <1>2, <1>5, <1>6
<1>9. d < len <=> ns # {}
  <2>1. ns = {} => d = len BY <1>2
  <2>2. ns # {} => d \in 0 .. len - 1 BY <1>4, <1>6
  <2> QED BY <1>1, <1>8, <2>1, <2>2
<1>10. ns # {} <=> \E n \in Nat : Way(i, j, n) BY <1>4, <1>5, <1>7
<1>11. ASSUME NEW n \in Nat, Way(i, j, n)
       PROVE  d <= n /\ d < len /\ Way(i, j, d)
  <2>1. n \in ns BY <1>7, <1>11
  <2> QED BY <1>4, <1>6, <1>9, <2>1
<1> QED BY <1>1, <1>8, <1>9, <1>10, <1>11 DEF d

\* The queue of the walk: c regions l edges away, then regions one edge further;
\* what was visited is no further, and what is nearer was visited.
Levels(start, st, l, c) ==
    /\ \A m \in 1 .. c : st.queue[m] \in Shown => Way(start, st.queue[m], l)
    /\ \A m \in c + 1 .. Len(st.queue) : st.queue[m] \in Shown => Way(start, st.queue[m], l + 1)
    /\ \A i \in st.visited \cap Shown : \E n \in 0 .. l : Way(start, i, n)
    /\ \A i \in Shown : \A n \in Nat : n < l /\ Way(start, i, n) => i \in st.visited
    /\ \A i \in Shown : Way(start, i, l) => i \in st.visited \/ \E m \in 1 .. c : st.queue[m] = i

\* From start, x is no farther than y.
NoFarther(start, x, y) ==
    \A n \in Nat : Way(start, y, n) => \E m \in Nat : m <= n /\ Way(start, x, m)

\* Nothing is collected twice, or after something farther.
OutSorted(start, out) ==
    \A k, m \in 1 .. Len(out) : k < m => out[k] # out[m] /\ NoFarther(start, out[k], out[m])

\* What holds of the walk up between two turns.
OrderInv(start, st) ==
    /\ BfsInv(start, parents, st)
    /\ \E l \in Nat : \E c \in 0 .. Len(st.queue) : Levels(start, st, l, c)
    /\ OutSorted(start, st.out)

\* When a level is exhausted, the queue is the next one.
LEMMA NextLevel ==
    ASSUME LoadInv, NEW start \in Ids, NEW st \in bfsStates, OrderInv(start, st),
           st.queue # <<>>
    PROVE  \E l \in Nat : \E c \in 1 .. Len(st.queue) : Levels(start, st, l, c)
<1>1. PICK l \in Nat, c \in 0 .. Len(st.queue) : Levels(start, st, l, c) BY DEF OrderInv
<1>2. PICK len \in Nat : len = Len(st.queue) /\ len >= 1 /\ DOMAIN st.queue = 1 .. len
  <2>1. st.queue \in Seq(Ids) BY DEF bfsStates
  <2>2. Len(st.queue) \in Nat /\ Len(st.queue) >= 1 /\ DOMAIN st.queue = 1 .. Len(st.queue)
    BY <2>1, HeadTailFacts
  <2> QED BY <2>2
<1>3. CASE c # 0 BY <1>1, <1>2, <1>3
<1>4. CASE c = 0
  <2>1. /\ \A m \in 1 .. len : m \in c + 1 .. len
        /\ l + 1 \in Nat /\ \A m : m \notin 1 .. c
        /\ \A n \in 0 .. l : n \in 0 .. l + 1
    BY <1>4
  <2>2. \A m \in 1 .. len : st.queue[m] \in Shown => Way(start, st.queue[m], l + 1)
    BY <1>1, <1>2, <2>1 DEF Levels
  <2>3. \A i \in st.visited \cap Shown : \E n \in 0 .. l + 1 : Way(start, i, n)
    BY <1>1, <2>1 DEF Levels
  <2>4. ASSUME NEW i \in Shown, NEW n \in Nat, n < l + 1, Way(start, i, n) PROVE i \in st.visited
    <3>1. n < l \/ n = l BY <2>4
    <3> QED BY <1>1, <2>1, <2>4, <3>1 DEF Levels
  <2>5. ASSUME NEW i \in Shown, Way(start, i, l + 1)
        PROVE  i \in st.visited \/ \E m \in 1 .. len : st.queue[m] = i
    <3>1. PICK t \in Shown : Walk(parents, Shown, start, t, l) /\ i \in Range(parents[t])
      BY <2>5, WalkBack DEF Way
    <3>2. t \in st.visited /\ ~IsNational(t) BY <1>1, <2>1, <3>1 DEF Levels, Way, Shown
    <3>3. i \in st.visited \cup Range(st.queue) BY <3>1, <3>2 DEF OrderInv, BfsInv
    <3> QED BY <1>2, <3>3 DEF Range
  <2>6. \A m : m \notin len + 1 .. len OBVIOUS
  <2>7. Levels(start, st, l + 1, len) BY <1>2, <2>1, <2>2, <2>3, <2>4, <2>5, <2>6 DEF Levels
  <2> QED BY <1>2, <2>1, <2>7
<1> QED BY <1>3, <1>4

\* The queue after its first element gave way to others.
LEMMA ConcatFacts ==
    ASSUME NEW T, NEW s \in Seq(T), NEW t \in Seq(T), s # <<>>
    PROVE  LET u == Tail(s) \o t
           IN  /\ Len(u) = Len(s) - 1 + Len(t)
               /\ \A m \in 1 .. Len(s) - 1 : u[m] = s[m + 1]
               /\ \A m \in Len(s) .. Len(u) : u[m] \in Range(t)
<1>1. PICK n \in Nat : n = Len(s) /\ n >= 1 BY HeadTailFacts
<1>2. PICK k \in Nat : k = Len(t) /\ DOMAIN t = 1 .. k OBVIOUS
<1> DEFINE r == Tail(s)
<1>3. r \in Seq(T) /\ Len(r) = n - 1 /\ \A m \in 1 .. n - 1 : r[m] = s[m + 1]
  BY <1>1
<1> HIDE DEF r
<1> DEFINE u == r \o t
<1>4. /\ Len(u) = n - 1 + k
      /\ \A m \in 1 .. n - 1 + k : u[m] = IF m <= n - 1 THEN r[m] ELSE t[m - (n - 1)]
  <2>1. /\ Len(u) = Len(r) + Len(t)
        /\ \A m \in 1 .. Len(r) + Len(t) : u[m] = IF m <= Len(r) THEN r[m] ELSE t[m - Len(r)]
    BY <1>3, Joined
  <2> HIDE DEF u
  <2> QED BY <1>1, <1>2, <1>3, <2>1
<1> HIDE DEF u
<1>5. ASSUME NEW m \in 1 .. n - 1 PROVE u[m] = s[m + 1]
  <2>1. m \in 1 .. n - 1 + k /\ m <= n - 1 OBVIOUS
  <2> QED BY <1>3, <1>4, <2>1
<1>6. ASSUME NEW m \in n .. n - 1 + k PROVE u[m] \in Range(t)
  <2>1. m \in 1 .. n - 1 + k /\ ~(m <= n - 1) /\ m - (n - 1) \in 1 .. k BY <1>1
  <2>2. u[m] = t[m - (n - 1)] BY <1>4, <2>1
  <2> QED BY <1>2, <2>1, <2>2 DEF Range
<1> QED BY <1>1, <1>2, <1>4, <1>5, <1>6 DEF u, r

\* A turn keeps the order.
LEMMA OrderKeeps ==
    ASSUME LoadInv, NEW start \in Ids, NEW st \in bfsStates, OrderInv(start, st),
           st.queue # <<>>, BfsInv(start, parents, bfsStep(parents, st))
    PROVE  OrderInv(start, bfsStep(parents, st))
<1> DEFINE new == bfsStep(parents, st)
           id == Head(st.queue)
<1>1. PICK l \in Nat, c \in 1 .. Len(st.queue) : Levels(start, st, l, c) BY NextLevel
<1>2. Edges(parents) BY GraphEdges
<1>3. st.queue \in Seq(Ids) /\ st.out \in Seq(Ids) BY DEF bfsStates
<1>4. PICK len \in Nat : len = Len(st.queue) /\ len >= 1 /\ id = st.queue[1] /\ id \in Ids
  BY <1>3, HeadTailFacts
<1>5. /\ new \in bfsStates
      /\ \/ /\ id \in st.visited \/ IsNational(id)
            /\ new.visited = st.visited \cup {id} /\ new.out = st.out
            /\ new.queue = Tail(st.queue)
         \/ /\ id \notin st.visited /\ ~IsNational(id)
            /\ new.visited = st.visited \cup {id} /\ new.out = Append(st.out, id)
            /\ new.queue = Tail(st.queue) \o parents[id]
  <2>1. /\ new \in bfsStates
        /\ \/ /\ id \in st.visited /\ new.visited = st.visited /\ new.out = st.out
              /\ new.queue = Tail(st.queue)
           \/ /\ id \notin st.visited /\ IsNational(id)
              /\ new.visited = st.visited \cup {id} /\ new.out = st.out
              /\ new.queue = Tail(st.queue)
           \/ /\ id \notin st.visited /\ ~IsNational(id)
              /\ new.visited = st.visited \cup {id} /\ new.out = Append(st.out, id)
              /\ new.queue = Tail(st.queue) \o parents[id]
    BY <1>2, BfsSteps
  <2>2. id \in st.visited => st.visited = st.visited \cup {id} OBVIOUS
  <2> HIDE DEF new, id
  <2> QED BY <2>1, <2>2
<1>6. /\ Len(new.queue) \in Nat /\ len - 1 <= Len(new.queue)
      /\ \A m \in 1 .. len - 1 : new.queue[m] = st.queue[m + 1]
      /\ \A m \in len .. Len(new.queue) :
            /\ id \notin st.visited /\ ~IsNational(id)
            /\ new.queue[m] \in Range(parents[id])
  <2>1. CASE new.queue = Tail(st.queue)
    <3> DEFINE r == Tail(st.queue)
    <3>1. Len(r) = len - 1 /\ \A m \in 1 .. len - 1 : r[m] = st.queue[m + 1] BY <1>3, <1>4
    <3> HIDE DEF r, new
    <3>2. \A m : m \notin len .. len - 1 BY <1>4
    <3>3. new.queue = r BY <2>1 DEF r
    <3> QED BY <1>4, <3>1, <3>2, <3>3
  <2>2. CASE /\ id \notin st.visited /\ ~IsNational(id)
             /\ new.queue = Tail(st.queue) \o parents[id]
    <3>1. parents[id] \in Seq(Ids) BY <1>2, <1>4 DEF Edges
    <3>2. Len(parents[id]) \in Nat BY <3>1
    <3> DEFINE u == Tail(st.queue) \o parents[id]
    <3>3. /\ Len(u) = len - 1 + Len(parents[id])
          /\ \A m \in 1 .. len - 1 : u[m] = st.queue[m + 1]
          /\ \A m \in len .. Len(u) : u[m] \in Range(parents[id])
      BY <1>3, <1>4, <3>1, ConcatFacts
    <3> HIDE DEF new, id, u
    <3>4. new.queue = u BY <2>2 DEF u
    <3>5. PICK w \in Nat : w = Len(parents[id]) BY <3>2
    <3>6. Len(u) \in Nat /\ len - 1 <= Len(u)
      <4>1. Len(u) = len - 1 + w BY <3>3, <3>5
      <4>2. len >= 1 BY <1>4
      <4>3. len - 1 + w \in Nat /\ len - 1 <= len - 1 + w BY <4>2
      <4> QED BY <4>1, <4>3
    <3> QED BY <2>2, <3>3, <3>4, <3>6
  <2> QED BY <1>5, <2>1, <2>2
<1>7. new.visited = st.visited \cup {id} BY <1>5
<1> HIDE DEF new, id
<1>8. id \in Shown => Way(start, id, l)
  <2>1. 1 \in 1 .. c BY <1>4
  <2> QED BY <1>1, <1>4, <2>1 DEF Levels
<1>9. c - 1 \in 0 .. Len(new.queue) BY <1>4, <1>6
<1>10. Levels(start, new, l, c - 1)
  <2>1. ASSUME NEW m \in 1 .. c - 1, new.queue[m] \in Shown PROVE Way(start, new.queue[m], l)
    <3>1. m \in 1 .. len - 1 /\ m + 1 \in 1 .. c BY <1>4
    <3>2. new.queue[m] = st.queue[m + 1] BY <1>6, <3>1
    <3> QED BY <1>1, <2>1, <3>1, <3>2 DEF Levels
  <2>2. ASSUME NEW m \in c - 1 + 1 .. Len(new.queue), new.queue[m] \in Shown
        PROVE  Way(start, new.queue[m], l + 1)
    <3>1. CASE m <= len - 1
      <4>1. m \in 1 .. len - 1 /\ m + 1 \in c + 1 .. Len(st.queue) BY <1>4, <1>6, <3>1
      <4>2. new.queue[m] = st.queue[m + 1] BY <1>6, <4>1
      <4> QED BY <1>1, <2>2, <4>1, <4>2 DEF Levels
    <3>2. CASE ~(m <= len - 1)
      <4>1. m \in len .. Len(new.queue) BY <1>4, <1>6, <3>2
      <4>2. ~IsNational(id) /\ new.queue[m] \in Range(parents[id]) BY <1>6, <4>1
      <4>3. id \in Shown BY <1>4, <4>2 DEF Shown
      <4> QED BY <1>8, <2>2, <4>2, <4>3, WalkOn DEF Way
    <3> QED BY <3>1, <3>2
  <2>3. ASSUME NEW i \in new.visited \cap Shown PROVE \E n \in 0 .. l : Way(start, i, n)
    <3>1. CASE i \in st.visited BY <1>1, <2>3, <3>1 DEF Levels
    <3>2. CASE i = id
      <4>1. l \in 0 .. l OBVIOUS
      <4> QED BY <1>8, <2>3, <3>2, <4>1
    <3> QED BY <1>7, <3>1, <3>2
  <2>4. \A i \in Shown : \A n \in Nat : n < l /\ Way(start, i, n) => i \in new.visited
    BY <1>1, <1>7 DEF Levels
  <2>5. ASSUME NEW i \in Shown, Way(start, i, l)
        PROVE  i \in new.visited \/ \E m \in 1 .. c - 1 : new.queue[m] = i
    <3>1. CASE i \in st.visited BY <1>7, <3>1
    <3>2. CASE i \notin st.visited
      <4>1. PICK m \in 1 .. c : st.queue[m] = i BY <1>1, <2>5, <3>2 DEF Levels
      <4>2. CASE m = 1 BY <1>4, <1>7, <4>1, <4>2
      <4>3. CASE m # 1
        <5>1. PICK k \in 1 .. c - 1 : k + 1 = m
          <6>1. m - 1 \in 1 .. c - 1 /\ m - 1 + 1 = m BY <1>4, <4>3
          <6> QED BY <6>1
        <5>2. k \in 1 .. len - 1 BY <1>4
        <5>3. new.queue[k] = i BY <1>6, <4>1, <5>1, <5>2
        <5> QED BY <5>3
      <4> QED BY <4>2, <4>3
    <3> QED BY <3>1, <3>2
  <2> QED BY <2>1, <2>2, <2>3, <2>4, <2>5 DEF Levels
<1>11. OutSorted(start, new.out)
  <2>1. CASE new.out = st.out BY <2>1 DEF OrderInv
  <2>2. CASE id \notin st.visited /\ ~IsNational(id) /\ new.out = Append(st.out, id)
    <3>1. PICK n \in Nat : n = Len(st.out) /\ DOMAIN st.out = 1 .. n BY <1>3
    <3>2. /\ Len(new.out) = n + 1 /\ new.out[n + 1] = id
          /\ \A k \in 1 .. n : new.out[k] = st.out[k]
      BY <1>3, <2>2, <3>1
    <3>3. \A k \in 1 .. n : st.out[k] \in st.visited /\ st.out[k] \in Shown
      <4>1. \A k \in 1 .. n : st.out[k] \in Range(st.out) BY <3>1 DEF Range
      <4>2. \A k \in 1 .. n : st.out[k] \in Ids BY <1>3, <3>1
      <4> QED BY <4>1, <4>2 DEF OrderInv, BfsInv, Shown
    <3>4. id \in Shown BY <1>4, <2>2 DEF Shown
    <3>5. ASSUME NEW k \in 1 .. n PROVE st.out[k] # id /\ NoFarther(start, st.out[k], id)
      <4>1. st.out[k] # id BY <2>2, <3>3
      <4>2. PICK m \in 0 .. l : Way(start, st.out[k], m) BY <1>1, <3>3 DEF Levels
      <4>3. ASSUME NEW q \in Nat, Way(start, id, q)
            PROVE  \E j \in Nat : j <= q /\ Way(start, st.out[k], j)
        <5>1. ~(q < l) BY <1>1, <2>2, <3>4, <4>3 DEF Levels
        <5>2. m \in Nat /\ m <= q BY <5>1
        <5> QED BY <4>2, <5>2
      <4> QED BY <4>1, <4>3 DEF NoFarther
    <3>6. ASSUME NEW k \in 1 .. n + 1, NEW m \in 1 .. n + 1, k < m
          PROVE  new.out[k] # new.out[m] /\ NoFarther(start, new.out[k], new.out[m])
      <4>1. CASE m = n + 1
        <5>1. k \in 1 .. n BY <3>6, <4>1
        <5> QED BY <3>2, <3>5, <4>1, <5>1
      <4>2. CASE m # n + 1
        <5>1. k \in 1 .. n /\ m \in 1 .. n BY <3>6, <4>2
        <5>2. st.out[k] # st.out[m] /\ NoFarther(start, st.out[k], st.out[m])
          BY <3>1, <3>6, <5>1 DEF OrderInv, OutSorted
        <5> QED BY <3>2, <5>1, <5>2
      <4> QED BY <4>1, <4>2
    <3> QED BY <3>2, <3>6 DEF OutSorted
  <2> QED BY <1>5, <2>1, <2>2
<1>12. BfsInv(start, parents, new) BY DEF new
<1> QED BY <1>9, <1>10, <1>11, <1>12 DEF OrderInv, new

\* The walk up collects each region once, the nearer ones first.
LEMMA WalkSorted ==
    ASSUME LoadInv, NEW start \in Ids
    PROVE  AncestorRegions(start) \in Seq(Ids) /\ OutSorted(start, AncestorRegions(start))
<1> DEFINE X == {st \in bfsStates : OrderInv(start, st)}
           init == [queue |-> <<start>>, visited |-> {}, out |-> <<>>]
<1>1. Edges(parents) /\ IsFiniteSet(Ids) BY GraphEdges
<1>2. ASSUME NEW st \in X, st.queue # <<>> PROVE bfsStep(parents, st) \in X
  <2>1. st \in bfsStates /\ OrderInv(start, st) OBVIOUS
  <2>2. BfsInv(start, parents, st) BY <2>1 DEF OrderInv
  <2>3. bfsStep(parents, st) \in bfsStates /\ BfsInv(start, parents, bfsStep(parents, st))
    BY <1>1, <1>2, <2>1, <2>2, BfsKeeps
  <2>4. OrderInv(start, bfsStep(parents, st)) BY <1>2, <2>1, <2>3, OrderKeeps
  <2> QED BY <2>3, <2>4
<1>3. init \in X
  <2>1. init \in bfsStates BY DEF bfsStates
  <2>2. init.queue = <<start>> /\ init.visited = {} /\ init.out = <<>> OBVIOUS
  <2>3. Range(<<start>>) = {start} /\ Range(<<>>) = {} BY DEF Range
  <2>4. start \in Reach(start, parents) BY <1>1, ReachFacts
  <2> HIDE DEF init
  <2>5. BfsInv(start, parents, init) BY <2>2, <2>3, <2>4 DEF BfsInv
  <2>6. Len(init.queue) = 1 /\ init.queue[1] = start /\ Len(init.out) = 0 BY <2>2
  <2>7. /\ \A i : Way(start, i, 0) <=> start = i /\ start \in Shown
        /\ \A n \in Nat : ~(n < 0)
        /\ \A m : m \notin 1 + 1 .. 1
        /\ \A m \in 1 .. 1 : m = 1
        /\ 1 \in 1 .. 1 /\ 1 \in 0 .. 1 /\ 0 \in Nat
        /\ \A m : m \notin 1 .. 0
    <3>1. \A i : Way(start, i, 0) <=> start = i /\ start \in Shown BY WalkNone DEF Way
    <3> QED BY <3>1
  <2>8. Levels(start, init, 0, 1) BY <2>2, <2>6, <2>7 DEF Levels
  <2>9. OutSorted(start, init.out) BY <2>6, <2>7 DEF OutSorted
  <2>10. \E l \in Nat : \E c \in 0 .. Len(init.queue) : Levels(start, init, l, c)
    BY <2>6, <2>7, <2>8
  <2>11. OrderInv(start, init) BY <2>5, <2>9, <2>10 DEF OrderInv
  <2> QED BY <2>1, <2>11
<1>4. PICK t \in X : t.queue = <<>> /\ bfsCollectIDs(start, parents) = t.out
  <2>1. X \in SUBSET bfsStates OBVIOUS
  <2> HIDE DEF X
  <2> QED BY <1>1, <1>2, <1>3, <2>1, BfsLoop
<1>5. t.out \in Seq(Ids) /\ OutSorted(start, t.out) BY DEF bfsStates, OrderInv
<1> QED BY <1>4, <1>5 DEF AncestorRegions

\* It collects what a way leads to.
LEMMA WalkWays ==
    ASSUME LoadInv, NEW i \in Ids
    PROVE  Range(AncestorRegions(i)) = {j \in Ids : \E n \in Nat : Way(i, j, n)}
<1>1. Edges(parents) BY GraphEdges
<1>2. Range(AncestorRegions(i)) = Reach(i, parents) \cap Shown BY WalkRanges
<1>3. \A j \in Ids : (\E n \in Nat : Way(i, j, n)) => j \in Reach(i, parents) \cap Shown
  BY WayReaches
<1> DEFINE X == {j \in Ids : IsNational(j) \/ \E n \in Nat : Way(i, j, n)}
<1>4. X \in SUBSET Ids OBVIOUS
<1>5. i \in X
  <2>1. ~IsNational(i) => Way(i, i, 0) BY WalkNone DEF Way, Shown
  <2> QED BY <2>1
<1>6. Closed(X, parents)
  <2> SUFFICES ASSUME NEW k \in X, ~IsNational(k), NEW p \in Range(parents[k]) PROVE p \in X
    BY DEF Closed
  <2>1. k \in Ids /\ p \in Ids BY <1>1 DEF Edges
  <2>2. CASE IsNational(p) BY <2>1, <2>2
  <2>3. CASE ~IsNational(p)
    <3>1. PICK n \in Nat : Way(i, k, n) OBVIOUS
    <3>2. k \in Shown /\ p \in Shown BY <2>1, <2>3 DEF Shown
    <3>3. Way(i, p, n + 1) BY <3>1, <3>2, WalkOn DEF Way
    <3>4. n + 1 \in Nat OBVIOUS
    <3> QED BY <2>1, <3>3, <3>4
  <2> QED BY <2>2, <2>3
<1>7. Reach(i, parents) \subseteq X
  <2> HIDE DEF X
  <2> QED BY <1>1, <1>4, <1>5, <1>6, ReachFacts
<1>8. \A j \in Reach(i, parents) \cap Shown : j \in Ids /\ \E n \in Nat : Way(i, j, n)
  BY <1>7 DEF Shown
<1> QED BY <1>2, <1>3, <1>8

\* A lookup's ancestors are exact.
LEMMA AncestryHolds == LoadInv => AncestryExact
<1> SUFFICES ASSUME LoadInv, NEW i \in Ids
             PROVE  LET a == AncestorRegions(i)
                    IN  /\ IsInjective(a)
                        /\ Range(a) = {j \in Ids : Distance(i, j) < Len(regions)}
                        /\ \A k \in 2 .. Len(a) : Distance(i, a[k - 1]) <= Distance(i, a[k])
  BY DEF AncestryExact
<1> DEFINE a == AncestorRegions(i)
<1>1. a \in Seq(Ids) /\ OutSorted(i, a) BY WalkSorted
<1>2. Range(a) = {j \in Ids : Distance(i, j) < Len(regions)} BY WalkWays, DistanceFacts
<1>3. \A j \in Range(a) : j \in Ids /\ \E n \in Nat : Way(i, j, n) BY WalkWays
<1> HIDE DEF a
<1>4. PICK len \in Nat : len = Len(a) /\ DOMAIN a = 1 .. len BY <1>1
<1>5. IsInjective(a)
  <2> SUFFICES ASSUME NEW k \in 1 .. len, NEW m \in 1 .. len, a[k] = a[m] PROVE k = m
    BY <1>4 DEF IsInjective
  <2>1. ~(k < m) /\ ~(m < k) BY <1>1, <1>4 DEF OutSorted
  <2> QED BY <2>1
<1>6. ASSUME NEW k \in 2 .. len PROVE Distance(i, a[k - 1]) <= Distance(i, a[k])
  <2>1. k - 1 \in 1 .. len /\ k \in 1 .. len /\ k - 1 < k BY <1>6
  <2> DEFINE x == a[k - 1]
             y == a[k]
  <2>2. NoFarther(i, x, y) BY <1>1, <1>4, <2>1 DEF OutSorted
  <2>3. x \in Range(a) /\ y \in Range(a) BY <1>4, <2>1 DEF Range
  <2> HIDE DEF x, y
  <2>4. x \in Ids /\ y \in Ids /\ \E n \in Nat : Way(i, y, n) BY <1>3, <2>3
  <2>5. Distance(i, y) \in Nat /\ Way(i, y, Distance(i, y)) BY <2>4, DistanceFacts
  <2>6. PICK m \in Nat : m <= Distance(i, y) /\ Way(i, x, m) BY <2>2, <2>5 DEF NoFarther
  <2>7. Distance(i, x) \in Nat /\ Distance(i, x) <= m BY <2>4, <2>6, DistanceFacts
  <2>8. Distance(i, x) <= Distance(i, y) BY <2>5, <2>6, <2>7
  <2> QED BY <2>8 DEF x, y
<1> QED BY <1>2, <1>4, <1>5, <1>6 DEF a

\* The match that the walk up finds, in terms of distances.
LEMMA NearestExact ==
    ASSUME LoadInv, NEW i \in Shown, NEW matching \in SUBSET Ids
    PROVE  LET found == bfsUpwardFirstMatch(i, matching)
               all == {j \in matching \ {i} : Distance(i, j) < Len(regions)}
           IN  IF all = {} THEN found = 0
               ELSE /\ found \in all
                    /\ \A j \in all \ {found} :
                           \/ Distance(i, found) < Distance(i, j)
                           \/ /\ Distance(i, found) = Distance(i, j)
                              /\ regions[found].slug < regions[j].slug
<1> DEFINE found == bfsUpwardFirstMatch(i, matching)
           all == {j \in matching \ {i} : Distance(i, j) < Len(regions)}
<1>1. i \in Ids BY DEF Shown
<1>2. NearestBy(i, matching, found) BY NearestFound
<1> HIDE DEF found
<1>3. ASSUME NEW j \in all
      PROVE  j \in (Shown \cap matching) \ {i} /\ Distance(i, j) \in Nat /\ Way(i, j, Distance(i, j))
  <2>1. j \in Ids /\ Distance(i, j) < Len(regions) OBVIOUS
  <2>2. PICK n \in Nat : Way(i, j, n) BY <1>1, <2>1, DistanceFacts
  <2>3. Distance(i, j) \in Nat /\ Way(i, j, Distance(i, j)) BY <1>1, <2>1, <2>2, DistanceFacts
  <2>4. j \in Shown BY <1>1, <2>2, WayReaches
  <2> QED BY <2>3, <2>4
<1>4. CASE found = 0
  <2>1. \A j \in Shown \ {i} : \A n \in Nat : Way(i, j, n) => j \notin matching
    BY <1>2, <1>4 DEF NearestBy
  <2>2. all = {}
    <3> SUFFICES ASSUME NEW j \in all PROVE FALSE OBVIOUS
    <3> HIDE DEF all
    <3> QED BY <1>3, <2>1
  <2> QED BY <1>4, <2>2 DEF found
<1>5. CASE found # 0
  <2>1. /\ found \in (Shown \cap matching) \ {i}
        /\ \E l \in Nat \ {0} :
              /\ Way(i, found, l) /\ \A n \in Nat : n < l => ~Way(i, found, n)
              /\ \A j \in (Shown \cap matching) \ {i, found} : \A n \in Nat :
                    Way(i, j, n) =>
                        l < n \/ (l = n /\ regions[found].slug < regions[j].slug)
    BY <1>2, <1>5 DEF NearestBy
  <2>2. PICK l \in Nat \ {0} :
              /\ Way(i, found, l) /\ \A n \in Nat : n < l => ~Way(i, found, n)
              /\ \A j \in (Shown \cap matching) \ {i, found} : \A n \in Nat :
                    Way(i, j, n) =>
                        l < n \/ (l = n /\ regions[found].slug < regions[j].slug)
    BY <2>1
  <2>3. found \in Ids /\ l \in Nat BY <2>1 DEF Shown
  <2>4. /\ Distance(i, found) \in Nat /\ Distance(i, found) <= l
        /\ Distance(i, found) < Len(regions) /\ Way(i, found, Distance(i, found))
    BY <1>1, <2>2, <2>3, DistanceFacts
  <2>5. Distance(i, found) = l
    <3>1. ~(Distance(i, found) < l) BY <2>2, <2>4
    <3> QED BY <2>3, <2>4, <3>1
  <2>6. found \in all BY <2>1, <2>4
  <2>7. ASSUME NEW j \in all \ {found}
        PROVE  \/ Distance(i, found) < Distance(i, j)
               \/ /\ Distance(i, found) = Distance(i, j)
                  /\ regions[found].slug < regions[j].slug
    <3>1. j \in (Shown \cap matching) \ {i} /\ Distance(i, j) \in Nat /\ Way(i, j, Distance(i, j))
      <4> HIDE DEF all
      <4> QED BY <1>3, <2>7
    <3> QED BY <2>2, <2>5, <3>1
  <2> QED BY <2>6, <2>7 DEF found
<1> QED BY <1>4, <1>5

\* A way of one edge or more starts at a parent.
LEMMA WayStarts ==
    ASSUME LoadInv, NEW i \in Ids, NEW j, NEW l \in Nat \ {0}, Way(i, j, l)
    PROVE  \E p \in Range(parents[i]) : ~IsNational(p)
<1>1. PICK p \in [0 .. l -> Shown] :
          /\ p[0] = i /\ p[l] = j
          /\ \A k \in 0 .. l - 1 : p[k + 1] \in Range(parents[p[k]])
  BY DEF Way, Walk
<1>2. 0 \in 0 .. l - 1 /\ 1 \in 0 .. l /\ 0 + 1 = 1 OBVIOUS
<1>3. p[1] \in Range(parents[i]) /\ p[1] \in Shown BY <1>1, <1>2
<1> QED BY <1>3 DEF Shown

\* The ancestor found of a kind is the nearest, and the label is there.
LEMMA NearestHolds == LoadInv => NearestAncestorExact
<1> SUFFICES ASSUME LoadInv, NEW i \in Ids, ~IsNational(i)
             PROVE  LET Nearest(found, Kind(_)) ==
                            LET all == {j \in Ids \ {i} : /\ Distance(i, j) < Len(regions)
                                                          /\ Kind(regions[j].kind)}
                            IN  IF all = {} THEN found = 0
                                ELSE /\ found \in all
                                     /\ \A j \in all \ {found} :
                                            \/ Distance(i, found) < Distance(i, j)
                                            \/ /\ Distance(i, found) = Distance(i, j)
                                               /\ regions[found].slug < regions[j].slug
                    IN  /\ Nearest(BrowseParent(i), IsBrowseKind)
                        /\ Nearest(StateAncestor(i), IsStateKind)
                        /\ ContextRegion(i) = 0 <=> \A p \in Range(parents[i]) : IsNational(p)
  BY DEF NearestAncestorExact
<1>1. i \in Shown BY DEF Shown
<1> DEFINE browse == {j \in Ids : IsBrowseKind(regions[j].kind)}
           state == {j \in Ids : IsStateKind(regions[j].kind)}
           InReach(j) == Distance(i, j) < Len(regions)
           Closest(found, all) ==
               IF all = {} THEN found = 0
               ELSE /\ found \in all
                    /\ \A j \in all \ {found} :
                           \/ Distance(i, found) < Distance(i, j)
                           \/ /\ Distance(i, found) = Distance(i, j)
                              /\ regions[found].slug < regions[j].slug
<1>2. Closest(BrowseParent(i), {j \in browse \ {i} : InReach(j)})
  <2>1. browse \in SUBSET Ids OBVIOUS
  <2>2. BrowseParent(i) = bfsUpwardFirstMatch(i, browse) BY DEF BrowseParent
  <2> HIDE DEF browse
  <2> QED BY <1>1, <2>1, <2>2, NearestExact
<1>3. Closest(StateAncestor(i), {j \in state \ {i} : InReach(j)})
  <2>1. state \in SUBSET Ids OBVIOUS
  <2>2. StateAncestor(i) = bfsUpwardFirstMatch(i, state) BY DEF StateAncestor
  <2> HIDE DEF state
  <2> QED BY <1>1, <2>1, <2>2, NearestExact
<1>4. /\ {j \in browse \ {i} : InReach(j)} = {j \in Ids \ {i} : InReach(j) /\ IsBrowseKind(regions[j].kind)}
      /\ {j \in state \ {i} : InReach(j)} = {j \in Ids \ {i} : InReach(j) /\ IsStateKind(regions[j].kind)}
  OBVIOUS
<1>5. ContextRegion(i) = 0 <=> \A p \in Range(parents[i]) : IsNational(p)
  <2> DEFINE direct == {p \in Range(parents[i]) : ~IsNational(p)}
             anc == StateAncestor(i)
  <2>1. ContextRegion(i) = IF anc # 0 THEN anc ELSE IF direct # {} THEN SlugFirst(direct) ELSE 0
    BY DEF ContextRegion
  <2>2. direct \in SUBSET Ids BY GraphEdges DEF Edges
  <2>3. direct # {} => SlugFirst(direct) # 0
    <3>1. \A j \in Ids : j # 0 BY DEF Ids
    <3> HIDE DEF direct
    <3> QED BY <2>2, <3>1, SlugFirstFacts
  <2>4. anc # 0 => direct # {}
    <3> SUFFICES ASSUME anc # 0 PROVE direct # {} OBVIOUS
    <3>1. state \in SUBSET Ids OBVIOUS
    <3>2. anc = bfsUpwardFirstMatch(i, state) BY DEF StateAncestor
    <3>3. NearestBy(i, state, anc)
      <4> HIDE DEF state, anc
      <4> QED BY <1>1, <3>1, <3>2, NearestFound
    <3>4. PICK l \in Nat \ {0} : Way(i, anc, l)
      <4> HIDE DEF state, anc
      <4> QED BY <3>3 DEF NearestBy
    <3> QED BY <3>4, WayStarts
  <2> QED BY <2>1, <2>3, <2>4
<1> HIDE DEF browse, state
<1> QED BY <1>2, <1>3, <1>4, <1>5

\* Both.
LEMMA WalksHold == LoadInv => WalksExact
  BY AncestryHolds, NearestHolds DEF WalksExact

-----------------------------------------------------------------------------
(* The theorems.                                                           *)

\* The loader's invariant: the graph has only edges to regions loaded before, a
\* region per slug and no edge the files do not name.
THEOREM LoaderInvariant == RegionSpec => []LoadInv
<1>1. Init => LoadInv BY LoadInit
<1>2. LoadInv /\ [Next]_rsvars => LoadInv' BY LoadNext
<1> QED BY <1>1, <1>2, PTL DEF RegionSpec

\* DetectCycles refuses a file exactly if its own parent edges form a cycle, and
\* the check of the whole graph never fires.
THEOREM CycleCheckCorrect == RegionSpec => []CycleCheckExact
  BY LoaderInvariant, CyclesExact, PTL

\* AncestorRegions, BrowseParent, StateAncestor and the label of a search result
\* are what the seed's parent edges make them: each ancestor once, nearest first,
\* the nearest of a kind, and slug-first among the equally near.
THEOREM WalksCorrect == RegionSpec => []WalksExact
  BY LoaderInvariant, WalksHold, PTL

\* A region page shows the org exactly if a lookup below the region finds it or a
\* metro rolls up to it; ListRecent and Stats count it exactly if a page shows it.
THEOREM PagesCorrect == RegionSpec => []PagesMirrorLookups
  BY LoaderInvariant, PagesMirror, PTL

\* ListRegions nests a row under a row that is listed too and shows no less.
THEOREM RowsCorrect == RegionSpec => []BrowseTreeConsistent
  BY LoaderInvariant, RowsNest, PTL

\* assertReachableLeaves leaves no local region that nothing anchors.
THEOREM LocalsCorrect == RegionSpec => []LocalRegionsReachable
  BY LoaderInvariant, LocalsReached, PTL

\* A lookup finds a row exactly if their codes have the same normal form, though
\* NormalizePostalCode is not idempotent, and no mapped code is military.
THEOREM SpellingsCorrect == RegionSpec => []EverySpellingFound
  BY SpellingsFound, PTL

\* A file of orgs promoted as they were submitted passes the seed loader's checks,
\* validateOrgs' duplicate-slug check included, exactly if each names a region and
\* no two derive the same slug.
THEOREM SubmissionsLoad == RegionSpec => []AcceptedSubmissionLoads
  BY AcceptedLoads, PTL

=============================================================================
