----------------------------- MODULE EtlTables -----------------------------
(***************************************************************************)
(* What the country plans of the ETL share (api/internal/etl): region      *)
(* rows, the per-state portions of an umbrella, and the order in which the *)
(* rows are written.                                                       *)
(*                                                                         *)
(* A slug is the sequence of its words, a word is a number, and slugs are  *)
(* ordered as their text is: word by word, a prefix first ('-' sorts       *)
(* before every letter and digit).                                         *)
(***************************************************************************)
EXTENDS Naturals, Sequences, FiniteSets, SequencesExt

\* ParseTarget accepts these.
Targets == {"all", "regions", "postal"}
Regions(t) == t \in {"all", "regions"}
Postal(t)  == t \in {"all", "postal"}

\* A state or province is a number, its abbreviation is the same word; state
\* slugs and the slugs of curated regions are kept apart by their first word.
StateSlug(s)   == <<0, s>>
CuratedSlug(l) == <<9, l>>
SuffixWord     == 5                  \* "metro", "cma"

SlugLess(a, b) ==
    \E k \in 0 .. Len(a) :
        /\ k <= Len(b) /\ SubSeq(a, 1, k) = SubSeq(b, 1, k)
        /\ IF k = Len(a) THEN k < Len(b)
           ELSE k < Len(b) /\ a[k + 1] < b[k + 1]

RegionRow(slug, kind, parents, rollup) ==
    [slug |-> slug, kind |-> kind, parents |-> parents, rollup |-> rollup]

\* One portion per spanned state: "<umbrella>-<abbrev>", under both.
BuildPortionRows(umbrella, kind, spanned) ==
    [i \in DOMAIN spanned |->
        RegionRow(Append(umbrella, spanned[i]), kind, <<StateSlug(spanned[i]), umbrella>>, <<>>)]

\* Mutant: the rows are written in the order they were built, last first.
WrittenRowsReversed(rows) == Reverse(rows)

\* The rows as WriteRegionsTOML writes them.
WrittenRows(rows) == SortSeq(rows, LAMBDA r, s : SlugLess(r.slug, s.slug))

\* WriteRegionsTOML refuses a row without a slug.
Writable(rows) == \A i \in DOMAIN rows : rows[i].slug # <<>>

-----------------------------------------------------------------------------
(* The vocabulary of the properties.                                       *)

\* What the loader (internal/seedfiles) asks of the generated files: at least
\* one region, distinct slugs, parents defined before their children or in an
\* earlier file, and an existing region for every postal code.
Loads(rows, csv, outside) ==
    LET slugs == {rows[i].slug : i \in DOMAIN rows} IN
    /\ rows # <<>>
    /\ Cardinality(slugs) = Len(rows)
    /\ \A i \in DOMAIN rows : \A p \in ToSet(rows[i].parents) :
          p \in outside \/ \E j \in 1 .. i - 1 : rows[j].slug = p
    /\ \A i \in DOMAIN rows : ToSet(rows[i].rollup) \subseteq outside
    /\ \A z \in DOMAIN csv : csv[z].slug \in outside \cup slugs

\* The regions above a slug; generated rows nest three deep at most.
Parents(rows, S) ==
    UNION {ToSet(rows[i].parents) : i \in {j \in DOMAIN rows : rows[j].slug \in S}}
Above(rows, slug) ==
    LET one == {slug} \cup Parents(rows, {slug})
        two == one \cup Parents(rows, one)
    IN  two \cup Parents(rows, two)

ReachedStates(rows, slug) == {s[2] : s \in {t \in Above(rows, slug) : t[1] = 0}}

=============================================================================
