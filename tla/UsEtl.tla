------------------------------- MODULE UsEtl -------------------------------
(***************************************************************************)
(* The United States plan (api/internal/etl/us): from the rows of the      *)
(* Census and HUD files to region rows and one anchor per ZIP code.        *)
(*                                                                         *)
(* A file is the sequence of its rows.  A county is a number with its      *)
(* state (the FIPS prefix), a CBSA title is its first city and the states  *)
(* it names.                                                               *)
(***************************************************************************)
EXTENDS EtlTables, TLC

CONSTANTS
    CountyState,       \* the state of each county; not all are KnownStates
    KnownStates,       \* DOMAIN of stateFIPSToSlug and of statePostalToSlug
    placeToLeaf,       \* curated tables: place to city leaf,
    nycBoroughCounty,  \* county to borough leaf,
    countyToLeaf,      \* county to county leaf
    ctLegacyCounties   \* counties the CBSA file no longer names

-----------------------------------------------------------------------------
(* Regions: cbsa.go, output.go.                                            *)

\* Metropolitan rows by CBSA code; the first row of a code gives the title.
parseCBSA(rows) ==
    LET kept == SelectSeq(rows, LAMBDA r : r.metro)
        OfCode(code) == SelectSeq(kept, LAMBDA r : r.code = code)
    IN  [code \in {r.code : r \in ToSet(kept)} |->
            [title    |-> Head(OfCode(code)).title,
             counties |-> {r.county : r \in ToSet(OfCode(code))}]]

countyToMSA(msas) ==
    [c \in UNION {msas[code].counties : code \in DOMAIN msas} |->
        CHOOSE code \in DOMAIN msas : c \in msas[code].counties]

\* The known states the counties of an MSA lie in, sorted.
spannedStates(m) ==
    SetToSortSeq({CountyState[c] : c \in m.counties} \cap KnownStates, <)

\* "<first city>-<first state of the title>-metro", without the state if the
\* title names none; the code without a city.
autoSlug(code, title) ==
    IF title.city = 0 THEN <<8, code>>
    ELSE IF title.states = <<>> THEN <<title.city, SuffixWord>>
    ELSE <<title.city, Head(title.states), SuffixWord>>

autoParents(title) ==
    LET known == SelectSeq(title.states, LAMBDA s : s \in KnownStates)
        first == SelectSeq([i \in DOMAIN known |-> i],
                           LAMBDA i : \A j \in 1 .. i - 1 : known[j] # known[i])
    IN  [i \in DOMAIN first |-> StateSlug(known[first[i]])]

\* An override replaces everything, the last one of a code wins.  Over two
\* states or more the MSA is a stateless umbrella with rollup_states.
assignMSASlugs(code, m, overrides) ==
    LET mine   == SelectSeq(overrides, LAMBDA o : o.code = code)
        states == spannedStates(m)
    IN  IF mine # <<>> THEN Last(mine)
        ELSE [code    |-> code,
              slug    |-> autoSlug(code, m.title),
              parents |-> IF Len(states) >= 2 THEN <<>> ELSE autoParents(m.title),
              rollup  |-> IF Len(states) >= 2
                          THEN [i \in DOMAIN states |-> StateSlug(states[i])] ELSE <<>>]

\* The umbrella of each MSA and, over two states or more, its portions.
buildRegionRows(msas, overrides) ==
    LET codes == SetToSortSeq(DOMAIN msas, <)
        RowsOf(code) ==
            LET a == assignMSASlugs(code, msas[code], overrides)
                states == spannedStates(msas[code])
            IN  <<RegionRow(a.slug, "us:metro", a.parents, a.rollup)>>
                \o IF Len(states) < 2 THEN <<>>
                   ELSE BuildPortionRows(a.slug, "us:metro-portion", states)
    IN  FlattenSeq([i \in DOMAIN codes |-> RowsOf(codes[i])])

\* regionRouting: the lookups the postal pass uses.
regionRouting(msas, overrides) ==
    LET Slug(code) == assignMSASlugs(code, msas[code], overrides).slug
        spans(code) == {s \in ToSet(spannedStates(msas[code])) : Len(spannedStates(msas[code])) >= 2}
    IN  [countyToMSA  |-> countyToMSA(msas),
         cbsaToSlug   |-> [code \in DOMAIN msas |-> Slug(code)],
         portionSlugs |-> [k \in UNION {{code} \X spans(code) : code \in DOMAIN msas} |->
                              Append(Slug(k[1]), k[2])]]

-----------------------------------------------------------------------------
(* Postal codes: zcta.go, hud.go, county_resolver.go, crosswalk.go.        *)

\* Per ZIP the row with the largest share; the first one keeps a tie.
LargestRow(rows) ==
    FoldLeft(LAMBDA out, r : IF r.zip \in DOMAIN out /\ r.size <= out[r.zip].size
                             THEN out ELSE (r.zip :> r) @@ out,
             <<>>, rows)

parseZCTARelationship(rows) == LargestRow(rows)
hudPrimaryCounty(rows)      == LargestRow(rows)

Unresolved == [slug |-> <<>>, reason |-> "unknown"]
Anchor(slug, reason) == [slug |-> slug, reason |-> reason]

\* Mutant: every county of an MSA goes to the umbrella.
ResolveUmbrella(rt, c) ==
    IF c \in DOMAIN nycBoroughCounty THEN Anchor(CuratedSlug(nycBoroughCounty[c]), "nyc-borough")
    ELSE IF c \in DOMAIN countyToLeaf THEN Anchor(CuratedSlug(countyToLeaf[c]), "county-leaf")
    ELSE IF c \in DOMAIN rt.countyToMSA THEN Anchor(rt.cbsaToSlug[rt.countyToMSA[c]], "msa")
    ELSE IF CountyState[c] \in KnownStates THEN Anchor(StateSlug(CountyState[c]), "state")
    ELSE Unresolved

\* The smallest curated region for a county.
Resolve(rt, c) ==
    IF c \in DOMAIN nycBoroughCounty THEN Anchor(CuratedSlug(nycBoroughCounty[c]), "nyc-borough")
    ELSE IF c \in DOMAIN countyToLeaf THEN Anchor(CuratedSlug(countyToLeaf[c]), "county-leaf")
    ELSE IF /\ c \in DOMAIN rt.countyToMSA
            /\ <<rt.countyToMSA[c], CountyState[c]>> \in DOMAIN rt.portionSlugs
         THEN Anchor(rt.portionSlugs[<<rt.countyToMSA[c], CountyState[c]>>], "msa-portion")
    ELSE IF c \in DOMAIN rt.countyToMSA /\ rt.cbsaToSlug[rt.countyToMSA[c]] # <<>>
         THEN Anchor(rt.cbsaToSlug[rt.countyToMSA[c]], "msa")
    ELSE IF CountyState[c] \in KnownStates THEN Anchor(StateSlug(CountyState[c]), "state")
    ELSE Unresolved

Resolved(f) == [z \in {y \in DOMAIN f : f[y] # Unresolved} |-> f[z]]

\* City leaf of the primary place, else the primary county's region.
usCrosswalk(places, counties, rt) ==
    Resolved([z \in DOMAIN places \cup DOMAIN counties |->
        IF z \in DOMAIN places /\ places[z].geoid \in DOMAIN placeToLeaf
        THEN Anchor(CuratedSlug(placeToLeaf[places[z].geoid]), "city-leaf")
        ELSE IF z \in DOMAIN counties THEN Resolve(rt, counties[z].geoid)
        ELSE Unresolved])

\* A ZIP that fell through to the state because its county is a retired one
\* is resolved again by HUD's primary county.
reconcileCTLegacyCounties(anchors, counties, primary, rt) ==
    [z \in DOMAIN anchors |->
        IF /\ anchors[z].reason = "state"
           /\ z \in DOMAIN counties /\ counties[z].geoid \in ctLegacyCounties
           /\ z \in DOMAIN primary
           /\ Resolve(rt, primary[z].geoid).slug \notin {<<>>, anchors[z].slug}
        THEN Anchor(Resolve(rt, primary[z].geoid).slug, "ct-reconciled")
        ELSE anchors[z]]

\* ZIPs without a ZCTA anchor, by HUD's primary county.
crosswalkHUDBackfill(primary, anchors, rt) ==
    Resolved([z \in DOMAIN primary \ DOMAIN anchors |-> Resolve(rt, primary[z].geoid)])

\* writePostalCodesCSV: the ZCTA anchor wins.
writePostalCodesCSV(zcta, hud) == zcta @@ hud

\* backfillHUD and the merge; without a HUD file the ZCTA anchors stand.
usPostal(in) ==
    LET msas     == parseCBSA(in.cbsa)
        rt       == regionRouting(msas, in.overrides)
        places   == parseZCTARelationship(in.places)
        counties == parseZCTARelationship(in.counties)
        primary  == hudPrimaryCounty(in.hud)
        zcta     == reconcileCTLegacyCounties(usCrosswalk(places, counties, rt), counties, primary, rt)
    IN  writePostalCodesCSV(zcta, crosswalkHUDBackfill(primary, zcta, rt))

usRegions(in) == buildRegionRows(parseCBSA(in.cbsa), in.overrides)

=============================================================================
