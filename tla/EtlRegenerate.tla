--------------------------- MODULE EtlRegenerate ---------------------------
(***************************************************************************)
(* `etl regenerate` (api/cmd/server/etl.go and the two Regenerate hooks):  *)
(* parse the staged sources, write the region file, then the postal file.  *)
(* Both are truncated and written in place, so a failure or a kill leaves  *)
(* a partial one; the context is not consulted.  The operator may stage    *)
(* other sources, or edit the overrides, between two invocations.          *)
(***************************************************************************)
EXTENDS UsEtl, CaEtl

CONSTANTS
    Inputs,          \* staged sources and overrides, with their country
    Restaged,        \* what may be staged later in their place
    CuratedRegions,  \* slugs of the hand-kept files that load earlier
    MaxRegenerates   \* bound on the number of invocations

VARIABLES
    rinput,   \* what is staged
    rpc,      \* where the command is; "idle", or how the last one ended
    rtarget,  \* --target
    toml,     \* the generated region file: absent, partial or whole, with
              \* the sources it was made from
    csv,      \* the generated postal file
    rruns     \* invocations so far

rvars == <<rinput, rpc, rtarget, toml, csv, rruns>>

Absent == [is |-> "absent"]
Partial == [is |-> "partial"]
Whole(rows) == [is |-> "whole", rows |-> rows, from |-> rinput]

RegenerateEnded == {"idle", "nil", "error", "killed"}

RegenerateInit(inputs) ==
    /\ rinput \in inputs
    /\ rpc = "idle" /\ rtarget = "all"
    /\ toml = Absent /\ csv = Absent /\ rruns = 0

RegionRows == IF rinput.country = "US" THEN usRegions(rinput) ELSE caRegions(rinput)
PostalRows == IF rinput.country = "US" THEN usPostal(rinput) ELSE caPostal(rinput)

\* runEtlRegenerate, up to the plan's hook.
StartRegenerate(t) ==
    /\ rpc \in RegenerateEnded /\ rruns < MaxRegenerates
    /\ rpc' = "regions" /\ rtarget' = t /\ rruns' = rruns + 1
    /\ UNCHANGED <<rinput, toml, csv>>

\* The operator downloads again, adds a file, or edits the overrides; the plan's
\* output files belong to one country.
Restage ==
    /\ rpc \in RegenerateEnded /\ rruns \in 1 .. MaxRegenerates - 1
    /\ \E in \in Restaged : in.country = rinput.country /\ rinput' = in
    /\ rpc' = "idle"
    /\ UNCHANGED <<rtarget, toml, csv, rruns>>

\* The delineation and the overrides are read for every target.
ReadRegions ==
    /\ rpc = "regions"
    /\ rpc' = IF Regions(rtarget) THEN "create toml" ELSE "postal"
    /\ UNCHANGED <<rinput, rtarget, toml, csv, rruns>>

\* A source or the overrides cannot be opened or parsed, or a file created.
ReadFails ==
    /\ rpc \in {"regions", "create toml", "postal", "create csv"}
    /\ rpc' = "error"
    /\ UNCHANGED <<rinput, rtarget, toml, csv, rruns>>

\* WriteFile: os.Create truncates before anything is written.
CreateTOML ==
    /\ rpc = "create toml"
    /\ toml' = Partial /\ rpc' = "write toml"
    /\ UNCHANGED <<rinput, rtarget, csv, rruns>>

WriteTOML ==
    /\ rpc = "write toml" /\ Writable(RegionRows)
    /\ toml' = Whole(WrittenRows(RegionRows))
    /\ rpc' = IF Postal(rtarget) THEN "postal" ELSE "nil"
    /\ UNCHANGED <<rinput, rtarget, csv, rruns>>

\* A row is refused, or a write or the close fails.
WriteFails ==
    /\ rpc \in {"write toml", "write csv"}
    /\ rpc' = "error"
    /\ UNCHANGED <<rinput, rtarget, toml, csv, rruns>>

\* The places, counties and, when staged, HUD; or the FSAs and the join.
ReadPostal ==
    /\ rpc = "postal"
    /\ rpc' = "create csv"
    /\ UNCHANGED <<rinput, rtarget, toml, csv, rruns>>

CreateCSV ==
    /\ rpc = "create csv"
    /\ csv' = Partial /\ rpc' = "write csv"
    /\ UNCHANGED <<rinput, rtarget, toml, rruns>>

WriteCSV ==
    /\ rpc = "write csv"
    /\ csv' = Whole(PostalRows) /\ rpc' = "nil"
    /\ UNCHANGED <<rinput, rtarget, toml, rruns>>

KillRegenerate ==
    /\ rpc \notin RegenerateEnded
    /\ rpc' = "killed"
    /\ UNCHANGED <<rinput, rtarget, toml, csv, rruns>>

RegenerateStep ==
    \/ ReadRegions \/ ReadFails \/ CreateTOML \/ WriteTOML \/ WriteFails
    \/ ReadPostal \/ CreateCSV \/ WriteCSV

RegenerateNext ==
    \/ \E t \in Targets : StartRegenerate(t)
    \/ Restage
    \/ RegenerateStep \/ KillRegenerate

-----------------------------------------------------------------------------
(* Reference definitions.                                                  *)

\* The row of a ZIP no other row beats: larger, or as large and earlier.
PrimaryOf(rows, z) ==
    rows[CHOOSE i \in DOMAIN rows :
            /\ rows[i].zip = z
            /\ \A j \in DOMAIN rows : rows[j].zip = z =>
                  rows[i].size > rows[j].size \/ (rows[i].size = rows[j].size /\ i <= j)].geoid

\* What a county may anchor at, with its tier; the lowest tier is the finest.
MetroRows(in, code) == SelectSeq(in.cbsa, LAMBDA r : r.metro /\ r.code = code)
MetrosOf(in, c) == {r.code : r \in {s \in ToSet(in.cbsa) : s.metro /\ s.county = c}}
Overridden(in, code) == \E o \in ToSet(in.overrides) : o.code = code
MetroSlug(in, code) ==
    LET mine == SelectSeq(in.overrides, LAMBDA o : o.code = code)
    IN  IF mine # <<>> THEN Last(mine).slug ELSE autoSlug(code, Head(MetroRows(in, code)).title)
Straddles(in, code) ==
    \E r, s \in ToSet(MetroRows(in, code)) :
        /\ CountyState[r.county] # CountyState[s.county]
        /\ {CountyState[r.county], CountyState[s.county]} \subseteq KnownStates

\* The states a ZIP of a county should reach: its own.  In a metro of one state
\* without an override it reaches those the metro's title names instead.
StatesOf(in, c) ==
    LET titled == {m \in MetrosOf(in, c) : ~Straddles(in, m) /\ ~Overridden(in, m)}
    IN  KnownStates \cap
            IF titled = {} THEN {CountyState[c]}
            ELSE UNION {ToSet(Head(MetroRows(in, m)).title.states) : m \in titled}

CountyTiers(in, c) ==
         {<<2, CuratedSlug(nycBoroughCounty[d])>> : d \in {c} \cap DOMAIN nycBoroughCounty}
    \cup {<<3, CuratedSlug(countyToLeaf[d])>> : d \in {c} \cap DOMAIN countyToLeaf}
    \cup {<<4, Append(MetroSlug(in, m), CountyState[c])>> :
             m \in {n \in MetrosOf(in, c) : Straddles(in, n) /\ CountyState[c] \in KnownStates}}
    \cup {<<5, MetroSlug(in, m)>> : m \in {n \in MetrosOf(in, c) : MetroSlug(in, n) # <<>>}}
    \cup {<<6, StateSlug(s)>> : s \in {CountyState[c]} \cap KnownStates}

CensusTiers(in, z) ==
         {<<1, CuratedSlug(placeToLeaf[p])>> :
             p \in {PrimaryOf(in.places, y) : y \in {z} \cap {r.zip : r \in ToSet(in.places)}}
                   \cap DOMAIN placeToLeaf}
    \cup UNION {CountyTiers(in, PrimaryOf(in.counties, y)) : y \in {z} \cap {r.zip : r \in ToSet(in.counties)}}
HUDTiers(in, z) ==
    UNION {CountyTiers(in, PrimaryOf(in.hud, y)) : y \in {z} \cap {r.zip : r \in ToSet(in.hud)}}

Finest(tiers) == CHOOSE t \in tiers : \A u \in tiers : t[1] <= u[1]

\* HUD decides a ZIP the Census files leave open, and one they leave at the
\* state through a retired county; any other result counts, as in the code, not
\* only a finer one.
HUDDecides(in, z) ==
    /\ HUDTiers(in, z) # {}
    /\ \/ CensusTiers(in, z) = {}
       \/ /\ Finest(CensusTiers(in, z))[1] = 6
          /\ PrimaryOf(in.counties, z) \in ctLegacyCounties
USTiers(in, z) == IF HUDDecides(in, z) THEN HUDTiers(in, z) ELSE CensusTiers(in, z)

\* A CMA over all its records, and the area it shares with a shape.
CMACells(in, u) == UNION {r.shape.cells : r \in {s \in ToSet(in.cma) : s.type = "B" /\ s.uid = u}}
CMAProvinces(in, u) == {r.prov : r \in {s \in ToSet(in.cma) : s.type = "B" /\ s.uid = u}} \cap Provinces
Shared(in, f, u) == Cardinality(f.shape.cells \cap CMACells(in, u))
CMAOf(in, f) ==
    {u \in {r.uid : r \in ToSet(in.cma)} \ {0} :
        /\ Shared(in, f, u) > 0
        /\ Shared(in, f, u) * OverlapShare >= polygonGrossArea(f.shape)
        /\ \A v \in {r.uid : r \in ToSet(in.cma)} :
              Shared(in, f, u) > Shared(in, f, v) \/ (Shared(in, f, u) = Shared(in, f, v) /\ u <= v)}
CMASlug(in, u) ==
    LET mine == SelectSeq(in.overrides, LAMBDA o : o.uid = u /\ o.slug # <<>>)
    IN  IF mine # <<>> THEN Last(mine).slug
        ELSE <<SelectSeq(in.cma, LAMBDA r : r.type = "B" /\ r.uid = u)[1].name, SuffixWord>>
CATiers(in, f) ==
         {<<1, CuratedSlug(fsaToLeaf[g])>> : g \in {f.fsa} \cap DOMAIN fsaToLeaf}
    \cup {<<2, Append(CMASlug(in, u), f.prov)>> :
             u \in {v \in CMAOf(in, f) : Cardinality(CMAProvinces(in, v)) >= 2 /\ f.prov \in CMAProvinces(in, v)}}
    \cup {<<3, CMASlug(in, u)>> : u \in CMAOf(in, f)}
    \cup {<<4, StateSlug(p)>> : p \in {f.prov} \cap Provinces}

-----------------------------------------------------------------------------
OutsideSlugs ==
    CuratedRegions \cup {StateSlug(s) : s \in IF rinput.country = "US" THEN KnownStates ELSE Provinces}

\* The server boots from what regenerate wrote: nil means that every file of the
\* target is whole and of the sources now staged, over whatever a failed or killed
\* run or earlier sources left; and two whole files of the same sources load
\* together, in whichever invocations they were written: no duplicate slug, every
\* parent before its child, every anchor defined.  Files of different sources may
\* not: after --target regions or postal nothing compares them before the boot.
SeedLoads ==
    /\ rpc = "nil" =>
          /\ Regions(rtarget) => toml.is = "whole" /\ toml.from = rinput
          /\ Postal(rtarget) => csv.is = "whole" /\ csv.from = rinput
    /\ toml.is = "whole" /\ csv.is = "whole" /\ toml.from = csv.from =>
          Loads(toml.rows, csv.rows, OutsideSlugs)

\* "so a lookup reaches only its own province": from the region file as it
\* was written, the anchor of a postal code reaches the state of the county
\* (the province of the FSA) that decided it and no other, through a metro
\* that spans several too, whatever states its title names.  Only a metro of one
\* state without an override goes by its title.  Anchors at hand-kept leaves are
\* outside, and so is an FSA whose CMA has no record in the FSA's province.
NoStateLeak ==
    toml.is = "whole" /\ csv.is = "whole" /\ toml.from = csv.from =>
        LET in == csv.from IN
        \A z \in {y \in DOMAIN csv.rows : csv.rows[y].slug \notin CuratedRegions} :
            IF in.country = "US"
            THEN LET c == PrimaryOf(IF HUDDecides(in, z) THEN in.hud ELSE in.counties, z)
                 IN  ReachedStates(toml.rows, csv.rows[z].slug) = StatesOf(in, c)
            ELSE \A f \in ToSet(in.fsa) :
                 f.fsa = z /\ (\A u \in CMAOf(in, f) : f.prov \in CMAProvinces(in, u)) =>
                     ReachedStates(toml.rows, csv.rows[z].slug) = {f.prov}

\* Every postal code that any tier resolves is in the file, at the finest
\* region its sources give it: the largest overlap decides, a tie goes to the
\* first row (US) or the smallest UID (CA), slivers below the floor do not
\* count, and HUD only fills what Census leaves open or at a retired county.
FinestAnchor ==
    csv.is = "whole" =>
        LET in == csv.from IN
        IF in.country = "US"
        THEN LET zips == {r.zip : r \in ToSet(in.places) \cup ToSet(in.counties) \cup ToSet(in.hud)}
             IN  /\ DOMAIN csv.rows = {z \in zips : USTiers(in, z) # {}}
                 /\ \A z \in DOMAIN csv.rows : csv.rows[z].slug = Finest(USTiers(in, z))[2]
        ELSE LET fsas == {f \in ToSet(in.fsa) : f.fsa # 0 /\ f.prov # 0 /\ CATiers(in, f) # {}}
             IN  /\ DOMAIN csv.rows = {f.fsa : f \in fsas}
                 /\ \A f \in fsas : csv.rows[f.fsa].slug = Finest(CATiers(in, f))[2]

=============================================================================
