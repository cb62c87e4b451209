----------------------------- MODULE RegionStore -----------------------------
(***************************************************************************)
(* The seed loader and the store it builds: buildMemStore                  *)
(* (api/internal/seedfiles/build.go) reads region files, rollups, postal   *)
(* rows and orgs, and fails on the first inconsistency; the queries of     *)
(* atlas.MemStore, Lookup and GetRegion (api/pkg/atlas) then walk the      *)
(* region graph.                                                           *)
(*                                                                         *)
(* Slugs are natural numbers, so that "slug ASC" means something, and a    *)
(* region's id is its position in regions.  Names and sort priorities are  *)
(* left out.                                                               *)
(***************************************************************************)
EXTENDS PostalCodes, FiniteSets, Functions

CONSTANTS
    Slugs,        \* region slugs
    Unknown,      \* a slug no file defines
    Orders,       \* slugs of the seed's regions, in the order of the files
    Entries,      \* what a file may say of a region: kind, tier, parents, rollups
    Rows,         \* rows a postal file may have: records [file, country, text]
    Queries,      \* what a client may look up: records [country, text]
    OrgSlugLists, \* region_slugs an org may list
    MaxFile       \* bound on the regions in a file

ASSUME RegionAssumption ==
    /\ Slugs \subseteq Nat /\ Unknown \in Nat \ Slugs
    /\ \A o \in Orders : o \in Seq(Slugs)
    /\ \A e \in Entries :
           /\ e.tier \in {"local", "regional", "national"}
           /\ e.parents \in Seq(Slugs \cup {Unknown}) /\ e.rollups \in Seq(Slugs \cup {Unknown})
    /\ \A l \in OrgSlugLists : l \in Seq(Slugs \cup {Unknown}) /\ l # <<>>
    /\ MaxFile \in Nat \ {0}

\* buildMemStore reads the postal files of two countries.
ASSUME PostalAssumption ==
    /\ \A r \in Rows : r.file \in {"US", "CA"} /\ r.text \in Seq(Nat)
    /\ \A q \in Queries : q.text \in Seq(Nat)

VARIABLES
    phase,        \* the stage of the load; "ready" and "failed" end it
    failure,      \* why the load failed
    order,        \* the slugs of the regions in files not read yet
    file,         \* the regions of the current file that are not loaded yet
    parentSlugs,  \* parentSlugs: parent slugs by slug, for the last cycle check
    rollups,      \* the rollup_states to resolve: <<metro slug, target slug>>
    regions,      \* MemStore.regionsByID, regionsBySlug: [slug, kind, tier] by id
    parents,      \* MemStore.parents: parent ids by id
    rollupBy,     \* MemStore.rollupByState: metro ids by id of the target
    leaf,         \* MemStore.postalToLeaf by postal key (0: none)
    org           \* MemStore.orgRegions of the one org: the ids of its regions

storeVars == <<regions, parents, rollupBy, leaf, org>>
loadVars  == <<order, file, parentSlugs, rollups>>
rsvars    == <<phase, failure, loadVars, storeVars>>

\* The keys the accepted rows can have; the row's code is normalized, and
\* AddPostalCode normalizes it again.
Keys == {postalKey(r.country, NormalizePostalCode(r.country, r.text))
            : r \in {s \in Rows : parsePostalRecord(s)}}

Init ==
    /\ phase = "regions" /\ failure = "none"
    /\ order \in Orders
    /\ file = <<>> /\ parentSlugs = <<>> /\ rollups = <<>>
    /\ regions = <<>> /\ parents = <<>> /\ rollupBy = <<>>
    /\ leaf = [k \in Keys |-> 0] /\ org = {}

Ids == 1 .. Len(regions)

\* regionsBySlug; 0 for a slug that is not registered.
IdOf(slug) ==
    IF \E i \in Ids : regions[i].slug = slug
    THEN CHOOSE i \in Ids : regions[i].slug = slug /\ \A j \in Ids : regions[j].slug = slug => j <= i
    ELSE 0

Fail(why) ==
    /\ phase' = "failed" /\ failure' = why
    /\ UNCHANGED <<loadVars, storeVars>>

-----------------------------------------------------------------------------
(* detectCycles3Color: a depth-first search over the kept edges.  A stack  *)
(* of slugs to enter and to leave stands for the recursion.                *)

Enter(s) == [slug |-> s, leave |-> FALSE]
Leave(s) == [slug |-> s, leave |-> TRUE]

\* The items of the stack: each slug of a sequence is to be entered.
Entered(slugs) == [i \in 1 .. Len(slugs) |-> Enter(slugs[i])]

\* The parents of s that the walk follows.
KeptParents(up, keep, s) == Picked(up[s], {i \in DOMAIN up[s] : up[s][i] \in keep})

\* Mutant: a slug that is done counts as a cycle too.
dfsStepTwoColor(up, keep, st) ==
    LET s    == Head(st.todo).slug
        rest == Tail(st.todo)
    IN  IF Head(st.todo).leave
        THEN [st EXCEPT !.todo = rest, !.black = @ \cup {s}]
        ELSE IF s \in st.gray
        THEN [st EXCEPT !.found = TRUE]
        ELSE [st EXCEPT !.todo = Entered(KeptParents(up, keep, s)) \o <<Leave(s)>> \o rest,
                        !.gray = @ \cup {s}]

\* One call of dfs, or the end of one; an error ends every call.
dfsStep(up, keep, st) ==
    LET s    == Head(st.todo).slug
        rest == Tail(st.todo)
    IN  IF Head(st.todo).leave
        THEN [st EXCEPT !.todo = rest, !.gray = @ \ {s}, !.black = @ \cup {s}]
        ELSE IF s \in st.black
        THEN [st EXCEPT !.todo = rest]
        ELSE IF s \in st.gray
        THEN [st EXCEPT !.found = TRUE]
        ELSE [st EXCEPT !.todo = Entered(KeptParents(up, keep, s)) \o <<Leave(s)>> \o rest,
                        !.gray = @ \cup {s}]

dfsStates(keep) ==
    [todo : Seq([slug : keep, leave : BOOLEAN]), gray : SUBSET keep, black : SUBSET keep,
     found : BOOLEAN]

detectCycles(slugs, up, keep) ==
    LET Visit[st \in dfsStates(keep)] ==
            IF st.found \/ st.todo = <<>> THEN st.found ELSE Visit[dfsStep(up, keep, st)]
    IN  Visit[[todo |-> Entered(slugs), gray |-> {}, black |-> {}, found |-> FALSE]]

FileSlugs(f) == [i \in 1 .. Len(f) |-> f[i].slug]

\* One file's edges; its slugs are pairwise different.
FileParents(f) ==
    [s \in Range(FileSlugs(f)) |-> LET i == CHOOSE i \in 1 .. Len(f) : f[i].slug = s
                                   IN  f[i].parents]

DetectCycles(f) == detectCycles(FileSlugs(f), FileParents(f), Range(FileSlugs(f)))

\* slices.Sort: the numbers of a finite set, in order.
Ascending(S) ==
    [k \in 1 .. Cardinality(S) |-> CHOOSE n \in S : Cardinality({m \in S : m <= n}) = k]

\* The assembled graph, every edge of it.
DetectCyclesGraph ==
    detectCycles(Ascending(DOMAIN parentSlugs), parentSlugs, DOMAIN parentSlugs)

-----------------------------------------------------------------------------
(* Stage 1: regions.                                                       *)

\* readRegions: validateRegions refuses a slug given twice in one file, and
\* DetectCycles a cycle inside it.
ReadFile(entries) ==
    /\ phase = "regions" /\ file = <<>>
    /\ Len(entries) \in 1 .. Len(order)
    /\ LET f == [i \in 1 .. Len(entries) |->
                    [slug |-> order[i], kind |-> entries[i].kind, tier |-> entries[i].tier,
                     parents |-> entries[i].parents, rollups |-> entries[i].rollups]]
       IN  IF IsInjective(FileSlugs(f))
           THEN /\ file' = f
                /\ order' = SubSeq(order, Len(entries) + 1, Len(order))
                /\ phase' = "file"
                /\ UNCHANGED <<failure, parentSlugs, rollups, storeVars>>
           ELSE Fail("duplicate in file")

CheckFile ==
    /\ phase = "file"
    /\ IF DetectCycles(file)
       THEN Fail("cycle in file")
       ELSE phase' = "regions" /\ UNCHANGED <<failure, loadVars, storeVars>>

\* AddRegion and the loader's bookkeeping.
AddRegion(r) ==
    /\ file' = Tail(file)
    /\ regions' = Append(regions, [slug |-> r.slug, kind |-> r.kind, tier |-> r.tier])
    /\ parents' = Append(parents, [k \in 1 .. Len(r.parents) |-> IdOf(r.parents[k])])
    /\ parentSlugs' = [s \in DOMAIN parentSlugs \cup {r.slug} |->
                          IF s = r.slug THEN r.parents ELSE parentSlugs[s]]
    /\ rollupBy' = Append(rollupBy, <<>>)
    /\ rollups' = rollups \o [k \in 1 .. Len(r.rollups) |-> <<r.slug, r.rollups[k]>>]
    /\ UNCHANGED <<phase, failure, order, leaf, org>>

\* A slug is loaded once, and after all its parents.
LoadRegion ==
    /\ phase = "regions" /\ file # <<>>
    /\ LET r == Head(file)
       IN  IF IdOf(r.slug) # 0 THEN Fail("duplicate")
           ELSE IF \E p \in Range(r.parents) : IdOf(p) = 0 THEN Fail("unknown parent")
           ELSE AddRegion(r)

RegionsDone ==
    /\ phase = "regions" /\ file = <<>> /\ order = <<>>
    /\ IF DetectCyclesGraph
       THEN Fail("cycle in graph")
       ELSE phase' = "rollups" /\ UNCHANGED <<failure, loadVars, storeVars>>

-----------------------------------------------------------------------------
(* Rollups, stage 2 (postal codes), stage 3 (orgs), and the leaf check.    *)

IsStateKind(k) == k = "us:state"
IsRollupTargetKind(k) == IsStateKind(k) \/ k = "us:federal-district"
IsBrowseKind(k) == k \in {"us:metro", "us:city"}
IsNational(i) == regions[i].tier = "national"

AddRollupState ==
    /\ phase = "rollups" /\ rollups # <<>>
    /\ LET metro == IdOf(Head(rollups)[1])
           state == IdOf(Head(rollups)[2])
       IN  IF state = 0 \/ ~IsRollupTargetKind(regions[state].kind)
           THEN Fail("rollup target")
           ELSE /\ rollupBy' = [rollupBy EXCEPT ![state] =
                                   IF metro \in Range(@) THEN @ ELSE Append(@, metro)]
                /\ rollups' = Tail(rollups)
                /\ UNCHANGED <<phase, failure, order, file, parentSlugs, regions, parents, leaf, org>>

RollupsDone ==
    /\ phase = "rollups" /\ rollups = <<>>
    /\ phase' = "postal"
    /\ UNCHANGED <<failure, loadVars, storeVars>>

\* One row of a postal file; a code maps to one region only.
AddPostalCode(row, slug) ==
    /\ phase = "postal"
    /\ LET key == postalKey(row.country, NormalizePostalCode(row.country, row.text))
       IN  IF ~parsePostalRecord(row) THEN Fail("postal row")
           ELSE IF IdOf(slug) = 0 THEN Fail("postal slug")
           ELSE IF leaf[key] \notin {0, IdOf(slug)} THEN Fail("postal conflict")
           ELSE /\ leaf' = [leaf EXCEPT ![key] = IdOf(slug)]
                /\ UNCHANGED <<phase, failure, loadVars, regions, parents, rollupBy, org>>

PostalDone ==
    /\ phase = "postal"
    /\ phase' = "orgs"
    /\ UNCHANGED <<failure, loadVars, storeVars>>

\* resolveOrgRegions drops repeated slugs and refuses unknown ones.
AddOrg(slugs) ==
    /\ phase = "orgs"
    /\ IF \E s \in Range(slugs) : IdOf(s) = 0 THEN Fail("org slug")
       ELSE /\ org' = {IdOf(s) : s \in Range(slugs)}
            /\ phase' = "leaves"
            /\ UNCHANGED <<failure, loadVars, regions, parents, rollupBy, leaf>>

HasChildren(i) == \E j \in Ids : i \in Range(parents[j])

\* Mutant: an org anywhere exempts every region.
OrphansUnlessOrg == {i \in Ids : /\ regions[i].tier = "local" /\ ~HasChildren(i)
                                 /\ i \notin Range(leaf) /\ org = {}}

\* assertReachableLeaves: local-tier leaves without a postal row and an org.
Orphans == {i \in Ids : /\ regions[i].tier = "local" /\ ~HasChildren(i)
                        /\ i \notin Range(leaf) /\ i \notin org}

CheckLeaves ==
    /\ phase = "leaves"
    /\ IF Orphans # {}
       THEN Fail("orphan leaf")
       ELSE phase' = "ready" /\ UNCHANGED <<failure, loadVars, storeVars>>

\* A file that is missing, malformed or invalid ends the load.
ReadError ==
    /\ \/ phase = "regions" /\ file = <<>> /\ order # <<>>
       \/ phase \in {"postal", "orgs"}
    /\ Fail("read")

Next ==
    \/ \E n \in 1 .. MaxFile : \E entries \in [1 .. n -> Entries] : ReadFile(entries)
    \/ CheckFile \/ LoadRegion \/ RegionsDone
    \/ AddRollupState \/ RollupsDone
    \/ \E r \in Rows, s \in Slugs \cup {Unknown} : AddPostalCode(r, s)
    \/ PostalDone
    \/ \E l \in OrgSlugLists : AddOrg(l)
    \/ CheckLeaves \/ ReadError

RegionSpec == Init /\ [][Next]_rsvars

-----------------------------------------------------------------------------
(* The walks.                                                              *)

bfsStates == [queue : Seq(Ids), visited : SUBSET Ids, out : Seq(Ids)]

\* Mutant: a national region is skipped, but walked through.
bfsStepThroughNational(adj, st) ==
    LET id   == Head(st.queue)
        rest == Tail(st.queue)
    IN  IF id \in st.visited
        THEN [st EXCEPT !.queue = rest]
        ELSE [queue |-> rest \o adj[id], visited |-> st.visited \cup {id},
              out |-> IF IsNational(id) THEN st.out ELSE Append(st.out, id)]

\* A national region is neither collected nor expanded.
bfsStep(adj, st) ==
    LET id   == Head(st.queue)
        rest == Tail(st.queue)
    IN  IF id \in st.visited
        THEN [st EXCEPT !.queue = rest]
        ELSE IF IsNational(id)
        THEN [st EXCEPT !.queue = rest, !.visited = @ \cup {id}]
        ELSE [queue |-> rest \o adj[id], visited |-> st.visited \cup {id},
              out |-> Append(st.out, id)]

\* Breadth first from start.
bfsCollectIDs(start, adj) ==
    LET Collect[st \in bfsStates] ==
            IF st.queue = <<>> THEN st.out ELSE Collect[bfsStep(adj, st)]
    IN  Collect[[queue |-> <<start>>, visited |-> {}, out |-> <<>>]]

\* Mutant: only the first parent of a region lists it as a child.
childrenOfFirst ==
    [p \in Ids |-> Picked([i \in Ids |-> i], {c \in Ids : parents[c] # <<>> /\ Head(parents[c]) = p})]

\* The order of a region's children is unspecified (Go's map order).
childrenOf ==
    [p \in Ids |-> Picked([i \in Ids |-> i], {c \in Ids : p \in Range(parents[c])})]

AncestorRegions(i) == bfsCollectIDs(i, parents)
DescendantRegions(i) == bfsCollectIDs(i, childrenOf)

SlugFirst(S) == CHOOSE i \in S : \A j \in S : regions[i].slug <= regions[j].slug

\* Mutant: the walk goes through national regions.
levelStepThroughNational(st) ==
    [current |-> UNION {Range(parents[i]) : i \in st.current \ st.visited},
     visited |-> st.visited \cup st.current]

FreshIn(st) == {i \in st.current \ st.visited : ~IsNational(i)}

levelStep(st) ==
    [current |-> UNION {Range(parents[i]) : i \in FreshIn(st)},
     visited |-> st.visited \cup st.current]

\* The shallowest matching ancestor, slug-first within a level; 0: none.
bfsUpwardFirstMatch(root, matching) ==
    LET Level[st \in [current : SUBSET Ids, visited : SUBSET Ids]] ==
            IF st.current = {} THEN 0
            ELSE IF FreshIn(st) \cap matching # {} THEN SlugFirst(FreshIn(st) \cap matching)
            ELSE Level[levelStep(st)]
    IN  Level[[current |-> Range(parents[root]), visited |-> {root}]]

BrowseParent(i) == bfsUpwardFirstMatch(i, {j \in Ids : IsBrowseKind(regions[j].kind)})
StateAncestor(i) == bfsUpwardFirstMatch(i, {j \in Ids : IsStateKind(regions[j].kind)})

\* The region whose name labels a search result: 0 for an empty label.
ContextRegion(i) ==
    LET direct == {p \in Range(parents[i]) : ~IsNational(p)}
    IN  IF StateAncestor(i) # 0 THEN StateAncestor(i)
        ELSE IF direct # {} THEN SlugFirst(direct) ELSE 0

-----------------------------------------------------------------------------
(* Queries.                                                                *)

\* BucketOrgsByScope, for the regions in scope; "none": the org is dropped.
Bucket(inScope) ==
    LET matched == org \cap inScope
    IN  IF matched = {} THEN "none"
        ELSE IF \E i \in matched : regions[i].tier = "local" THEN "local"
        ELSE IF \E i \in matched : IsStateKind(regions[i].kind) THEN "statewide"
        ELSE "regional"

\* The region a code is mapped to; 0: ErrPostalCodeNotFound.
ResolveLeafRegion(country, code) ==
    LET key == postalKey(country, code) IN IF key \in Keys THEN leaf[key] ELSE 0

\* Of a postal code that resolves to region i.
Lookup(i) == Bucket(Range(AncestorRegions(i)))

\* GET /api/v1/lookup, of a country in upper case: the outcome that is counted
\* and, of a hit, the region and the org's bucket.
maxPostalCodeLen == 16
lookupHandler(q) ==
    LET postal == NormalizePostalCode(q.country, TrimSpace(q.text))
        i      == ResolveLeafRegion(q.country, postal)
        Outcome(name) == [is |-> name, leaf |-> 0, tier |-> "none"]
    IN  IF Len(q.text) > maxPostalCodeLen \/ TrimSpace(q.text) = <<>> THEN Outcome("invalid")
        ELSE IF i # 0 THEN [is |-> "hit", leaf |-> i, tier |-> Lookup(i)]
        ELSE Outcome(IF IsMilitaryPostalCode(q.country, postal) THEN "military" ELSE "miss")

RollupMetrosFor(i) == {m \in Range(rollupBy[i]) : ~IsNational(m)}

PageScope(i) == Range(DescendantRegions(i)) \cup RollupMetrosFor(i)

\* DescendantRegionNames.
PageNames(i) == PageScope(i) \ (Range(AncestorRegions(i)) \cup {i})

\* ResolveRegionBySlug refuses national regions; GetRegion answers nil.
HasPage(i) == ~IsNational(i)

GetRegion(i) == Bucket(PageScope(i))

\* countDistinctOrgs, of the one org.
OrgCount(i) == IF org \cap Range(DescendantRegions(i)) = {} THEN 0 ELSE 1

\* ListRegions.
BrowseRows == {i \in Ids : IsBrowseKind(regions[i].kind) /\ ~IsNational(i) /\ OrgCount(i) > 0}

\* ListRecent and Stats leave out an org with national attachments only.
Live == \E i \in org : ~IsNational(i)

-----------------------------------------------------------------------------
(* Properties.                                                             *)

\* A walk of n edges along up, from s to t, through slugs in keep only.
Walk(up, keep, s, t, n) ==
    \E p \in [0 .. n -> keep] :
        /\ p[0] = s /\ p[n] = t
        /\ \A k \in 0 .. n - 1 : p[k + 1] \in Range(up[p[k]])

\* DetectCycles refuses a file if and only if its own parent edges form a cycle:
\* a diamond, a parent named twice and a parent in another file are none.  With
\* that, and parents loaded first, the last check of the whole graph is
\* redundant, as buildMemStore's comment claims: it never fires.
CycleCheckExact ==
    /\ phase = "file" =>
        LET slugs == Range(FileSlugs(file))
        IN  DetectCycles(file)
                <=> \E s \in slugs : \E n \in 1 .. Cardinality(slugs) :
                        Walk(FileParents(file), slugs, s, s, n)
    /\ failure # "cycle in graph"

\* The store is complete but for postal codes and orgs.
GraphLoaded == phase = "postal" /\ Range(leaf) = {0}

Kept == {s \in DOMAIN parentSlugs : ~IsNational(IdOf(s))}

\* The length of a shortest walk up the seed's edges between two regions,
\* national regions left out; Len(regions) if there is none.
Distance(i, j) ==
    LET n == {k \in 0 .. Len(regions) - 1 :
                 Walk(parentSlugs, Kept, regions[i].slug, regions[j].slug, k)}
    IN  IF n = {} THEN Len(regions) ELSE CHOOSE k \in n : \A m \in n : k <= m

\* AncestorRegions follows the seed's parent edges and no others (rollup_states
\* never leak into a lookup): each region that can be reached without passing
\* through a national one, once, the nearer ones first.
AncestryExact ==
    GraphLoaded => \A i \in Ids :
        LET a == AncestorRegions(i)
        IN  /\ IsInjective(a)
            /\ Range(a) = {j \in Ids : Distance(i, j) < Len(regions)}
            /\ \A k \in 2 .. Len(a) : Distance(i, a[k - 1]) <= Distance(i, a[k])

\* Of the ancestors of a kind, none is nearer than the one found, or as near with
\* a smaller slug: the nesting of browse rows and the label of a search result
\* do not depend on the order of the files or of Go's maps, and the label is
\* empty only without a parent to name.
NearestAncestorExact ==
    GraphLoaded => \A i \in Ids : ~IsNational(i) =>
        LET Nearest(found, Kind(_)) ==
                LET all == {j \in Ids \ {i} : Distance(i, j) < Len(regions) /\ Kind(regions[j].kind)}
                IN  IF all = {} THEN found = 0
                    ELSE /\ found \in all
                         /\ \A j \in all \ {found} :
                                \/ Distance(i, found) < Distance(i, j)
                                \/ /\ Distance(i, found) = Distance(i, j)
                                   /\ regions[found].slug < regions[j].slug
        IN  /\ Nearest(BrowseParent(i), IsBrowseKind)
            /\ Nearest(StateAncestor(i), IsStateKind)
            /\ ContextRegion(i) = 0 <=> \A p \in Range(parents[i]) : IsNational(p)

\* Both: every upward walk is determined by the seed's parent edges alone.
WalksExact == AncestryExact /\ NearestAncestorExact

\* The page of a region mirrors the lookups below it: it shows the org exactly if
\* the org serves a region whose lookup reaches the page's region, or a metro
\* that rolls up to it, and it names every region below: none of them is skipped
\* as an ancestor that is named already.  A rolled-up metro brings none of its
\* own descendants.  ListRecent and Stats count the org exactly if some page
\* shows it, in particular if a lookup finds it.
PagesMirrorLookups ==
    phase = "ready" =>
        /\ \A i \in Ids : HasPage(i) =>
            /\ GetRegion(i) # "none"
                  <=> \E j \in org : i \in Range(AncestorRegions(j)) \/ j \in RollupMetrosFor(i)
            /\ Range(DescendantRegions(i)) \ {i} \subseteq PageNames(i)
        /\ Live <=> \E i \in Ids : HasPage(i) /\ GetRegion(i) # "none"
        /\ \A k \in Keys : leaf[k] # 0 /\ Lookup(leaf[k]) # "none" => Live

\* A browse row nests under a row that is listed too and whose page shows all that
\* its own page shows but rollups.
BrowseTreeConsistent ==
    phase = "ready" => \A i \in BrowseRows :
        BrowseParent(i) # 0 =>
            /\ BrowseParent(i) \in BrowseRows
            /\ Range(DescendantRegions(i)) \subseteq PageScope(BrowseParent(i))

\* A local region above local regions only can be reached: a postal code or the org
\* anchors it or a region below it.
LocalRegionsReachable ==
    phase = "ready" => \A i \in Ids :
        LET below == Range(DescendantRegions(i))
        IN  (\A j \in Ids : (j = i \/ \E k \in below : k \in Range(parents[j]))
                               => regions[j].tier = "local")
                => below \cap (Range(leaf) \cup org) # {}

\* "the store's own re-normalization is idempotent": a lookup, which normalizes
\* twice, finds a row, which was normalized twice, exactly if the two codes have
\* the same normal form.  NormalizePostalCode is not idempotent for every text
\* (see the README); that it does not matter rests on the rows being validated.
\* A code that is mapped is never answered as military.
EverySpellingFound ==
    phase = "orgs" => \A q \in Queries :
        LET key == <<q.country, NormalizePostalCode(q.country, q.text)>>
            out == lookupHandler(q)
        IN  Len(q.text) <= maxPostalCodeLen /\ TrimSpace(q.text) # <<>> =>
                IF key \in Keys /\ leaf[key] # 0
                THEN out.is = "hit" /\ out.leaf = leaf[key]
                ELSE out.is \in {"miss", "military"}

=============================================================================
