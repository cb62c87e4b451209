------------------------------- MODULE CaEtl -------------------------------
(***************************************************************************)
(* The Canada plan (api/internal/etl/ca): from the records of the CMA and  *)
(* FSA boundary files to region rows and one anchor per FSA.               *)
(*                                                                         *)
(* A boundary file is the sequence of its records.  The plane is a grid: a *)
(* shape is the set of unit cells it covers and the set it encloses as     *)
(* holes, and the intersection polyclip computes is that of the cells.     *)
(***************************************************************************)
EXTENDS EtlTables, TLC

CONSTANTS
    Provinces,         \* DOMAIN of provinceUIDToSlug
    fsaToLeaf,         \* curated table: FSA to city leaf
    OverlapShare       \* minOverlapFraction is 1 / OverlapShare

-----------------------------------------------------------------------------
(* Regions: cma.go, output.go.                                             *)

\* Type B records, dissolved by UID, in UID order; the first record of a UID
\* names the CMA.
parseCMAs(rows) ==
    LET kept == SelectSeq(rows, LAMBDA r : r.type = "B" /\ r.uid # 0)
        uids == SetToSortSeq({r.uid : r \in ToSet(kept)}, <)
        OfUID(u) == SelectSeq(kept, LAMBDA r : r.uid = u)
    IN  [i \in DOMAIN uids |->
            [uid |-> uids[i], name |-> Head(OfUID(uids[i])).name,
             provinces |-> {r.prov : r \in ToSet(OfUID(uids[i]))}]]

spannedProvinces(c) == SetToSortSeq(c.provinces \cap Provinces, <)

\* Slug and kind are overridden one by one, parents never.
assignCMAs(c, overrides) ==
    LET mine  == SelectSeq(overrides, LAMBDA o : o.uid = c.uid)
        o     == IF mine = <<>> THEN [slug |-> <<>>, kind |-> ""] ELSE Last(mine)
        provs == spannedProvinces(c)
        slugs == [i \in DOMAIN provs |-> StateSlug(provs[i])]
    IN  [uid     |-> c.uid,
         slug    |-> IF o.slug # <<>> THEN o.slug ELSE <<c.name, SuffixWord>>,
         kind    |-> IF o.kind # "" THEN o.kind ELSE "ca:cma",
         parents |-> IF Len(provs) >= 2 THEN <<>> ELSE slugs,
         rollup  |-> IF Len(provs) >= 2 THEN slugs ELSE <<>>]

\* The portions of the CMAs over two provinces or more.
buildCMAPortions(c, overrides) ==
    LET provs == spannedProvinces(c)
    IN  IF Len(provs) < 2 THEN <<>>
        ELSE BuildPortionRows(assignCMAs(c, overrides).slug, "ca:cma-portion", provs)

\* The lookup the crosswalk routes through, by umbrella slug and province.
portionByCMA(cmas, overrides) ==
    LET Keys(c) == {<<assignCMAs(c, overrides).slug, p>> :
                        p \in {q \in ToSet(spannedProvinces(c)) : Len(spannedProvinces(c)) >= 2}}
    IN  [k \in UNION {Keys(c) : c \in ToSet(cmas)} |-> Append(k[1], k[2])]

cmaRowsToRegionRows(cmas, overrides) ==
    [i \in DOMAIN cmas |->
        LET a == assignCMAs(cmas[i], overrides) IN RegionRow(a.slug, a.kind, a.parents, a.rollup)]

caRegions(in) ==
    LET cmas == parseCMAs(in.cma)
    IN  cmaRowsToRegionRows(cmas, in.overrides)
        \o FlattenSeq([i \in DOMAIN cmas |-> buildCMAPortions(cmas[i], in.overrides)])

-----------------------------------------------------------------------------
(* The spatial join: spatial.go, geom.go.                                  *)

Xs(cells) == {c[1] : c \in cells}
Ys(cells) == {c[2] : c \in cells}
Below(S, T) == \E s \in S, t \in T : s <= t + 1

\* bboxesOverlap: the boxes of two shapes, or of unions of shapes, meet;
\* touching counts.
bboxesOverlap(a, b) ==
    /\ Below(Xs(a), Xs(b)) /\ Below(Xs(b), Xs(a))
    /\ Below(Ys(a), Ys(b)) /\ Below(Ys(b), Ys(a))

\* Net area of an intersection, and the area of all contours, holes twice.
polygonArea(cells) == Cardinality(cells)
polygonGrossArea(shape) == Cardinality(shape.cells) + 2 * Cardinality(shape.holes)

\* Type B records with a shape, dissolved by UID, in UID order.
loadCMAGeometry(rows) ==
    LET kept == SelectSeq(rows, LAMBDA r : r.type = "B" /\ r.uid # 0 /\ r.shape.cells # {})
        uids == SetToSortSeq({r.uid : r \in ToSet(kept)}, <)
    IN  [i \in DOMAIN uids |->
            [uid   |-> uids[i],
             parts |-> SelectSeq(kept, LAMBDA r : r.uid = uids[i])]]

\* The area an FSA shares with a CMA: the sum over the parts whose box meets
\* the FSA's.
OverlapArea(shape, c) ==
    IF ~bboxesOverlap(shape.cells, UNION {p.shape.cells : p \in ToSet(c.parts)}) THEN 0
    ELSE FoldLeft(LAMBDA sum, p :
                     IF bboxesOverlap(shape.cells, p.shape.cells)
                     THEN sum + polygonArea(shape.cells \cap p.shape.cells) ELSE sum,
                  0, c.parts)

\* Mutant: any overlap is enough.
MaxOverlapNoFloor(shape, cmas) ==
    FoldLeft(LAMBDA best, c : IF OverlapArea(shape, c) > best.area
                              THEN [uid |-> c.uid, area |-> OverlapArea(shape, c)] ELSE best,
             [uid |-> 0, area |-> 0], cmas).uid

\* The CMA of a shape, or 0: only a strictly larger area wins, and it must
\* clear the floor.
MaxOverlap(shape, cmas) ==
    LET best == FoldLeft(LAMBDA b, c : IF OverlapArea(shape, c) > b.area
                                       THEN [uid |-> c.uid, area |-> OverlapArea(shape, c)] ELSE b,
                         [uid |-> 0, area |-> 0], cmas)
    IN  IF polygonGrossArea(shape) > 0 /\ best.area * OverlapShare >= polygonGrossArea(shape)
        THEN best.uid ELSE 0

\* FSA to CMA UID.  Every FSA has one record.
assignFSAsToCMAs(fsas, cmas) ==
    LET Hit(r) == r.fsa # 0 /\ r.shape.cells # {} /\ MaxOverlap(r.shape, cmas) # 0
    IN  [f \in {r.fsa : r \in {s \in ToSet(fsas) : Hit(s)}} |->
            MaxOverlap((CHOOSE r \in ToSet(fsas) : r.fsa = f).shape, cmas)]

-----------------------------------------------------------------------------
(* Postal codes: fsa.go, crosswalk.go.                                     *)

\* Records without an FSA or a province are dropped.
parseFSAs(rows) == {[fsa |-> r.fsa, prov |-> r.prov] : r \in {s \in ToSet(rows) : s.fsa # 0 /\ s.prov # 0}}

\* City leaf, else the portion of the CMA in the FSA's province, else the
\* CMA, else the province.
caCrosswalk(fsas, slugByFSA, portions) ==
    LET Anchor(f) ==
            IF f.fsa \in DOMAIN fsaToLeaf THEN [slug |-> CuratedSlug(fsaToLeaf[f.fsa]), reason |-> "city-leaf"]
            ELSE IF f.fsa \in DOMAIN slugByFSA /\ <<slugByFSA[f.fsa], f.prov>> \in DOMAIN portions
                 THEN [slug |-> portions[<<slugByFSA[f.fsa], f.prov>>], reason |-> "cma-portion"]
            ELSE IF f.fsa \in DOMAIN slugByFSA THEN [slug |-> slugByFSA[f.fsa], reason |-> "cma"]
            ELSE [slug |-> StateSlug(f.prov), reason |-> "province"]
        kept == {f \in fsas : \/ f.fsa \in DOMAIN fsaToLeaf
                              \/ f.fsa \in DOMAIN slugByFSA
                              \/ f.prov \in Provinces}
    IN  [z \in {f.fsa : f \in kept} |-> Anchor(CHOOSE f \in kept : f.fsa = z)]

\* The postal half of Regenerate.
caPostal(in) ==
    LET cmas   == parseCMAs(in.cma)
        uidOf  == assignFSAsToCMAs(in.fsa, loadCMAGeometry(in.cma))
        SlugOf(u) == assignCMAs(CHOOSE c \in ToSet(cmas) : c.uid = u, in.overrides).slug
    IN  caCrosswalk(parseFSAs(in.fsa), [f \in DOMAIN uidOf |-> SlugOf(uidOf[f])],
                    portionByCMA(cmas, in.overrides))

=============================================================================
