-------------------------- MODULE MCOperatorTools --------------------------
(* Small plans, sources and site lists for the operator's commands.        *)
EXTENDS OperatorTools

MCPlan == <<[file |-> "cbsa", optional |-> FALSE, targets |-> {}],
            [file |-> "place", optional |-> FALSE, targets |-> {"postal"}],
            [file |-> "hud", optional |-> TRUE, targets |-> {"postal"}]>>

\* Counties 1 and 2 are of different states, 3 lies in a territory without a
\* region, 4 is a retired county of state 1, 5 a borough, 6 a county leaf, 7 a
\* county of state 2 in no metro.
MCCountyState == <<1, 2, 3, 1, 1, 2, 2>>
MCKnownStates == {1, 2}
MCPlaceToLeaf == 11 :> 1
MCBoroughs    == 5 :> 2
MCCountyLeaf  == 6 :> 3
MCCtLegacy    == {4}
MCFsaToLeaf   == 2 :> 1
MCCurated     == {CuratedSlug(l) : l \in {1, 2, 3, 7}}

-----------------------------------------------------------------------------
\* Delineations: each of the counties 1, 2 and 5 in metro 1, 2 or neither, 3
\* in the territory's own metro or none, and a row of a micropolitan area.
\* A title names the states of the counties, or other ones: known and unknown
\* states in any case, or none.
Title(code, w, named) ==
    [city   |-> code,
     states |-> IF named = "its own" THEN SetToSeq({MCCountyState[c] : c \in {d \in DOMAIN w : w[d] = code}})
                ELSE IF named = "others" THEN <<2, 7, 1>> ELSE <<>>]
CBSAs(named) ==
    {LET in == SelectSeq(<<5, 2, 1, 3>>, LAMBDA c : w[c] # 0)
     IN  [i \in DOMAIN in |-> [county |-> in[i], code |-> w[in[i]],
                               title |-> Title(w[in[i]], w, named), metro |-> w[in[i]] # 4]]
     : w \in {f \in [{1, 2, 3, 5} -> {0, 1, 2, 3, 4}] :
                /\ f[1] \in {0, 1, 4} /\ f[2] \in {0, 1, 2} /\ f[5] \in {0, 1} /\ f[3] \in {0, 3}
                /\ f[2] # 0}}
\* Overrides as the seed keeps them: a metro of one state names it, one over
\* two states only a coalition; the last one of a code counts; an empty slug.
Override(code, slug, parents) ==
    [code |-> code, slug |-> slug, parents |-> parents, rollup |-> <<>>]
OwnState(cbsa) ==
    LET S == {MCCountyState[r.county] : r \in {q \in ToSet(cbsa) : q.metro /\ q.code = 1}}
    IN  IF Cardinality(S) = 1 THEN <<StateSlug(CHOOSE x \in S : TRUE)>> ELSE <<>>
Overrides(cbsa) ==
    {<<>>, <<Override(1, <<4>>, <<>>), Override(1, <<1>>, <<CuratedSlug(7)>> \o OwnState(cbsa))>>,
     <<Override(1, <<>>, <<>>)>>}
Row(geoid, size) == [zip |-> 1, geoid |-> geoid, size |-> size]
OneRow(S) == {<<Row(c, 1)>> : c \in S}
TwoRows(S) == {<<Row(p[1], p[2]), Row(p[3], p[4])>> :
                  p \in {q \in S \X {1, 2} \X S \X {1, 2} : q[1] # q[3] /\ q[2] + q[4] # 4}}

US(cbsa, overrides, places, counties, hud) ==
    [country |-> "US", cbsa |-> cbsa, overrides |-> overrides,
     places |-> places, counties |-> counties, hud |-> hud]
Both == {c \in CBSAs("its own") : Len(c) = 2 /\ c[1].county = 2 /\ c[1].metro /\ c[2].metro}

USInputs ==
         UNION {{US(c, o, p, z, <<>>) : o \in Overrides(c), p \in {<<>>, <<Row(11, 1)>>}, z \in OneRow(1 .. 6)}
                   : c \in CBSAs("its own")}
    \cup UNION {{US(c, o, <<>>, z, <<>>) : o \in Overrides(c) \ {<<Override(1, <<>>, <<>>)>>}, z \in OneRow({1, 2, 3})}
                   : c \in CBSAs("others") \cup CBSAs("none")}
    \cup {US(c, <<>>, p, z, h) : c \in Both, p \in {<<>>, <<Row(11, 1), Row(12, 2)>>},
             z \in {<<>>} \cup TwoRows({1, 2, 4}), h \in {<<>>} \cup OneRow({1, 3, 4, 6, 7}) \cup TwoRows({1, 2})}

-----------------------------------------------------------------------------
\* A CMA of one record, one over two provinces, and a second one beside it;
\* an FSA of two cells, of a ring around a hole, of a strip that barely
\* touches, or without a usable shape.
Shape(cells, holes) == [cells |-> cells, holes |-> holes]
Block(X, Y) == X \X Y
Rec(uid, type, prov, cells) ==
    [uid |-> uid, type |-> type, prov |-> prov, name |-> uid, shape |-> Shape(cells, {})]
CMAs == {<<Rec(1, "B", 1, Block(1 .. 2, 1 .. 2))>> \o s :
            s \in {<<>>, <<Rec(1, "B", 2, Block(3 .. 3, 1 .. 2))>>,
                   <<Rec(2, "B", 2, Block(3 .. 3, 1 .. 2)), Rec(0, "B", 2, {})>>,
                   <<Rec(2, "D", 2, Block(3 .. 3, 1 .. 2)), Rec(1, "B", 8, {})>>}}
FSAShapes == {Shape({<<2, 1>>, <<3, 1>>}, {}), Shape({<<2, 1>>, <<3, 1>>, <<3, 2>>}, {}),
              Shape(Block(1 .. 3, 1 .. 3) \ {<<2, 2>>}, {<<2, 2>>}),
              Shape({<<1, y>> : y \in 2 .. 6}, {}), Shape({<<5, 5>>}, {}), Shape({}, {})}
CAOverrides == {<<>>, <<[uid |-> 1, slug |-> <<7>>, kind |-> ""]>>,
                <<[uid |-> 1, slug |-> <<>>, kind |-> "ca:regional-district"]>>}

CAInputs ==
    {[country |-> "CA", cma |-> m, overrides |-> o, fsa |-> <<[fsa |-> f, prov |-> p, shape |-> s]>>]
        : m \in CMAs, o \in CAOverrides, s \in FSAShapes, f \in {0, 1, 2}, p \in {0, 1, 2, 8}}

MCInputs == USInputs \cup CAInputs

\* Staged later: the ZIP in metro 2 alone, in the other CMA.
MCRestaged ==
    {US(c, <<>>, <<>>, <<Row(2, 1)>>, <<>>) : c \in {d \in CBSAs("its own") : Len(d) = 1 /\ d[1].code = 2}}
        \cup {[country |-> "CA", overrides |-> <<>>,
               cma |-> <<Rec(2, "B", 2, Block(3 .. 3, 1 .. 2))>>,
               fsa |-> <<[fsa |-> 1, prov |-> 2, shape |-> Shape({<<3, 1>>}, {})]>>]}
=============================================================================
