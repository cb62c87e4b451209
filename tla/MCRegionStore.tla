---------------------------- MODULE MCRegionStore ----------------------------
\* Seeds of up to three regions; the bounds are explained in README.md.
EXTENDS SubmissionForms

MCSlugs   == 1 .. 3
MCUnknown == 9

\* Load order with and against slug order, and a slug defined twice.
MCOrders == {<<1, 2, 3>>, <<3, 2, 1>>, <<1, 2, 1>>}

Entry(kind, tier, up, rolled) == [kind |-> kind, tier |-> tier, parents |-> up, rollups |-> rolled]

MCParents == {<<>>, <<1>>, <<2>>, <<3>>, <<1, 2>>, <<1, 3>>, <<2, 3>>, <<1, 1>>}

MCEntries ==
    {Entry("us:state", "regional", up, <<>>) : up \in MCParents}
        \cup {Entry("us:metro", "regional", up, rolled) : up \in MCParents, rolled \in {<<>>, <<1, 1>>}}
        \cup {Entry("us:city", "local", up, <<>>) : up \in MCParents}
        \cup {Entry("us:nation", "national", up, <<>>) : up \in MCParents}

MCOrgSlugLists == {<<1>>, <<2>>, <<3>>, <<1, 2>>, <<3, 2, 3>>, <<1, 9>>}

\* "12345", " m5v 1a1 ", "M5" (no FSA), and a row filed under another country.
MCRows ==
    {[file |-> "US", country |-> "US", text |-> <<1, 2, 3, 4, 5>>],
     [file |-> "CA", country |-> "CA", text |-> <<Space, 73, 5, 82, Space, 1, 61, 1, Space>>],
     [file |-> "CA", country |-> "CA", text |-> <<23, 5>>],
     [file |-> "US", country |-> "CA", text |-> <<23, 5, 32>>]}

\* ZIP+4 with and without the hyphen and cut short, an APO, a tab inside, too long
\* and blank ones; some of them for countries without a row.
MCTexts ==
    {<<1, 2, 3, 4, 5>>, <<1, 2, 3, Space, 4, 5, Tab>>, <<1, 2, 3, 4, 5, Hyphen, 6, 7, 8, 9>>,
     <<1, 2, 3, 4, 5, 6, 7, 8, 9>>, <<1, 2, 3, 4, 5, Hyphen, 6, 7>>, <<1, 2, 3, 4, 5, 6>>,
     <<0, 9, 4, 5, 6>>, <<0, 9, 9, 5, 6>>, <<3, 4, 0, 1, 1>>,
     <<23, 5, 32>>, <<73, 5, 82, 1, 61, 1>>, <<23, 5, Tab, 32>>, <<23, Space, 5, 32, 93>>, <<23, 5>>,
     <<Space, Tab>>, [i \in 1 .. 17 |-> 1]}
MCForeign == {<<1, 2, 3, 4, 5, Hyphen, 6, 7>>, <<23, Space, 5, 32, 93>>, <<Space, Tab>>}
MCQueries ==
    [country : {"US", "CA"}, text : MCTexts]
        \cup [country : {"UK", "PT", "FR"}, text : MCForeign]

\* A form in order, and others with one field or the slugs changed: padded, blank,
\* at and beyond a cap, or of another shape.
Written(pad, len, is) == [pad |-> pad, len |-> len, is |-> is]
Typed(slug, exact, pad, len) == [slug |-> slug, exact |-> exact, pad |-> pad, len |-> len]
Blank == Written(TRUE, 0, NoWords)

GoodForm ==
    [name |-> Written(TRUE, 200, "safe streets"), short_desc |-> Written(TRUE, 1000, "text"),
     website_url |-> Written(TRUE, 500, "http"), contact_url |-> Blank,
     submitter_name |-> Blank, submitter_email |-> Blank, submitter_note |-> Blank,
     region_slugs |-> <<Typed(2, FALSE, TRUE, 100)>>]

MCSlugLists ==
    {<<>>, <<Typed(1, TRUE, FALSE, 5)>>, <<Typed(3, FALSE, TRUE, 101)>>, <<Typed(9, TRUE, FALSE, 5)>>,
     <<Typed(1, TRUE, FALSE, 5), Typed(9, TRUE, TRUE, 0), Typed(2, FALSE, TRUE, 5)>>,
     <<Typed(1, TRUE, FALSE, 5), Typed(1, FALSE, FALSE, 5)>>,
     [i \in 1 .. 21 |-> Typed(1, TRUE, FALSE, 5)]}

MCForms ==
    {GoodForm}
        \cup {[GoodForm EXCEPT !.region_slugs = l] : l \in MCSlugLists}
        \cup {[GoodForm EXCEPT !.name = t] :
                  t \in {Blank, Written(FALSE, 201, "safe streets"), Written(FALSE, 14, "safe streets"),
                          Written(TRUE, 9, "bike club"), Written(TRUE, 5, NoWords)}}
        \cup {[GoodForm EXCEPT !.short_desc = t] : t \in {Blank, Written(FALSE, 1001, "text")}}
        \cup {[GoodForm EXCEPT !.website_url = Written(TRUE, n, is)] :
                  n \in {50, 501}, is \in {"http", "no host", "mailto", "junk", "other"}}
        \cup {[GoodForm EXCEPT !.contact_url = Written(TRUE, n, is)] :
                  n \in {50, 501}, is \in {"http", "no host", "mailto", "mailto nobody", "junk", "other"}}
        \cup {[GoodForm EXCEPT !.submitter_name = Written(TRUE, 201, "text")],
              [GoodForm EXCEPT !.submitter_email = Written(TRUE, 321, "address")],
              [GoodForm EXCEPT !.submitter_email = Written(TRUE, 320, "address")],
              [GoodForm EXCEPT !.submitter_email = Written(TRUE, 20, "text")],
              [GoodForm EXCEPT !.submitter_note = Written(TRUE, 1999, "text")]}

=============================================================================
