--------------------------- MODULE SubmissionForms ---------------------------
(***************************************************************************)
(* The checks a proposed org passes twice: ValidateSubmission when the     *)
(* form is posted (api/pkg/atlas/submission_validate.go), and, once the    *)
(* rendered block is merged (api/internal/githubpr/toml.go), those of the  *)
(* seed loader at the next boot (api/internal/seedfiles/orgs.go, build.go),*)
(* where one bad entry keeps the whole server down.                        *)
(*                                                                         *)
(* A text is [pad, len, is]: blanks around it, its length without them,    *)
(* and what a parser makes of it; a character is one byte.  Of a name it   *)
(* makes the runs of ASCII letters and digits, in lower case, or NoWords:  *)
(* two names that differ in case or punctuation have the same.  A region   *)
(* slug is [slug, exact, pad, len]: exact is false if it is typed in       *)
(* another case.                                                           *)
(***************************************************************************)
EXTENDS RegionStore

CONSTANTS
    Forms,      \* what may be posted
    MaxMerged   \* bound on the promoted orgs in one file

Text      == [pad : BOOLEAN, len : Nat, is : STRING]
TypedSlug == [slug : Nat, exact : BOOLEAN, pad : BOOLEAN, len : Nat]

ASSUME FormsAssumption ==
    /\ Forms \subseteq [name : Text, short_desc : Text, website_url : Text, contact_url : Text,
                        submitter_name : Text, submitter_email : Text, submitter_note : Text,
                        region_slugs : Seq(TypedSlug)]
    /\ MaxMerged \in Nat

MaxNameLen           == 200
MaxShortDescLen      == 1000
MaxURLLen            == 500
MaxRegionSlugLen     == 100
MaxRegionSlugs       == 20
MaxSubmitterNameLen  == 200
MaxSubmitterEmailLen == 320
MaxSubmitterNoteLen  == 2000

Trimmed(t) == [t EXCEPT !.pad = FALSE]
Length(t)  == IF t.pad THEN t.len + 2 ELSE t.len

\* Blank region slugs are dropped.
TrimmedSlugs(slugs) ==
    LET typed == Picked(slugs, {i \in DOMAIN slugs : slugs[i].len # 0})
    IN  [i \in DOMAIN typed |-> Trimmed(typed[i])]

\* Everything but the note is trimmed.
normalizeSubmission(f) ==
    [name |-> Trimmed(f.name), short_desc |-> Trimmed(f.short_desc),
     website_url |-> Trimmed(f.website_url), contact_url |-> Trimmed(f.contact_url),
     submitter_name |-> Trimmed(f.submitter_name), submitter_email |-> Trimmed(f.submitter_email),
     submitter_note |-> f.submitter_note, region_slugs |-> TrimmedSlugs(f.region_slugs)]

\* url.Parse refuses a blank inside, or a text that is no URL.
ClassifyURL(raw, allowMailto) ==
    CASE Length(raw) > MaxURLLen -> "too long"
      [] raw.pad \/ raw.is = "junk" -> "parse failed"
      [] raw.is = "http" -> "ok"
      [] raw.is = "no host" -> "missing host"
      [] raw.is = "mailto" -> IF allowMailto THEN "ok" ELSE "bad scheme"
      [] raw.is = "mailto nobody" -> IF allowMailto THEN "no address" ELSE "bad scheme"
      [] OTHER -> "bad scheme"

looksLikeEmail(t) == t.is = "address"

BadText(t, required, max) == (required /\ Length(t) = 0) \/ Length(t) > max
BadURL(t, allowMailto)    == ClassifyURL(t, allowMailto) # "ok"

ErrorIf(bad, field) == IF bad THEN {field} ELSE {}

\* The names of the fields in error.  No region slug at all is fine here.
submissionShapeErrors(f) ==
    ErrorIf(BadText(f.name, TRUE, MaxNameLen), "name")
        \cup ErrorIf(BadText(f.short_desc, TRUE, MaxShortDescLen), "short_desc")
        \cup ErrorIf(Length(f.website_url) = 0 \/ BadURL(f.website_url, FALSE), "website_url")
        \cup ErrorIf(Length(f.contact_url) # 0 /\ BadURL(f.contact_url, TRUE), "contact_url")
        \cup ErrorIf(\/ Len(f.region_slugs) > MaxRegionSlugs
                     \/ \E s \in Range(f.region_slugs) : BadText(s, TRUE, MaxRegionSlugLen), "region_slugs")
        \cup ErrorIf(BadText(f.submitter_name, FALSE, MaxSubmitterNameLen), "submitter_name")
        \cup ErrorIf(\/ Length(f.submitter_email) > MaxSubmitterEmailLen
                     \/ Length(f.submitter_email) # 0 /\ ~looksLikeEmail(f.submitter_email), "submitter_email")
        \cup ErrorIf(BadText(f.submitter_note, FALSE, MaxSubmitterNoteLen), "submitter_note")

\* Folds case and knows no national region; 0: ErrRegionNotFound.
ResolveRegionBySlug(s) ==
    LET i == IdOf(s.slug) IN IF ~s.pad /\ i # 0 /\ HasPage(i) THEN i ELSE 0

\* Every slug resolves, and no two to one region.
Resolvable(slugs) ==
    LET ids == [i \in DOMAIN slugs |-> ResolveRegionBySlug(slugs[i])]
    IN  0 \notin Range(ids) /\ IsInjective(ids)

\* Mutant: the slugs are kept as they were typed, and compared so.
canonicalRegionSlugsAsTyped(slugs) ==
    [ok |-> /\ \A s \in Range(slugs) : ResolveRegionBySlug(s) # 0
            /\ IsInjective(slugs),
     slugs |-> slugs]

\* The regions' own slugs.
canonicalRegionSlugs(slugs) ==
    [ok |-> Resolvable(slugs),
     slugs |-> IF Resolvable(slugs)
               THEN [i \in DOMAIN slugs |-> [slugs[i] EXCEPT !.exact = TRUE]]
               ELSE slugs]

\* The fields in error and, without one, what is stored.
ValidateSubmission(f) ==
    LET in     == normalizeSubmission(f)
        shape  == submissionShapeErrors(in)
        found  == canonicalRegionSlugs(in.region_slugs)
        errors == IF "region_slugs" \notin shape /\ ~found.ok THEN shape \cup {"region_slugs"} ELSE shape
    IN  [errors |-> errors,
         stored |-> IF errors = {} THEN [in EXCEPT !.region_slugs = found.slugs] ELSE f]

NoWords == ""

\* The folded words joined by hyphens; empty without any.  Names of the same words
\* get the same slug.
DeriveSlug(name) == [words |-> name.is, lower |-> TRUE]

\* The [[org]] entry, or none if the slug is empty; the submitter's fields stay
\* behind.
RenderOrgBlock(sub) ==
    IF DeriveSlug(sub.name).words = NoWords THEN {}
    ELSE {[slug |-> DeriveSlug(sub.name), name |-> sub.name, short_desc |-> sub.short_desc,
           website_url |-> sub.website_url, contact_url |-> sub.contact_url,
           region_slugs |-> sub.region_slugs]}

\* Entries of submissions have no tags.
ValidateOrgFields(entry) ==
    /\ ~BadText(entry.name, TRUE, MaxNameLen)
    /\ ~BadText(entry.short_desc, TRUE, MaxShortDescLen)
    /\ Length(entry.website_url) # 0 /\ ~BadURL(entry.website_url, FALSE)
    /\ Length(entry.contact_url) = 0 \/ ~BadURL(entry.contact_url, TRUE)
    /\ Len(entry.region_slugs) \in 1 .. MaxRegionSlugs
    /\ \A s \in Range(entry.region_slugs) : ~BadText(s, TRUE, MaxRegionSlugLen)

\* The file as a whole: its loop refuses a slug that it has seen.
validateOrgs(orgs) ==
    /\ orgs # <<>>
    /\ \A i \in DOMAIN orgs :
          /\ orgs[i].slug.words # NoWords /\ orgs[i].slug.lower
          /\ \A j \in 1 .. i - 1 : orgs[j].slug # orgs[i].slug
          /\ ValidateOrgFields(orgs[i])

\* The ids, 0 for a slug that is unknown as it stands.
resolveOrgRegions(slugs) ==
    {IF s.exact /\ ~s.pad THEN IdOf(s.slug) ELSE 0 : s \in Range(slugs)}

\* ParseOrgs, and the loop of build over the orgs.
OrgsLoad(orgs) ==
    /\ validateOrgs(orgs)
    /\ \A i \in DOMAIN orgs : 0 \notin resolveOrgRegions(orgs[i].region_slugs)

-----------------------------------------------------------------------------

\* What the worker appends to orgs.toml for the forms the handler accepts.
Promoted ==
    UNION {RenderOrgBlock(ValidateSubmission(f).stored) :
               f \in {g \in Forms : ValidateSubmission(g).errors = {}}}

\* The next boot, if orgs are promoted as they were submitted: a file of such
\* entries loads exactly if each names a region and no two have one slug, and
\* each entry has as many regions as it lists, all of them with a page that shows
\* it.  Nothing before the boot compares slugs (openPR does not look into the
\* file it appends to), so those two conditions are what an editor must see to;
\* of the rest, submissions and seeds share ClassifyURL and the field caps, but
\* not the resolution of region slugs.
AcceptedSubmissionLoads ==
    GraphLoaded =>
        LET orgs == Promoted
        IN  /\ \A entry \in orgs :
                  LET ids == resolveOrgRegions(entry.region_slugs)
                  IN  /\ \A i \in ids : i # 0 /\ HasPage(i)
                      /\ Cardinality(ids) = Len(entry.region_slugs)
            /\ \A n \in 1 .. MaxMerged : \A merged \in [1 .. n -> orgs] :
                  OrgsLoad(merged) <=>
                      /\ IsInjective([i \in 1 .. n |-> merged[i].slug])
                      /\ \A i \in 1 .. n : merged[i].region_slugs # <<>>

=============================================================================
