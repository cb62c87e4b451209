-------------------------- MODULE SubmissionPages --------------------------
(***************************************************************************)
(* Keyset paging over the submissions table                                *)
(* (api/internal/store/sqlite/store.go ListPage and the queries behind it) *)
(* as the admin list handler and the pending-queue guard use it, while     *)
(* rows arrive and change status between two pages.                        *)
(***************************************************************************)
EXTENDS Naturals, FiniteSets, SequencesExt

CONSTANTS
    Ids,           \* public ids, as numbers in their text order
    Times,         \* created_at, in milliseconds
    DefaultLimit,  \* 50
    MaxLimit,      \* 200, also maxAdminListLimit
    Limits,        \* ?limit= values a client sends; 0 is none
    QueueLimit     \* maxPendingSubmissions

\* tuning.go: "must not exceed the store's List cap".
ASSUME PagesAssumption ==
    /\ Ids \subseteq Nat \ {0} /\ IsFiniteSet(Ids) /\ Times \subseteq Nat
    /\ DefaultLimit \in 1 .. MaxLimit /\ MaxLimit \in Nat
    /\ Limits \subseteq Nat /\ QueueLimit \in 1 .. MaxLimit

Statuses == {"pending", "approved", "rejected"}

VARIABLES
    created,   \* rows: created_at, read before the insert
    status,    \* rows: "none" until inserted
    filter,    \* the status the client lists; "" is all
    limit,     \* the limit it asked for
    cursor,    \* the cursor it sends next; NoCursor at the start
    answer,    \* a response under way, or NoAnswer
    shown,     \* the ids it has been shown, in order
    phase      \* "new", "listing", "done"

VARIABLE stayed   \* rows that matched when the listing began and still do

table == <<created, status>>
ask   == <<filter, limit>>
pvars == <<table, ask, cursor, answer, shown, phase, stayed>>

NoCursor == [at |-> 0, id |-> 0]
NoAnswer == [rows |-> <<>>, next |-> NoCursor, sent |-> FALSE]

-----------------------------------------------------------------------------
(* ListPage.                                                               *)

\* Mutant: a request for the cap itself gets the default.
clampLimitAtCap(n) == IF n <= 0 \/ n >= MaxLimit THEN DefaultLimit ELSE n

clampLimit(n) == IF n <= 0 THEN DefaultLimit ELSE IF n > MaxLimit THEN MaxLimit ELSE n

Matches(i, f) == status[i] # "none" /\ (f = "" \/ status[i] = f)

\* Mutant: rows of the cursor's millisecond count as shown.
AfterTimeOnly(i, c) == c = NoCursor \/ created[i] < c.at

\* The row comparison of the two ...After queries.
After(i, c) == c = NoCursor \/ created[i] < c.at \/ (created[i] = c.at /\ i < c.id)

\* ORDER BY created_at DESC, public_id DESC LIMIT n: the row at position k has
\* k - 1 rows before it.
Newer(i, j) == created[i] > created[j] \/ (created[i] = created[j] /\ i > j)
Rank(S, i) == Cardinality({j \in S : Newer(j, i)})
Newest(S, n) ==
    [k \in 1 .. (IF Cardinality(S) < n THEN Cardinality(S) ELSE n) |->
        CHOOSE i \in S : Rank(S, i) = k - 1]

\* encodeCursor; decodeCursor gives the two fields back.
CursorAt(i) == [at |-> created[i], id |-> i]

\* One row more than the limit is fetched to see whether a page follows.
ListPage(f, n, c) ==
    LET lim  == clampLimit(n)
        rows == Newest({i \in Ids : Matches(i, f) /\ After(i, c)}, lim + 1)
    IN  IF Len(rows) > lim
        THEN [rows |-> SubSeq(rows, 1, lim), next |-> CursorAt(rows[lim]), sent |-> TRUE]
        ELSE [rows |-> rows, next |-> NoCursor, sent |-> TRUE]

List(f, n) == ListPage(f, n, NoCursor).rows

\* parseLimitParam and the status check answer 400 to anything else.
Accepted(f, n) == f \in Statuses \cup {""} /\ n \in 0 .. MaxLimit

-----------------------------------------------------------------------------
PagesInit ==
    /\ created \in [Ids -> Times] /\ status \in [Ids -> {"none", "pending", "approved"}]
    /\ filter = "" /\ limit = 0 /\ cursor = NoCursor /\ answer = NoAnswer
    /\ shown = <<>> /\ phase = "new" /\ stayed = {}

\* Create, Approve and Reject change one row each; the two updates apply to
\* pending rows only.
SetStatus(i, s) ==
    /\ status' = [status EXCEPT ![i] = s]
    /\ stayed' = stayed \ (IF filter \in {"", s} THEN {} ELSE {i})
    /\ UNCHANGED <<created, ask, cursor, answer, shown, phase>>

Create(i)  == status[i] = "none" /\ SetStatus(i, "pending")
Approve(i) == status[i] = "pending" /\ SetStatus(i, "approved")
Reject(i)  == status[i] = "pending" /\ SetStatus(i, "rejected")

\* A client begins to list; every page repeats its filter and limit.
Begin(f, n) ==
    /\ phase = "new"
    /\ Accepted(f, n)
    /\ phase' = "listing" /\ filter' = f /\ limit' = n
    /\ stayed' = {i \in Ids : Matches(i, f)}
    /\ UNCHANGED <<table, cursor, answer, shown>>

\* listSubmissionsHandler: one query, then the response travels.
Query ==
    /\ phase = "listing" /\ ~answer.sent
    /\ answer' = ListPage(filter, limit, cursor)
    /\ UNCHANGED <<table, ask, cursor, shown, phase, stayed>>

\* The page arrives; X-Next-Cursor is absent on the last one.
Deliver ==
    /\ answer.sent
    /\ shown' = shown \o answer.rows
    /\ cursor' = answer.next
    /\ phase' = IF answer.next = NoCursor THEN "done" ELSE "listing"
    /\ answer' = NoAnswer
    /\ UNCHANGED <<table, ask, stayed>>

\* The response is lost, or the query failed: the client asks again.
Lose ==
    /\ answer.sent
    /\ answer' = NoAnswer
    /\ UNCHANGED <<table, ask, cursor, shown, phase, stayed>>

PagesNext ==
    \/ \E i \in Ids : Create(i) \/ Approve(i) \/ Reject(i)
    \/ \E f \in Statuses \cup {""}, n \in Limits : Begin(f, n)
    \/ Query \/ Deliver \/ Lose

PagesSpec == PagesInit /\ [][PagesNext]_pvars

-----------------------------------------------------------------------------
\* "The composite predicate gives a stable cursor even when multiple rows
\* share a ms": while rows arrive and are decided between pages, and pages are
\* lost and asked for again, no row is shown twice, the order is newest first
\* throughout, and at the end every row that kept the status was shown.
PagingExact ==
    /\ \A k \in 1 .. Len(shown) - 1 : Newer(shown[k], shown[k + 1])
    /\ phase = "done" => stayed \subseteq ToSet(shown)

\* The pending-queue guard counts with List: at its limit, which is the cap of
\* a page, it sees a full queue exactly when the queue is full.
QueueCountExact ==
    (Len(List("pending", QueueLimit)) >= QueueLimit)
        <=> (Cardinality({i \in Ids : status[i] = "pending"}) >= QueueLimit)

=============================================================================
