-------------------------- MODULE SubmissionIntake --------------------------
(***************************************************************************)
(* What POST /api/v1/submissions passes through before a row is inserted   *)
(* (api/internal/httpapi/ratelimit.go, router.go): the pending-queue guard *)
(* with its cached answer, the sliding-window rate limiter, and the create *)
(* handler.  Requests run concurrently; a mutex makes each of full and     *)
(* allow one step, except that allow reads the clock before it locks.      *)
(*                                                                         *)
(* A hit, a time in a slice of the limiter, is a record: at is that time,  *)
(* the only field a step reads; the others say whose it is and when the    *)
(* lock was held, and nr tells apart hits that agree in the rest.          *)
(***************************************************************************)
EXTENDS Integers, FiniteSets

CONSTANTS
    Requests,         \* request goroutines
    Clients,          \* rateLimitKey of the source address
    NoClient,
    Window,           \* ipRateLimiter.window
    MaxPerWin,        \* ipRateLimiter.maxPerWin
    GlobalMax,        \* ipRateLimiter.globalMax
    SweepEvery,       \* ipRateLimiter.sweepEvery
    MaxPending,       \* pendingQueue.maxPending
    CheckInterval,    \* pendingQueueCheckInterval
    RetryInterval,    \* pendingQueueRetryInterval
    RequestLife,      \* requestTimeout: how long a request can be under way
    MaxTime           \* bound on the clock

ASSUME IntakeAssumption ==
    /\ {Window, MaxPerWin, GlobalMax, SweepEvery, MaxPending, CheckInterval,
        RetryInterval, RequestLife, MaxTime} \subseteq Nat \ {0}
    /\ NoClient \notin Clients
    /\ RetryInterval <= CheckInterval
    /\ CheckInterval + 2 * RequestLife < Window

VARIABLES
    now,          \* the clock
    hits,         \* ipRateLimiter.hits: each client's hits
    global,       \* ipRateLimiter.global: hits too
    lastSwept,    \* ipRateLimiter.lastSwept
    checkedAt,    \* pendingQueue.checkedAt
    isFull,       \* pendingQueue.isFull
    pending,      \* rows with status pending
    qpc,          \* requests: where each is
    client,       \* requests: the client it comes from
    stamp,        \* requests: allow's now
    since         \* requests: when it arrived

VARIABLES         \* observations, which no step reads
    admitted,     \* the hits of what the limiter let through in the last Window
    checkFailed   \* a pending-queue query has failed

limitVars == <<hits, global, lastSwept>>
queueVars == <<checkedAt, isFull>>
reqVars   == <<qpc, client, stamp, since>>
ivars     == <<now, limitVars, queueVars, pending, reqVars, admitted, checkFailed>>

Never == -1000    \* the zero time.Time

IntakeInit ==
    /\ now = 0
    /\ hits = [c \in Clients |-> {}] /\ global = {} /\ lastSwept = Never
    /\ checkedAt = Never /\ isFull = FALSE
    /\ pending \in 0 .. MaxPending
    /\ qpc = [r \in Requests |-> "idle"]
    /\ client = [r \in Requests |-> NoClient]
    /\ stamp = [r \in Requests |-> 0]
    /\ since = [r \in Requests |-> 0]
    /\ admitted = {} /\ checkFailed = FALSE

-----------------------------------------------------------------------------
keepRecent(ts, cutoff) == {h \in ts : h.at > cutoff}

\* A hit of client c at time t that is not in any of the sets yet.
NewHit(c, t) ==
    LET known == admitted \cup global \cup hits[c]
        hit(n) == [client |-> c, at |-> t, when |-> now, nr |-> n]
    IN  hit(CHOOSE n \in 1 .. Cardinality(known) + 1 : hit(n) \notin known)

\* Time passes, but no request outlives requestTimeout.
Tick ==
    /\ now < MaxTime
    /\ \A r \in Requests : qpc[r] # "idle" => now + 1 - since[r] <= RequestLife
    /\ now' = now + 1
    /\ admitted' = {h \in admitted : h.when > now' - Window}
    /\ UNCHANGED <<limitVars, queueVars, pending, reqVars, checkFailed>>

Goto(r, pc) ==
    /\ qpc' = [qpc EXCEPT ![r] = pc]
    /\ UNCHANGED <<client, stamp, since>>

\* The request is answered.
Respond(r) ==
    /\ qpc' = [qpc EXCEPT ![r] = "idle"]
    /\ client' = [client EXCEPT ![r] = NoClient]
    /\ stamp' = [stamp EXCEPT ![r] = 0]
    /\ since' = [since EXCEPT ![r] = 0]

Arrive(r, c) ==
    /\ qpc[r] = "idle"
    /\ qpc' = [qpc EXCEPT ![r] = "guard"]
    /\ client' = [client EXCEPT ![r] = c]
    /\ since' = [since EXCEPT ![r] = now]
    /\ UNCHANGED <<now, limitVars, queueVars, pending, stamp, admitted, checkFailed>>

-----------------------------------------------------------------------------
(* pendingQueue.full and the guard around it.                              *)

Fresh == checkedAt # Never /\ now - checkedAt < CheckInterval

\* 429 while the queue is full, else on to the limiter.
Pass(r, full) == IF full THEN Respond(r) ELSE Goto(r, "clock")

GuardCached(r) ==
    /\ qpc[r] = "guard" /\ Fresh
    /\ Pass(r, isFull)
    /\ UNCHANGED <<now, limitVars, queueVars, pending, admitted, checkFailed>>

\* Mutant: a queue of MaxPending rows does not count as full.
GuardQueryOffByOne(r) ==
    /\ qpc[r] = "guard" /\ ~Fresh
    /\ isFull' = (pending > MaxPending)
    /\ checkedAt' = now
    /\ Pass(r, isFull')
    /\ UNCHANGED <<now, limitVars, pending, admitted, checkFailed>>

GuardQuery(r) ==
    /\ qpc[r] = "guard" /\ ~Fresh
    /\ isFull' = (pending >= MaxPending)
    /\ checkedAt' = now
    /\ Pass(r, isFull')
    /\ UNCHANGED <<now, limitVars, pending, admitted, checkFailed>>

\* A failed query keeps the last answer and is retried after RetryInterval.
GuardQueryFails(r) ==
    /\ qpc[r] = "guard" /\ ~Fresh
    /\ checkedAt' = now + RetryInterval - CheckInterval
    /\ Pass(r, isFull)
    /\ checkFailed' = TRUE
    /\ UNCHANGED <<now, limitVars, isFull, pending, admitted>>

-----------------------------------------------------------------------------
(* ipRateLimiter.allow.                                                    *)

AllowClock(r) ==
    /\ qpc[r] = "clock"
    /\ stamp' = [stamp EXCEPT ![r] = now]
    /\ qpc' = [qpc EXCEPT ![r] = "allow"]
    /\ UNCHANGED <<now, limitVars, queueVars, pending, client, since, admitted, checkFailed>>

\* Mutant: the sweep's cutoff is the time itself.
SweptCutoffNow(t) ==
    IF t - lastSwept > SweepEvery
    THEN [c \in Clients |-> keepRecent(hits[c], t)]
    ELSE hits

\* The hits after the sweep, if one is due at time t.
Swept(t) ==
    IF t - lastSwept > SweepEvery
    THEN [c \in Clients |-> keepRecent(hits[c], t - Window)]
    ELSE hits

Allow(r) ==
    /\ qpc[r] = "allow"
    /\ LET c == client[r]
           t == stamp[r]
           swept == Swept(t)
           recent == keepRecent(swept[c], t - Window)
           recentGlobal == keepRecent(global, t - Window)
       IN  /\ lastSwept' = IF t - lastSwept > SweepEvery THEN t ELSE lastSwept
           /\ \/ /\ Cardinality(recent) >= MaxPerWin
                 /\ hits' = [swept EXCEPT ![c] = recent]
                 /\ Respond(r)
                 /\ UNCHANGED <<global, admitted>>
              \/ /\ Cardinality(recent) < MaxPerWin /\ Cardinality(recentGlobal) >= GlobalMax
                 /\ hits' = [swept EXCEPT ![c] = recent]
                 /\ global' = recentGlobal
                 /\ Respond(r)
                 /\ UNCHANGED admitted
              \/ /\ Cardinality(recent) < MaxPerWin /\ Cardinality(recentGlobal) < GlobalMax
                 /\ hits' = [swept EXCEPT ![c] = recent \cup {NewHit(c, t)}]
                 /\ global' = recentGlobal \cup {NewHit(c, t)}
                 /\ Goto(r, "create")
                 /\ admitted' = admitted \cup {NewHit(c, t)}
    /\ UNCHANGED <<now, queueVars, pending, checkFailed>>

-----------------------------------------------------------------------------
\* The row is inserted, or the body is invalid or the store fails.
Create(r) ==
    /\ qpc[r] = "create"
    /\ pending' \in {pending, pending + 1}
    /\ Respond(r)
    /\ UNCHANGED <<now, limitVars, queueVars, admitted, checkFailed>>

\* A moderator approves or rejects a submission.
Moderate ==
    /\ pending > 0
    /\ pending' = pending - 1
    /\ UNCHANGED <<now, limitVars, queueVars, reqVars, admitted, checkFailed>>

IntakeNext ==
    \/ Tick \/ Moderate
    \/ \E r \in Requests, c \in Clients : Arrive(r, c)
    \/ \E r \in Requests : \/ GuardCached(r) \/ GuardQuery(r) \/ GuardQueryFails(r)
                           \/ AllowClock(r) \/ Allow(r) \/ Create(r)

IntakeSpec == IntakeInit /\ [][IntakeNext]_ivars

-----------------------------------------------------------------------------
Hits == [client : Clients, at : 0 .. now, when : 0 .. now, nr : Nat \ {0}]

IntakeTypeOK ==
    /\ now \in 0 .. MaxTime
    /\ hits \in [Clients -> SUBSET Hits] /\ global \subseteq Hits /\ admitted \subseteq Hits
    /\ lastSwept \in {Never} \cup (0 .. now)
    /\ checkedAt \in {Never} \cup (-CheckInterval .. now) /\ isFull \in BOOLEAN
    /\ pending \in Nat
    /\ qpc \in [Requests -> {"idle", "guard", "clock", "allow", "create"}]
    /\ client \in [Requests -> Clients \cup {NoClient}]
    /\ stamp \in [Requests -> 0 .. now] /\ since \in [Requests -> 0 .. now]
    /\ checkFailed \in BOOLEAN

\* What the limiter let through in the n ticks up to now.
Passed(n) == {h \in admitted : h.when > now - n}

\* No client gets more than MaxPerWin requests through in a window, and all
\* of them together no more than GlobalMax, although a request may wait for
\* the lock with an old clock reading and a sweep may use a newer one.  The
\* window can shrink by what such a request waited.
BudgetsHold ==
    LET passed == Passed(Window - RequestLife)
    IN  /\ \A c \in Clients : Cardinality({h \in passed : h.client = c}) <= MaxPerWin
        /\ Cardinality(passed) <= GlobalMax

\* "pendingQueueCheckInterval bounds overshoot to one interval of global
\* limit": with the cached answer, requests under way and moderation, the
\* queue never exceeds its cap by as much as the global budget, as long as
\* no query has failed.
OvershootBounded == ~checkFailed => pending < MaxPending + GlobalMax

=============================================================================
