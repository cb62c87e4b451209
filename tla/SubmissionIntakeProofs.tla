----------------------- MODULE SubmissionIntakeProofs -----------------------
(***************************************************************************)
(* The budgets of the rate limiter and the overshoot of the pending queue, *)
(* for any clients, requests, windows and caps.                            *)
(***************************************************************************)
EXTENDS SubmissionIntake, FiniteSetTheorems, TLAPS

-----------------------------------------------------------------------------
(* The inductive invariant.                                                *)

AllHits == [client : Clients, at : Nat, when : Nat, nr : Nat]
PastGuard == {r \in Requests : qpc[r] \in {"clock", "allow", "create"}}
Creating  == {r \in Requests : qpc[r] = "create"}

IntakeTypes ==
    /\ now \in Nat /\ pending \in Nat
    /\ hits \in [Clients -> SUBSET AllHits]
    /\ global \subseteq AllHits /\ admitted \subseteq AllHits
    /\ IsFiniteSet(global) /\ IsFiniteSet(admitted) /\ IsFiniteSet(Creating)
    /\ \A c \in Clients : IsFiniteSet(hits[c])
    /\ qpc \in [Requests -> {"idle", "guard", "clock", "allow", "create"}]
    /\ client \in [Requests -> Clients \cup {NoClient}]
    /\ stamp \in [Requests -> Nat] /\ since \in [Requests -> Nat]

\* The limiter never keeps more hits than its budgets.
LimitInv ==
    /\ Cardinality(global) <= GlobalMax
    /\ \A c \in Clients : Cardinality(hits[c]) <= MaxPerWin

\* A request under way is not older than requestTimeout, and read the clock
\* after it arrived.
RequestInv ==
    \A r \in Requests : qpc[r] # "idle" =>
        /\ client[r] \in Clients
        /\ since[r] <= now /\ now - since[r] <= RequestLife
        /\ qpc[r] \in {"allow", "create"} => since[r] <= stamp[r] /\ stamp[r] <= now

\* What was let through within a Window, by its own clock reading, is still
\* in both sets of the limiter.
AdmitInv ==
    \A h \in admitted :
        /\ h.at <= h.when /\ h.when <= h.at + RequestLife
        /\ h.at > now - Window => h \in global /\ h \in hits[h.client]

\* Requests about to insert have their hits in the global budget.
HoldInv ==
    \A x \in Int : x > now - Window =>
        Cardinality({r \in Creating : stamp[r] >= x}) <= Cardinality({h \in global : h.at >= x})

\* The last answer of the queue that let requests through was given at time
\* tau: whatever has passed the guard arrived before that answer expired, and
\* every insert since, done or to come, has its own hit in the global budget.
OpenSince(tau) ==
    /\ tau <= now /\ checkedAt # Never
    /\ ~isFull => checkedAt = tau
    /\ \A r \in PastGuard : since[r] < tau + CheckInterval
    /\ pending + Cardinality(Creating)
          < MaxPending + Cardinality({h \in global : h.at >= tau - RequestLife})

\* No answer has let a request through yet.
NeverOpen ==
    /\ checkedAt = Never \/ isFull
    /\ PastGuard = {}
    /\ pending <= MaxPending

QueueInv == checkFailed \/ NeverOpen \/ \E tau \in Nat : OpenSince(tau)

IntakeInv == IntakeTypes /\ LimitInv /\ RequestInv /\ AdmitInv /\ HoldInv /\ QueueInv

-----------------------------------------------------------------------------
(* Operators.                                                              *)

\* The constants, one by one.
LEMMA Bounds ==
    /\ Window \in Nat \ {0} /\ MaxPerWin \in Nat \ {0} /\ GlobalMax \in Nat \ {0}
    /\ MaxPending \in Nat \ {0} /\ CheckInterval \in Nat \ {0} /\ RequestLife \in Nat \ {0}
    /\ CheckInterval + 2 * RequestLife < Window
  BY IntakeAssumption

\* What is in a window now was in it before.
LEMMA Later ==
    ASSUME NEW a \in Nat, NEW b \in Nat, NEW w \in Nat, NEW x \in Int, a <= b, x > b - w
    PROVE  x > a - w
  OBVIOUS

\* What keepRecent returns is part of what it is given.
LEMMA KeepFinite ==
    ASSUME NEW S, IsFiniteSet(S), NEW x
    PROVE  /\ keepRecent(S, x) \subseteq S /\ IsFiniteSet(keepRecent(S, x))
           /\ Cardinality(keepRecent(S, x)) \in Nat
           /\ Cardinality(keepRecent(S, x)) <= Cardinality(S)
<1>1. keepRecent(S, x) \subseteq S BY DEF keepRecent
<1> QED BY <1>1, FS_Subset, FS_CardinalityType

\* A part of a finite set is finite, with a cardinality that is not larger.
LEMMA PartCount ==
    ASSUME NEW S, IsFiniteSet(S), NEW T, T \subseteq S
    PROVE  /\ IsFiniteSet(T) /\ Cardinality(T) \in Nat /\ Cardinality(S) \in Nat
           /\ Cardinality(T) <= Cardinality(S)
  BY FS_Subset, FS_CardinalityType

\* Adding a new element adds one.
LEMMA AddCount ==
    ASSUME NEW S, IsFiniteSet(S), NEW e, e \notin S
    PROVE  /\ IsFiniteSet(S \cup {e}) /\ Cardinality(S) \in Nat
           /\ Cardinality(S \cup {e}) = Cardinality(S) + 1
  BY FS_AddElement, FS_CardinalityType

\* There is a number that makes a hit new.
LEMMA FreshHit ==
    ASSUME IntakeTypes, NEW c \in Clients, NEW t \in Nat
    PROVE  /\ NewHit(c, t) \in AllHits
           /\ NewHit(c, t) \notin admitted /\ NewHit(c, t) \notin global
           /\ NewHit(c, t) \notin hits[c]
           /\ NewHit(c, t).at = t /\ NewHit(c, t).client = c /\ NewHit(c, t).when = now
<1> DEFINE known == admitted \cup global \cup hits[c]
           k == Cardinality(known)
           hit(n) == [client |-> c, at |-> t, when |-> now, nr |-> n]
           chosen == CHOOSE n \in 1 .. k + 1 : hit(n) \notin known
<1>1. IsFiniteSet(known) /\ k \in Nat
  <2>1. IsFiniteSet(admitted \cup global) BY FS_Union DEF IntakeTypes
  <2>2. IsFiniteSet(known) BY <2>1, FS_Union DEF IntakeTypes
  <2> QED BY <2>2, FS_CardinalityType
<1>2. \E n \in 1 .. k + 1 : hit(n) \notin known
  <2> SUFFICES ASSUME \A n \in 1 .. k + 1 : hit(n) \in known PROVE FALSE
    OBVIOUS
  <2> DEFINE f == [n \in 1 .. k + 1 |-> hit(n)]
  <2> HIDE DEF known, k
  <2>1. f \in [1 .. k + 1 -> known] OBVIOUS
  <2>2. \A m, n \in 1 .. k + 1 : f[m] = f[n] => m = n OBVIOUS
  <2>3. f \in Injection(1 .. k + 1, known) BY <2>1, <2>2 DEF Injection, IsInjective
  <2>4. Cardinality(1 .. k + 1) <= Cardinality(known) BY <1>1, <2>3, FS_Injection
  <2>5. Cardinality(1 .. k + 1) = k + 1 BY <1>1, FS_Interval
  <2> QED BY <1>1, <2>4, <2>5 DEF k
<1>3. chosen \in 1 .. k + 1 /\ hit(chosen) \notin known BY <1>2
<1>4. NewHit(c, t) = hit(chosen) BY DEF NewHit
<1> HIDE DEF known, k, chosen
<1>5. hit(chosen) \in AllHits BY <1>1, <1>3 DEF AllHits, IntakeTypes
<1>6. hit(chosen).at = t /\ hit(chosen).client = c /\ hit(chosen).when = now OBVIOUS
<1> QED BY <1>3, <1>4, <1>5, <1>6 DEF known

-----------------------------------------------------------------------------
(* The limiter's part: steps other than Allow.                             *)

\* The initial state satisfies the invariant.
LEMMA IntakeInitInv == IntakeInit => IntakeInv
<1> SUFFICES ASSUME IntakeInit PROVE IntakeInv
  OBVIOUS
<1> USE Bounds DEF IntakeInit
<1>1. Creating = {} /\ PastGuard = {} BY DEF Creating, PastGuard
<1>2. IntakeTypes BY <1>1, FS_EmptySet DEF IntakeTypes
<1>3. LimitInv BY FS_EmptySet DEF LimitInv
<1>4. RequestInv /\ AdmitInv BY DEF RequestInv, AdmitInv
<1>5. HoldInv
  <2> SUFFICES ASSUME NEW x \in Int
               PROVE  Cardinality({r \in Creating : stamp[r] >= x})
                        <= Cardinality({h \in global : h.at >= x})
    BY DEF HoldInv
  <2>1. {r \in Creating : stamp[r] >= x} = {} /\ {h \in global : h.at >= x} = {} BY <1>1
  <2>2. Cardinality({}) = 0 BY FS_EmptySet
  <2>3. Cardinality({r \in Creating : stamp[r] >= x}) = 0
        /\ Cardinality({h \in global : h.at >= x}) = 0
    BY <2>1, <2>2
  <2> QED BY <2>3
<1>6. QueueInv BY <1>1 DEF QueueInv, NeverOpen
<1> QED BY <1>2, <1>3, <1>4, <1>5, <1>6 DEF IntakeInv

\* A step that leaves the limiter alone and starts no insert.
LimiterKept ==
    /\ UNCHANGED <<hits, global>>
    /\ now' \in Nat /\ now <= now' /\ admitted' \subseteq admitted
    /\ Creating' \subseteq Creating
    /\ \A r \in Creating' : stamp'[r] = stamp[r]

\* It keeps the budgets, the admitted hits and those of the inserts.
LEMMA KeptInv ==
    ASSUME IntakeInv, LimiterKept
    PROVE  /\ LimitInv' /\ AdmitInv' /\ HoldInv'
           /\ IsFiniteSet(admitted') /\ IsFiniteSet(Creating')
           /\ Cardinality(Creating') \in Nat /\ Cardinality(Creating) \in Nat
           /\ Cardinality(Creating') <= Cardinality(Creating)
<1> USE DEF LimiterKept
<1>0. IntakeTypes /\ now \in Nat BY DEF IntakeInv, IntakeTypes
<1>1. /\ IsFiniteSet(admitted') /\ IsFiniteSet(Creating')
      /\ Cardinality(Creating') \in Nat /\ Cardinality(Creating) \in Nat
      /\ Cardinality(Creating') <= Cardinality(Creating)
  BY <1>0, PartCount DEF IntakeTypes
<1>2. LimitInv' BY DEF IntakeInv, LimitInv
<1>3. AdmitInv'
  <2> SUFFICES ASSUME NEW h \in admitted'
               PROVE  /\ h.at <= h.when /\ h.when <= h.at + RequestLife
                      /\ h.at > now' - Window => h \in global' /\ h \in hits'[h.client]
    BY DEF AdmitInv
  <2>1. h \in admitted /\ h.at \in Nat BY <1>0 DEF IntakeTypes, AllHits
  <2>2. h.at > now' - Window => h.at > now - Window BY <1>0, <2>1, Bounds
  <2> QED BY <2>1, <2>2 DEF IntakeInv, AdmitInv
<1>4. HoldInv'
  <2> SUFFICES ASSUME NEW x \in Int, x > now' - Window
               PROVE  Cardinality({r \in Creating' : stamp'[r] >= x})
                        <= Cardinality({h \in global : h.at >= x})
    BY DEF HoldInv
  <2>0. x > now - Window
    <3>1. now' \in Nat /\ now <= now' /\ now \in Nat /\ Window \in Nat BY <1>0, Bounds
    <3> QED BY <3>1, Later
  <2> DEFINE A == {r \in Creating : stamp[r] >= x}
             B == {r \in Creating' : stamp'[r] >= x}
             G == {h \in global : h.at >= x}
  <2>1. B \subseteq A /\ A \subseteq Creating /\ G \subseteq global OBVIOUS
  <2>2. IsFiniteSet(A) /\ Cardinality(A) \in Nat BY <1>0, <2>1, PartCount DEF IntakeTypes
  <2>3. Cardinality(G) \in Nat BY <1>0, <2>1, PartCount DEF IntakeTypes
  <2>4. Cardinality(B) \in Nat /\ Cardinality(B) <= Cardinality(A) BY <2>1, <2>2, PartCount
  <2>6. Cardinality(A) <= Cardinality(G) BY <2>0 DEF IntakeInv, HoldInv
  <2> HIDE DEF A, B, G
  <2>7. Cardinality(B) <= Cardinality(G) BY <2>2, <2>3, <2>4, <2>6
  <2> QED BY <2>7 DEF B, G
<1> QED BY <1>1, <1>2, <1>3, <1>4

\* An open queue stays open over such a step, if it adds no request to those
\* past the guard and no row that was not about to be inserted.
LEMMA OpenKept ==
    ASSUME IntakeInv, LimiterKept, NEW tau \in Nat, OpenSince(tau),
           UNCHANGED <<checkedAt, isFull>> \/ (isFull' /\ checkedAt' # Never),
           \A r \in PastGuard' : since'[r] < tau + CheckInterval,
           pending' \in Nat,
           pending' + Cardinality(Creating') <= pending + Cardinality(Creating)
    PROVE  OpenSince(tau)'
<1> DEFINE G == {h \in global : h.at >= tau - RequestLife}
<1>1. Cardinality(G) \in Nat
  <2>1. G \subseteq global OBVIOUS
  <2> QED BY <2>1, PartCount DEF IntakeInv, IntakeTypes
<1>2. Cardinality(Creating') \in Nat /\ Cardinality(Creating) \in Nat BY KeptInv
<1>3. pending + Cardinality(Creating) < MaxPending + Cardinality(G) BY DEF OpenSince
<1>4. pending \in Nat /\ now \in Nat BY DEF IntakeInv, IntakeTypes
<1> HIDE DEF G
<1>5. pending' + Cardinality(Creating') < MaxPending + Cardinality(G)
  BY <1>1, <1>2, <1>3, <1>4, Bounds
<1>6. tau <= now' /\ checkedAt' # Never /\ (~isFull' => checkedAt' = tau)
  BY <1>4 DEF OpenSince, LimiterKept
<1> QED BY <1>5, <1>6 DEF OpenSince, G, LimiterKept

\* So does the answer about the queue, when the step lets no request past the
\* guard.
LEMMA QueueKept ==
    ASSUME IntakeInv, LimiterKept, UNCHANGED checkFailed,
           UNCHANGED <<checkedAt, isFull>> \/ (isFull' /\ checkedAt' # Never),
           PastGuard' \subseteq PastGuard,
           \A r \in PastGuard' : since'[r] = since[r],
           pending' \in Nat,
           pending' + Cardinality(Creating') <= pending + Cardinality(Creating)
    PROVE  QueueInv'
<1>1. CASE checkFailed BY <1>1 DEF QueueInv
<1>2. CASE NeverOpen
  <2>1. PastGuard' = {} /\ pending <= MaxPending BY <1>2 DEF NeverOpen
  <2>2. checkedAt' = Never \/ isFull' BY <1>2 DEF NeverOpen
  <2>3. Creating = {} BY <1>2 DEF NeverOpen, Creating, PastGuard
  <2>4. Cardinality(Creating) = 0 BY <2>3, FS_EmptySet
  <2>5. Cardinality(Creating') \in Nat /\ pending \in Nat BY KeptInv DEF IntakeInv, IntakeTypes
  <2>6. pending' <= MaxPending BY <2>1, <2>4, <2>5, Bounds
  <2>7. NeverOpen' BY <2>1, <2>2, <2>6 DEF NeverOpen
  <2> QED BY <2>7 DEF QueueInv
<1>3. CASE \E tau \in Nat : OpenSince(tau)
  <2>1. PICK tau \in Nat : OpenSince(tau) BY <1>3
  <2>2. \A r \in PastGuard' : since'[r] < tau + CheckInterval BY <2>1 DEF OpenSince
  <2>3. OpenSince(tau)' BY <2>1, <2>2, OpenKept
  <2> QED BY <2>3 DEF QueueInv
<1> QED BY <1>1, <1>2, <1>3 DEF IntakeInv, QueueInv

-----------------------------------------------------------------------------
(* What the steps do to a request.                                         *)

\* The types of the request's variables.
ReqTypes ==
    /\ qpc \in [Requests -> {"idle", "guard", "clock", "allow", "create"}]
    /\ client \in [Requests -> Clients \cup {NoClient}]
    /\ stamp \in [Requests -> Nat] /\ since \in [Requests -> Nat]

\* An answered request leaves every set of requests and disturbs no other.
LEMMA Responded ==
    ASSUME IntakeInv, NEW r \in Requests, Respond(r), UNCHANGED now
    PROVE  /\ ReqTypes' /\ RequestInv'
           /\ Creating' = Creating \ {r} /\ PastGuard' = PastGuard \ {r}
           /\ \A q \in Requests \ {r} : stamp'[q] = stamp[q] /\ since'[q] = since[q]
<1> USE DEF IntakeInv, IntakeTypes, Respond
<1>1. ReqTypes' BY DEF ReqTypes
<1>2. \A q \in Requests \ {r} : /\ qpc'[q] = qpc[q] /\ client'[q] = client[q]
                               /\ stamp'[q] = stamp[q] /\ since'[q] = since[q]
  OBVIOUS
<1>3. qpc'[r] = "idle" OBVIOUS
<1>4. RequestInv' BY <1>2, <1>3 DEF RequestInv
<1>5. Creating' = Creating \ {r} /\ PastGuard' = PastGuard \ {r}
  BY <1>2, <1>3 DEF Creating, PastGuard
<1> QED BY <1>1, <1>2, <1>4, <1>5

\* The guard lets a request through to the limiter.
LEMMA LetThrough ==
    ASSUME IntakeInv, NEW r \in Requests, qpc[r] = "guard", Goto(r, "clock"), UNCHANGED now
    PROVE  /\ ReqTypes' /\ RequestInv' /\ stamp' = stamp /\ since' = since
           /\ Creating' = Creating /\ PastGuard' = PastGuard \cup {r}
<1> USE DEF IntakeInv, IntakeTypes, Goto
<1>1. ReqTypes' BY DEF ReqTypes
<1>2. \A q \in Requests \ {r} : qpc'[q] = qpc[q] OBVIOUS
<1>3. qpc'[r] = "clock" OBVIOUS
<1>4. RequestInv' BY <1>2, <1>3 DEF RequestInv
<1>5. Creating' = Creating /\ PastGuard' = PastGuard \cup {r}
  BY <1>2, <1>3 DEF Creating, PastGuard
<1> QED BY <1>1, <1>4, <1>5

\* The limiter lets a request through to the insert.
LEMMA Admitted ==
    ASSUME IntakeInv, NEW r \in Requests, qpc[r] = "allow", Goto(r, "create"), UNCHANGED now
    PROVE  /\ ReqTypes' /\ RequestInv' /\ stamp' = stamp /\ since' = since
           /\ Creating' = Creating \cup {r} /\ PastGuard' = PastGuard
<1> USE DEF IntakeInv, IntakeTypes, Goto
<1>1. ReqTypes' BY DEF ReqTypes
<1>2. \A q \in Requests \ {r} : qpc'[q] = qpc[q] OBVIOUS
<1>3. qpc'[r] = "create" OBVIOUS
<1>4. RequestInv' BY <1>2, <1>3 DEF RequestInv
<1>5. Creating' = Creating \cup {r} /\ PastGuard' = PastGuard
  BY <1>2, <1>3 DEF Creating, PastGuard
<1> QED BY <1>1, <1>4, <1>5

\* The invariant after a step, from its parts.
LEMMA FromParts ==
    ASSUME IntakeInv, LimiterKept, pending' \in Nat, ReqTypes', RequestInv', QueueInv'
    PROVE  IntakeInv'
<1>1. /\ LimitInv' /\ AdmitInv' /\ HoldInv' /\ IsFiniteSet(admitted') /\ IsFiniteSet(Creating')
  BY KeptInv
<1>2. IntakeTypes' BY <1>1 DEF IntakeInv, IntakeTypes, LimiterKept, ReqTypes
<1> QED BY <1>1, <1>2 DEF IntakeInv

-----------------------------------------------------------------------------
(* The steps other than Allow.                                             *)

\* Time passes.
LEMMA TickStep == ASSUME IntakeInv, Tick PROVE IntakeInv'
<1> USE DEF Tick, limitVars, queueVars, reqVars
<1>0. now \in Nat BY DEF IntakeInv, IntakeTypes
<1>1. Creating' = Creating /\ PastGuard' = PastGuard BY DEF Creating, PastGuard
<1>2. LimiterKept BY <1>0, <1>1 DEF LimiterKept
<1>3. ReqTypes' /\ pending' \in Nat BY DEF IntakeInv, IntakeTypes, ReqTypes
<1>4. RequestInv'
  <2> SUFFICES ASSUME NEW q \in Requests, qpc[q] # "idle"
               PROVE  /\ client[q] \in Clients
                      /\ since[q] <= now' /\ now' - since[q] <= RequestLife
                      /\ qpc[q] \in {"allow", "create"} => since[q] <= stamp[q] /\ stamp[q] <= now'
    BY DEF RequestInv
  <2>1. since[q] \in Nat /\ stamp[q] \in Nat BY DEF IntakeInv, IntakeTypes
  <2>2. now' = now + 1 /\ now + 1 - since[q] <= RequestLife OBVIOUS
  <2>3. /\ client[q] \in Clients /\ since[q] <= now
        /\ qpc[q] \in {"allow", "create"} => since[q] <= stamp[q] /\ stamp[q] <= now
    BY DEF IntakeInv, RequestInv
  <2> HIDE DEF Tick
  <2> QED BY <1>0, <2>1, <2>2, <2>3
<1>5. pending' + Cardinality(Creating') <= pending + Cardinality(Creating)
  <2>1. Cardinality(Creating) \in Nat /\ pending \in Nat
    BY <1>2, KeptInv DEF IntakeInv, IntakeTypes
  <2> QED BY <1>1, <2>1
<1>6. QueueInv' BY <1>1, <1>2, <1>3, <1>5, QueueKept
<1> QED BY <1>2, <1>3, <1>4, <1>6, FromParts

\* Nothing changes.
LEMMA IntakeStutter == ASSUME IntakeInv, UNCHANGED ivars PROVE IntakeInv'
  BY DEF ivars, limitVars, queueVars, reqVars, IntakeInv, IntakeTypes, LimitInv, RequestInv,
         AdmitInv, HoldInv, QueueInv, NeverOpen, OpenSince, Creating, PastGuard

\* A moderator takes a row out of the queue.
LEMMA ModerateStep == ASSUME IntakeInv, Moderate PROVE IntakeInv'
<1> USE DEF Moderate, limitVars, queueVars, reqVars
<1>0. now \in Nat /\ pending \in Nat BY DEF IntakeInv, IntakeTypes
<1>1. Creating' = Creating /\ PastGuard' = PastGuard BY DEF Creating, PastGuard
<1>2. LimiterKept BY <1>0, <1>1 DEF LimiterKept
<1>3. ReqTypes' BY DEF IntakeInv, IntakeTypes, ReqTypes
<1>4. RequestInv' BY DEF IntakeInv, RequestInv
<1>5. pending' \in Nat /\ pending' <= pending BY <1>0
<1>6. pending' + Cardinality(Creating') <= pending + Cardinality(Creating)
  <2>1. Cardinality(Creating) \in Nat BY <1>2, KeptInv
  <2> QED BY <1>0, <1>1, <1>5, <2>1
<1>7. QueueInv' BY <1>1, <1>2, <1>5, <1>6, QueueKept
<1> QED BY <1>2, <1>3, <1>4, <1>5, <1>7, FromParts

\* A request arrives.
LEMMA ArriveStep ==
    ASSUME IntakeInv, NEW r \in Requests, NEW c \in Clients, Arrive(r, c)
    PROVE  IntakeInv'
<1> USE DEF Arrive, limitVars, queueVars
<1>0. now \in Nat /\ pending \in Nat /\ pending' = pending BY DEF IntakeInv, IntakeTypes
<1>1. \A q \in Requests \ {r} : /\ qpc'[q] = qpc[q] /\ client'[q] = client[q]
                                /\ stamp'[q] = stamp[q] /\ since'[q] = since[q]
  BY DEF IntakeInv, IntakeTypes
<1>2. qpc[r] = "idle" /\ qpc'[r] = "guard" /\ client'[r] = c /\ since'[r] = now
  BY DEF IntakeInv, IntakeTypes
<1>3. Creating' = Creating /\ PastGuard' = PastGuard BY <1>1, <1>2 DEF Creating, PastGuard
<1>4. \A q \in PastGuard : q \in Requests \ {r} BY <1>2 DEF PastGuard
<1>5. \A q \in Creating : q \in Requests \ {r} BY <1>2 DEF Creating
<1>6. LimiterKept BY <1>0, <1>1, <1>3, <1>5 DEF LimiterKept
<1>7. ReqTypes' BY <1>0 DEF IntakeInv, IntakeTypes, ReqTypes
<1>8. RequestInv'
  <2>1. now - now <= RequestLife /\ now <= now BY <1>0, Bounds
  <2> QED BY <1>1, <1>2, <2>1 DEF IntakeInv, RequestInv
<1>9. pending' + Cardinality(Creating') <= pending + Cardinality(Creating)
  <2>1. Cardinality(Creating) \in Nat BY <1>6, KeptInv
  <2> QED BY <1>0, <1>3, <2>1
<1>10. QueueInv' BY <1>0, <1>1, <1>3, <1>4, <1>6, <1>9, QueueKept
<1> QED BY <1>0, <1>6, <1>7, <1>8, <1>10, FromParts

\* A request reads the clock.
LEMMA ClockStep ==
    ASSUME IntakeInv, NEW r \in Requests, AllowClock(r)
    PROVE  IntakeInv'
<1> USE DEF AllowClock, limitVars, queueVars
<1>0. now \in Nat /\ pending \in Nat /\ pending' = pending BY DEF IntakeInv, IntakeTypes
<1>1. \A q \in Requests \ {r} : qpc'[q] = qpc[q] /\ stamp'[q] = stamp[q]
  BY DEF IntakeInv, IntakeTypes
<1>2. qpc[r] = "clock" /\ qpc'[r] = "allow" /\ stamp'[r] = now
  BY DEF IntakeInv, IntakeTypes
<1>3. Creating' = Creating /\ PastGuard' = PastGuard BY <1>1, <1>2 DEF Creating, PastGuard
<1>4. \A q \in Creating : q \in Requests \ {r} BY <1>2 DEF Creating
<1>5. LimiterKept BY <1>0, <1>1, <1>3, <1>4 DEF LimiterKept
<1>6. ReqTypes' BY <1>0 DEF IntakeInv, IntakeTypes, ReqTypes
<1>7. RequestInv' BY <1>0, <1>1, <1>2 DEF IntakeInv, RequestInv
<1>8. pending' + Cardinality(Creating') <= pending + Cardinality(Creating)
  <2>1. Cardinality(Creating) \in Nat BY <1>5, KeptInv
  <2> QED BY <1>0, <1>3, <2>1
<1>9. QueueInv' BY <1>0, <1>3, <1>5, <1>8, QueueKept
<1> QED BY <1>0, <1>5, <1>6, <1>7, <1>9, FromParts

\* A row is inserted, or not.
LEMMA CreateStep ==
    ASSUME IntakeInv, NEW r \in Requests, Create(r)
    PROVE  IntakeInv'
<1> USE DEF Create, limitVars, queueVars
<1>0. now \in Nat /\ pending \in Nat BY DEF IntakeInv, IntakeTypes
<1>1. /\ ReqTypes' /\ RequestInv'
      /\ Creating' = Creating \ {r} /\ PastGuard' = PastGuard \ {r}
      /\ \A q \in Requests \ {r} : stamp'[q] = stamp[q] /\ since'[q] = since[q]
  BY Responded
<1>2. \A q \in Creating \cup PastGuard : q \in Requests BY DEF Creating, PastGuard
<1>3. LimiterKept BY <1>0, <1>1, <1>2 DEF LimiterKept
<1>4. pending' \in Nat /\ pending' <= pending + 1 BY <1>0
<1>5. pending' + Cardinality(Creating') <= pending + Cardinality(Creating)
  <2>1. IsFiniteSet(Creating) /\ r \in Creating BY DEF IntakeInv, IntakeTypes, Creating
  <2>2. Cardinality(Creating') = Cardinality(Creating) - 1 /\ Cardinality(Creating) \in Nat
    BY <1>1, <2>1, FS_RemoveElement, FS_CardinalityType
  <2> QED BY <1>0, <1>4, <2>2
<1>6. QueueInv' BY <1>1, <1>2, <1>3, <1>4, <1>5, QueueKept
<1> QED BY <1>1, <1>3, <1>4, <1>6, FromParts

-----------------------------------------------------------------------------
(* The guard.                                                              *)

\* A guard step that answers 429 with the queue marked full.
LEMMA GuardedOut ==
    ASSUME IntakeInv, NEW r \in Requests, qpc[r] = "guard", Respond(r),
           UNCHANGED <<now, hits, global, pending, admitted>>,
           checkFailed' \/ (UNCHANGED checkFailed
                            /\ (UNCHANGED <<checkedAt, isFull>> \/ (isFull' /\ checkedAt' # Never)))
    PROVE  IntakeInv'
<1>0. now \in Nat /\ pending \in Nat /\ pending' \in Nat BY DEF IntakeInv, IntakeTypes
<1>1. /\ ReqTypes' /\ RequestInv'
      /\ Creating' = Creating \ {r} /\ PastGuard' = PastGuard \ {r}
      /\ \A q \in Requests \ {r} : stamp'[q] = stamp[q] /\ since'[q] = since[q]
  BY Responded
<1>2. \A q \in Creating \cup PastGuard : q \in Requests \ {r} BY DEF Creating, PastGuard
<1>3. Creating' = Creating /\ PastGuard' = PastGuard BY <1>1, <1>2
<1>4. LimiterKept BY <1>0, <1>1, <1>2, <1>3 DEF LimiterKept
<1>5. pending' + Cardinality(Creating') <= pending + Cardinality(Creating)
  <2>1. Cardinality(Creating) \in Nat BY <1>4, KeptInv
  <2> QED BY <1>0, <1>3, <2>1
<1>6. QueueInv'
  <2>1. CASE checkFailed' BY <2>1 DEF QueueInv
  <2>2. CASE ~checkFailed' BY <1>0, <1>1, <1>2, <1>3, <1>4, <1>5, <2>2, QueueKept
  <2> QED BY <2>1, <2>2
<1> QED BY <1>0, <1>1, <1>4, <1>6, FromParts

\* A guard step that lets the request through, with an answer to vouch for it.
LEMMA GuardedIn ==
    ASSUME IntakeInv, NEW r \in Requests, qpc[r] = "guard", Goto(r, "clock"),
           UNCHANGED <<now, hits, global, pending, admitted>>,
           checkFailed' \/ \E tau \in Nat : OpenSince(tau)'
    PROVE  IntakeInv'
<1>0. now \in Nat /\ pending \in Nat /\ pending' \in Nat BY DEF IntakeInv, IntakeTypes
<1>1. /\ ReqTypes' /\ RequestInv' /\ stamp' = stamp /\ Creating' = Creating
  BY LetThrough
<1>2. LimiterKept BY <1>0, <1>1 DEF LimiterKept
<1>3. QueueInv' BY DEF QueueInv
<1> QED BY <1>0, <1>1, <1>2, <1>3, FromParts

\* The cached answer is used.
LEMMA CachedStep ==
    ASSUME IntakeInv, NEW r \in Requests, GuardCached(r)
    PROVE  IntakeInv'
<1> USE DEF GuardCached, limitVars, queueVars
<1>1. CASE isFull
  <2>1. Respond(r) BY <1>1 DEF Pass
  <2> QED BY <2>1, GuardedOut
<1>2. CASE ~isFull
  <2>1. Goto(r, "clock") BY <1>2 DEF Pass
  <2>2. CASE checkFailed BY <2>1, <2>2, GuardedIn
  <2>3. CASE ~checkFailed
    <3>1. ~NeverOpen BY <1>2 DEF NeverOpen, Fresh
    <3>2. PICK tau \in Nat : OpenSince(tau) BY <2>3, <3>1 DEF IntakeInv, QueueInv
    <3>3. checkedAt = tau /\ tau <= now BY <1>2, <3>2 DEF OpenSince
    <3>4. now \in Nat /\ since[r] \in Nat /\ since[r] <= now
      BY DEF IntakeInv, IntakeTypes, RequestInv
    <3>5. since[r] < tau + CheckInterval BY <3>3, <3>4, Bounds DEF Fresh
    <3>6. since' = since /\ Creating' = Creating /\ PastGuard' = PastGuard \cup {r}
      BY <2>1, LetThrough
    <3>7. \A q \in PastGuard' : since'[q] < tau + CheckInterval
      BY <3>2, <3>5, <3>6 DEF OpenSince
    <3>8. OpenSince(tau)' BY <3>2, <3>6, <3>7 DEF OpenSince
    <3> QED BY <2>1, <3>8, GuardedIn
  <2> QED BY <2>2, <2>3
<1> QED BY <1>1, <1>2

\* The queue is counted.
LEMMA QueryStep ==
    ASSUME IntakeInv, NEW r \in Requests, GuardQuery(r)
    PROVE  IntakeInv'
<1> USE DEF GuardQuery, limitVars
<1>0. now \in Nat /\ pending \in Nat BY DEF IntakeInv, IntakeTypes
<1>1. checkedAt' # Never BY <1>0 DEF Never
<1>2. CASE pending >= MaxPending
  <2>1. isFull' BY <1>2
  <2>2. Respond(r) BY <2>1 DEF Pass
  <2> QED BY <1>1, <2>1, <2>2, GuardedOut
<1>3. CASE ~(pending >= MaxPending)
  <2>1. ~isFull' BY <1>3
  <2>2. Goto(r, "clock") BY <2>1 DEF Pass
  <2>3. since' = since /\ Creating' = Creating /\ PastGuard' = PastGuard \cup {r}
    BY <2>2, LetThrough
  <2> DEFINE x == now - RequestLife
             G == {h \in global : h.at >= x}
  <2>4. \A q \in Requests : qpc[q] # "idle" =>
          /\ since[q] \in Nat /\ stamp[q] \in Nat /\ since[q] <= now /\ now - since[q] <= RequestLife
          /\ qpc[q] = "create" => since[q] <= stamp[q]
    BY DEF IntakeInv, IntakeTypes, RequestInv
  <2>5. {q \in Creating : stamp[q] >= x} = Creating
    <3> SUFFICES ASSUME NEW q \in Requests, qpc[q] = "create" PROVE stamp[q] >= x
      BY DEF Creating
    <3>1. /\ since[q] \in Nat /\ stamp[q] \in Nat /\ now - since[q] <= RequestLife
          /\ since[q] <= stamp[q]
      BY <2>4
    <3> QED BY <1>0, <3>1, Bounds
  <2>6. x \in Int /\ x > now - Window BY <1>0, Bounds
  <2> HIDE DEF x
  <2>7. Cardinality(Creating) <= Cardinality(G) BY <2>5, <2>6 DEF IntakeInv, HoldInv
  <2>8. Cardinality(Creating) \in Nat /\ Cardinality(G) \in Nat
    <3>1. IsFiniteSet(global) /\ IsFiniteSet(Creating) /\ G \subseteq global
      BY DEF IntakeInv, IntakeTypes
    <3> QED BY <3>1, PartCount
  <2> HIDE DEF G
  <2>9. pending + Cardinality(Creating) < MaxPending + Cardinality(G)
    BY <1>0, <1>3, <2>7, <2>8, Bounds
  <2>10. \A q \in PastGuard' : since'[q] < now + CheckInterval
    <3> SUFFICES ASSUME NEW q \in PastGuard' PROVE since[q] < now + CheckInterval
      BY <2>3
    <3>1. q \in Requests /\ qpc[q] # "idle" BY <2>3 DEF PastGuard
    <3>2. since[q] \in Nat /\ since[q] <= now BY <2>4, <3>1
    <3> QED BY <1>0, <3>2, Bounds
  <2>11. \E tau \in Nat : OpenSince(tau)'
    <3>1. PICK tau \in Nat : tau = now BY <1>0
    <3>2. OpenSince(tau)'
      <4>1. tau <= now' BY <1>0, <3>1
      <4> QED BY <1>1, <2>3, <2>9, <2>10, <3>1, <4>1 DEF OpenSince, G, x
    <3> QED BY <3>2
  <2> QED BY <2>2, <2>11, GuardedIn
<1> QED BY <1>2, <1>3

\* The count fails.
LEMMA QueryFailsStep ==
    ASSUME IntakeInv, NEW r \in Requests, GuardQueryFails(r)
    PROVE  IntakeInv'
<1> USE DEF GuardQueryFails, limitVars
<1>1. CASE isFull
  <2>1. Respond(r) BY <1>1 DEF Pass
  <2> QED BY <2>1, GuardedOut
<1>2. CASE ~isFull
  <2>1. Goto(r, "clock") BY <1>2 DEF Pass
  <2> QED BY <2>1, GuardedIn
<1> QED BY <1>1, <1>2

-----------------------------------------------------------------------------
(* The limiter.                                                            *)

\* A request at the limiter: its client, its clock reading and what they say
\* about the windows.
LEMMA AtLimiter ==
    ASSUME IntakeInv, NEW r \in Requests, qpc[r] = "allow"
    PROVE  /\ client[r] \in Clients /\ r \in PastGuard /\ r \notin Creating
           /\ now \in Nat /\ stamp[r] \in Nat /\ since[r] \in Nat
           /\ stamp[r] <= now /\ now <= stamp[r] + RequestLife
           /\ since[r] <= stamp[r] /\ now <= since[r] + RequestLife
<1>1. /\ client[r] \in Clients /\ since[r] <= now /\ now - since[r] <= RequestLife
      /\ since[r] <= stamp[r] /\ stamp[r] <= now
  BY DEF IntakeInv, RequestInv
<1>2. now \in Nat /\ stamp[r] \in Nat /\ since[r] \in Nat BY DEF IntakeInv, IntakeTypes
<1>3. r \in PastGuard /\ r \notin Creating BY DEF PastGuard, Creating
<1> QED BY <1>1, <1>2, <1>3, Bounds

\* A sweep, and the pruning of the client's own slice, drop nothing younger
\* than a window and add nothing.
LEMMA Pruned ==
    ASSUME IntakeInv, NEW c \in Clients, NEW t \in Nat, NEW d \in Clients
    PROVE  LET kept == [Swept(t) EXCEPT ![c] = keepRecent(Swept(t)[c], t - Window)]
           IN  /\ kept[d] \subseteq hits[d]
               /\ \A h \in hits[d] : h.at > t - Window => h \in kept[d]
<1>1. hits \in [Clients -> SUBSET AllHits] BY DEF IntakeInv, IntakeTypes
<1> DEFINE x == t - Window
<1>2. Swept(t) = [e \in Clients |-> keepRecent(hits[e], x)] \/ Swept(t) = hits BY DEF Swept
<1> HIDE DEF x
<1>3. /\ DOMAIN Swept(t) = Clients
      /\ \A e \in Clients : /\ Swept(t)[e] \subseteq hits[e]
                            /\ \A h \in hits[e] : h.at > x => h \in Swept(t)[e]
  <2>1. CASE Swept(t) = hits BY <1>1, <2>1
  <2>2. CASE Swept(t) = [e \in Clients |-> keepRecent(hits[e], x)]
    BY <2>2 DEF keepRecent
  <2> QED BY <1>2, <2>1, <2>2
<1>4. CASE d = c BY <1>3, <1>4 DEF keepRecent, x
<1>5. CASE d # c BY <1>3, <1>5 DEF x
<1> QED BY <1>4, <1>5

\* The limiter's sets after a step of Allow: each is a pruned set, with at
\* most a new hit.
LEMMA AllowEffect ==
    ASSUME IntakeInv, NEW r \in Requests, Allow(r)
    PROVE  \E H \in [Clients -> SUBSET AllHits], G \in SUBSET AllHits :
             /\ G \subseteq global
             /\ \A h \in global : h.at > stamp[r] - Window => h \in G
             /\ \A d \in Clients : /\ H[d] \subseteq hits[d]
                                   /\ \A h \in hits[d] : h.at > stamp[r] - Window => h \in H[d]
             /\ \/ hits' = H /\ global' = G /\ admitted' = admitted /\ Respond(r)
                \/ LET new == NewHit(client[r], stamp[r])
                   IN  /\ Cardinality(H[client[r]]) < MaxPerWin /\ Cardinality(G) < GlobalMax
                       /\ hits' = [H EXCEPT ![client[r]] = @ \cup {new}]
                       /\ global' = G \cup {new} /\ admitted' = admitted \cup {new}
                       /\ Goto(r, "create")
<1> DEFINE c == client[r]
           t == stamp[r]
           x == t - Window
           new == NewHit(c, t)
           H == [Swept(t) EXCEPT ![c] = keepRecent(Swept(t)[c], x)]
           K == keepRecent(global, x)
<1>0. qpc[r] = "allow" /\ c \in Clients /\ t \in Nat BY AtLimiter DEF Allow
<1>1. hits \in [Clients -> SUBSET AllHits] /\ global \subseteq AllHits
  BY DEF IntakeInv, IntakeTypes
<1>2. \A d \in Clients : /\ H[d] \subseteq hits[d]
                         /\ \A h \in hits[d] : h.at > x => h \in H[d]
  BY <1>0, Pruned
<1>3. DOMAIN Swept(t) = Clients BY <1>1 DEF Swept
<1>4. H \in [Clients -> SUBSET AllHits]
  <2>1. H = [d \in Clients |-> H[d]] BY <1>3
  <2>2. \A d \in Clients : H[d] \in SUBSET AllHits BY <1>1, <1>2
  <2> HIDE DEF H
  <2> QED BY <2>1, <2>2
<1>5. K \subseteq global /\ \A h \in global : h.at > x => h \in K BY DEF keepRecent
<1>6. H[c] = keepRecent(Swept(t)[c], x) BY <1>0, <1>3
<1>7. \/ hits' = H /\ global' = global /\ admitted' = admitted /\ Respond(r)
      \/ hits' = H /\ global' = K /\ admitted' = admitted /\ Respond(r)
      \/ /\ Cardinality(keepRecent(Swept(t)[c], x)) < MaxPerWin /\ Cardinality(K) < GlobalMax
         /\ hits' = [Swept(t) EXCEPT ![c] = keepRecent(Swept(t)[c], x) \cup {new}]
         /\ global' = K \cup {new} /\ admitted' = admitted \cup {new}
         /\ Goto(r, "create")
  BY Zenon DEF Allow
<1>8. [Swept(t) EXCEPT ![c] = keepRecent(Swept(t)[c], x) \cup {new}]
        = [H EXCEPT ![c] = @ \cup {new}]
  BY <1>0, <1>3
<1> HIDE DEF H, K, new, x
<1>9. CASE hits' = H /\ global' = global /\ admitted' = admitted /\ Respond(r)
  BY <1>1, <1>2, <1>4, <1>9 DEF x
<1>10. CASE hits' = H /\ global' = K /\ admitted' = admitted /\ Respond(r)
  BY <1>1, <1>2, <1>4, <1>5, <1>10 DEF x
<1>11. CASE /\ Cardinality(keepRecent(Swept(t)[c], x)) < MaxPerWin /\ Cardinality(K) < GlobalMax
            /\ hits' = [Swept(t) EXCEPT ![c] = keepRecent(Swept(t)[c], x) \cup {new}]
            /\ global' = K \cup {new} /\ admitted' = admitted \cup {new}
            /\ Goto(r, "create")
  <2>1. Cardinality(H[c]) < MaxPerWin /\ hits' = [H EXCEPT ![c] = @ \cup {new}]
    BY <1>6, <1>8, <1>11
  <2>2. K \in SUBSET AllHits BY <1>1, <1>5
  <2> QED BY <1>2, <1>4, <1>5, <1>11, <2>1, <2>2 DEF x, new
<1> QED BY <1>7, <1>9, <1>10, <1>11

\* A prune before the window starts does not show in what is counted after it.
LEMMA CountKept ==
    ASSUME NEW S \in SUBSET AllHits, NEW T \in SUBSET S, NEW lo \in Int, NEW from \in Int, from > lo,
           \A h \in S : h.at > lo => h \in T
    PROVE  {h \in T : h.at >= from} = {h \in S : h.at >= from}
<1>1. \A h \in S : h.at >= from => h \in T
  <2> SUFFICES ASSUME NEW h \in S, h.at >= from PROVE h \in T
    OBVIOUS
  <2>1. h.at \in Nat BY DEF AllHits
  <2>2. h.at > lo BY <2>1
  <2> QED BY <2>2
<1> QED BY <1>1

\* The hits an open queue counts are younger than the limiter's window, and
\* the request at the limiter will be one of them.
LEMMA OpenWindow ==
    ASSUME IntakeInv, NEW r \in Requests, qpc[r] = "allow", NEW tau \in Nat, OpenSince(tau)
    PROVE  /\ tau - RequestLife \in Int /\ stamp[r] - Window \in Int
           /\ tau - RequestLife > stamp[r] - Window
           /\ stamp[r] >= tau - RequestLife
<1>1. /\ now \in Nat /\ stamp[r] \in Nat /\ since[r] \in Nat
      /\ stamp[r] <= now /\ now <= stamp[r] + RequestLife
      /\ since[r] <= stamp[r] /\ now <= since[r] + RequestLife
      /\ r \in PastGuard
  BY AtLimiter
<1>2. tau <= now /\ since[r] < tau + CheckInterval BY <1>1 DEF OpenSince
<1> QED BY <1>1, <1>2, Bounds

\* The limiter refuses a request.
LEMMA RefuseStep ==
    ASSUME IntakeInv, NEW r \in Requests, qpc[r] = "allow",
           NEW H \in [Clients -> SUBSET AllHits], NEW G \in SUBSET AllHits, G \subseteq global,
           \A h \in global : h.at > stamp[r] - Window => h \in G,
           \A d \in Clients : /\ H[d] \subseteq hits[d]
                              /\ \A h \in hits[d] : h.at > stamp[r] - Window => h \in H[d],
           hits' = H, global' = G, admitted' = admitted, Respond(r),
           UNCHANGED <<now, queueVars, pending, checkFailed>>
    PROVE  IntakeInv'
<1> USE DEF queueVars
<1> DEFINE t == stamp[r]
           x == t - Window
<1>0. /\ now \in Nat /\ t \in Nat /\ t <= now /\ x \in Int /\ r \in PastGuard /\ r \notin Creating
  BY AtLimiter, Bounds
<1>1. IntakeTypes BY DEF IntakeInv
<1>2. /\ ReqTypes' /\ RequestInv'
      /\ Creating' = Creating \ {r} /\ PastGuard' = PastGuard \ {r}
      /\ \A q \in Requests \ {r} : stamp'[q] = stamp[q] /\ since'[q] = since[q]
  BY Responded
<1>3. Creating' = Creating /\ PastGuard' \subseteq PastGuard
      /\ \A q \in Creating \cup PastGuard' : stamp'[q] = stamp[q] /\ since'[q] = since[q]
  BY <1>0, <1>2 DEF Creating, PastGuard
<1>4. IntakeTypes'
  <2>1. IsFiniteSet(global') BY <1>1, PartCount DEF IntakeTypes
  <2>2. \A d \in Clients : IsFiniteSet(hits'[d]) BY <1>1, PartCount DEF IntakeTypes
  <2> QED BY <1>1, <1>2, <1>3, <2>1, <2>2 DEF IntakeTypes, ReqTypes
<1>5. LimitInv'
  <2>1. Cardinality(G) <= GlobalMax
    <3>1. /\ Cardinality(G) \in Nat /\ Cardinality(global) \in Nat
          /\ Cardinality(G) <= Cardinality(global)
      BY <1>1, PartCount DEF IntakeTypes
    <3>2. Cardinality(global) <= GlobalMax BY DEF IntakeInv, LimitInv
    <3> QED BY <3>1, <3>2, Bounds
  <2>2. ASSUME NEW d \in Clients PROVE Cardinality(H[d]) <= MaxPerWin
    <3>1. /\ Cardinality(H[d]) \in Nat /\ Cardinality(hits[d]) \in Nat
          /\ Cardinality(H[d]) <= Cardinality(hits[d])
      BY <1>1, PartCount DEF IntakeTypes
    <3>2. Cardinality(hits[d]) <= MaxPerWin BY DEF IntakeInv, LimitInv
    <3> QED BY <3>1, <3>2, Bounds
  <2> QED BY <2>1, <2>2 DEF LimitInv
<1>6. AdmitInv'
  <2> SUFFICES ASSUME NEW h \in admitted
               PROVE  /\ h.at <= h.when /\ h.when <= h.at + RequestLife
                      /\ h.at > now - Window => h \in G /\ h \in H[h.client]
    BY DEF AdmitInv
  <2>1. /\ h.at <= h.when /\ h.when <= h.at + RequestLife
        /\ h.at > now - Window => h \in global /\ h \in hits[h.client]
    BY DEF IntakeInv, AdmitInv
  <2>2. h.at \in Nat /\ h.client \in Clients BY <1>1 DEF IntakeTypes, AllHits
  <2>3. h.at > now - Window => h.at > t - Window BY <1>0, <2>2, Bounds, Later
  <2> QED BY <2>1, <2>2, <2>3
<1>7. HoldInv'
  <2> SUFFICES ASSUME NEW y \in Int, y > now - Window
               PROVE  Cardinality({q \in Creating' : stamp'[q] >= y})
                        <= Cardinality({h \in G : h.at >= y})
    BY DEF HoldInv
  <2>1. y > x BY <1>0, Bounds, Later
  <2>2. global \in SUBSET AllHits BY <1>1 DEF IntakeTypes
  <2>3. {h \in G : h.at >= y} = {h \in global : h.at >= y}
    <3>1. (\A h \in global : h.at > x => h \in G) /\ x \in Int /\ G \in SUBSET global BY <1>0
    <3> HIDE DEF x
    <3>2. y \in Int OBVIOUS
    <3> QED BY <2>1, <2>2, <3>1, <3>2, CountKept
  <2>4. {q \in Creating' : stamp'[q] >= y} = {q \in Creating : stamp[q] >= y} BY <1>3
  <2> QED BY <2>3, <2>4 DEF IntakeInv, HoldInv
<1>8. QueueInv'
  <2>1. CASE checkFailed BY <2>1 DEF QueueInv
  <2>2. CASE ~checkFailed
    <3>1. ~NeverOpen BY <1>0 DEF NeverOpen
    <3>2. PICK tau \in Nat : OpenSince(tau) BY <2>2, <3>1 DEF IntakeInv, QueueInv
    <3>3. /\ tau - RequestLife \in Int /\ tau - RequestLife > x
      BY <3>2, OpenWindow
    <3>4. global \in SUBSET AllHits BY <1>1 DEF IntakeTypes
    <3>5. {h \in G : h.at >= tau - RequestLife} = {h \in global : h.at >= tau - RequestLife}
      BY <1>0, <3>3, <3>4, CountKept
    <3>6. OpenSince(tau)' BY <1>3, <3>2, <3>5 DEF OpenSince
    <3> QED BY <3>6 DEF QueueInv
  <2> QED BY <2>1, <2>2
<1> QED BY <1>2, <1>4, <1>5, <1>6, <1>7, <1>8 DEF IntakeInv

\* The limiter lets a request through.
LEMMA AdmitStep ==
    ASSUME IntakeInv, NEW r \in Requests, qpc[r] = "allow",
           NEW H \in [Clients -> SUBSET AllHits], NEW G \in SUBSET AllHits, G \subseteq global,
           \A h \in global : h.at > stamp[r] - Window => h \in G,
           \A d \in Clients : /\ H[d] \subseteq hits[d]
                              /\ \A h \in hits[d] : h.at > stamp[r] - Window => h \in H[d],
           Cardinality(H[client[r]]) < MaxPerWin, Cardinality(G) < GlobalMax,
           hits' = [H EXCEPT ![client[r]] = @ \cup {NewHit(client[r], stamp[r])}],
           global' = G \cup {NewHit(client[r], stamp[r])},
           admitted' = admitted \cup {NewHit(client[r], stamp[r])},
           Goto(r, "create"), UNCHANGED <<now, queueVars, pending, checkFailed>>
    PROVE  IntakeInv'
<1> USE DEF queueVars
<1> DEFINE t == stamp[r]
           c == client[r]
           x == t - Window
           new == NewHit(c, t)
<1>0. /\ now \in Nat /\ t \in Nat /\ t <= now /\ now <= t + RequestLife /\ x \in Int
      /\ c \in Clients /\ r \in PastGuard /\ r \notin Creating
  BY AtLimiter, Bounds
<1>1. IntakeTypes BY DEF IntakeInv
<1>2. /\ ReqTypes' /\ RequestInv' /\ stamp' = stamp /\ since' = since
      /\ Creating' = Creating \cup {r} /\ PastGuard' = PastGuard
  BY Admitted
<1>3. /\ new \in AllHits /\ new \notin admitted /\ new \notin global /\ new \notin hits[c]
      /\ new.at = t /\ new.client = c /\ new.when = now
  BY <1>0, <1>1, FreshHit
<1>4. /\ hits' = [H EXCEPT ![c] = @ \cup {new}] /\ global' = G \cup {new}
      /\ admitted' = admitted \cup {new}
      /\ Cardinality(H[c]) < MaxPerWin /\ Cardinality(G) < GlobalMax
      /\ \A h \in global : h.at > x => h \in G
      /\ \A d \in Clients : \A h \in hits[d] : h.at > x => h \in H[d]
  OBVIOUS
<1>5. /\ IsFiniteSet(G) /\ IsFiniteSet(global) /\ IsFiniteSet(admitted) /\ IsFiniteSet(Creating)
      /\ \A d \in Clients : IsFiniteSet(hits[d]) /\ IsFiniteSet(H[d])
  <2>1. IsFiniteSet(G) BY <1>1, PartCount DEF IntakeTypes
  <2>2. \A d \in Clients : IsFiniteSet(H[d]) BY <1>1, PartCount DEF IntakeTypes
  <2> QED BY <1>1, <2>1, <2>2 DEF IntakeTypes
<1> HIDE DEF new
<1>6. hits'[c] = H[c] \cup {new} /\ \A d \in Clients \ {c} : hits'[d] = H[d] BY <1>0, <1>4
<1>7. new \notin G /\ new \notin H[c] BY <1>0, <1>3
<1>8. IntakeTypes'
  <2>1. IsFiniteSet(global') /\ IsFiniteSet(admitted') /\ IsFiniteSet(Creating')
    <3>1. IsFiniteSet(G \cup {new}) BY <1>5, <1>7, AddCount
    <3>2. IsFiniteSet(admitted \cup {new}) BY <1>3, <1>5, AddCount
    <3>3. IsFiniteSet(Creating \cup {r}) BY <1>0, <1>5, AddCount
    <3> QED BY <1>2, <1>4, <3>1, <3>2, <3>3
  <2>2. \A d \in Clients : IsFiniteSet(hits'[d])
    <3>1. IsFiniteSet(H[c] \cup {new}) BY <1>0, <1>5, <1>7, AddCount
    <3> QED BY <1>5, <1>6, <3>1
  <2>3. hits' \in [Clients -> SUBSET AllHits] BY <1>0, <1>3, <1>4
  <2>4. global' \subseteq AllHits /\ admitted' \subseteq AllHits BY <1>1, <1>3, <1>4 DEF IntakeTypes
  <2>5. now' \in Nat /\ pending' \in Nat BY <1>1 DEF IntakeTypes
  <2> QED BY <1>2, <2>1, <2>2, <2>3, <2>4, <2>5 DEF IntakeTypes, ReqTypes
<1>9. LimitInv'
  <2>1. Cardinality(global') <= GlobalMax
    <3>1. Cardinality(G \cup {new}) = Cardinality(G) + 1 /\ Cardinality(G) \in Nat
      BY <1>5, <1>7, AddCount
    <3>2. Cardinality(global') = Cardinality(G) + 1 /\ Cardinality(G) < GlobalMax BY <1>4, <3>1
    <3> QED BY <3>1, <3>2, Bounds
  <2>2. Cardinality(hits'[c]) <= MaxPerWin
    <3>1. Cardinality(H[c] \cup {new}) = Cardinality(H[c]) + 1 /\ Cardinality(H[c]) \in Nat
      BY <1>0, <1>5, <1>7, AddCount
    <3>2. Cardinality(hits'[c]) = Cardinality(H[c]) + 1 /\ Cardinality(H[c]) < MaxPerWin
      BY <1>4, <1>6, <3>1
    <3> QED BY <3>1, <3>2, Bounds
  <2>3. ASSUME NEW d \in Clients \ {c} PROVE Cardinality(hits'[d]) <= MaxPerWin
    <3>1. /\ Cardinality(H[d]) \in Nat /\ Cardinality(hits[d]) \in Nat
          /\ Cardinality(H[d]) <= Cardinality(hits[d])
      BY <1>5, PartCount
    <3>2. Cardinality(hits[d]) <= MaxPerWin BY DEF IntakeInv, LimitInv
    <3> QED BY <1>6, <3>1, <3>2, Bounds
  <2> QED BY <2>1, <2>2, <2>3 DEF LimitInv
<1>10. AdmitInv'
  <2> SUFFICES ASSUME NEW h \in admitted'
               PROVE  /\ h.at <= h.when /\ h.when <= h.at + RequestLife
                      /\ h.at > now - Window => h \in global' /\ h \in hits'[h.client]
    BY DEF AdmitInv
  <2>1. CASE h = new BY <1>0, <1>3, <1>4, <1>6, <2>1
  <2>2. CASE h \in admitted
    <3>1. /\ h.at <= h.when /\ h.when <= h.at + RequestLife
          /\ h.at > now - Window => h \in global /\ h \in hits[h.client]
      BY <2>2 DEF IntakeInv, AdmitInv
    <3>2. h.at \in Nat /\ h.client \in Clients BY <1>1, <2>2 DEF IntakeTypes, AllHits
    <3>3. h.at > now - Window => h.at > t - Window BY <1>0, <3>2, Bounds, Later
    <3>4. h.at > now - Window => h \in G /\ h \in H[h.client] BY <1>4, <3>1, <3>2, <3>3
    <3> QED BY <1>4, <1>6, <3>1, <3>2, <3>4
  <2> QED BY <1>4, <2>1, <2>2
<1>11. ASSUME NEW y \in Int, y > x
       PROVE  /\ Cardinality({h \in global : h.at >= y}) \in Nat
              /\ Cardinality({h \in global' : h.at >= y})
                    = Cardinality({h \in global : h.at >= y}) + (IF t >= y THEN 1 ELSE 0)
  <2>1. global \in SUBSET AllHits BY <1>1 DEF IntakeTypes
  <2>2. {h \in G : h.at >= y} = {h \in global : h.at >= y}
    <3>1. (\A h \in global : h.at > x => h \in G) /\ x \in Int /\ G \in SUBSET global
      BY <1>0, <1>4
    <3> HIDE DEF x
    <3>2. y \in Int /\ y > x BY <1>11
    <3> QED BY <2>1, <3>1, <3>2, CountKept
  <2> DEFINE A == {h \in global : h.at >= y}
  <2>3. IsFiniteSet(A) /\ new \notin A /\ Cardinality(A) \in Nat
    <3>1. A \subseteq global OBVIOUS
    <3> QED BY <1>3, <1>5, <3>1, PartCount
  <2>4. CASE t >= y
    <3>1. {h \in global' : h.at >= y} = A \cup {new} BY <1>3, <1>4, <2>2, <2>4
    <3>2. Cardinality(A \cup {new}) = Cardinality(A) + 1 BY <2>3, AddCount
    <3> QED BY <2>3, <2>4, <3>1, <3>2
  <2>5. CASE ~(t >= y)
    <3>1. {h \in global' : h.at >= y} = A BY <1>3, <1>4, <2>2, <2>5
    <3> HIDE DEF A
    <3>2. Cardinality({h \in global' : h.at >= y}) = Cardinality(A) BY <3>1
    <3>3. Cardinality(A) = Cardinality(A) + (IF t >= y THEN 1 ELSE 0) BY <2>3, <2>5
    <3> QED BY <2>3, <3>2, <3>3 DEF A
  <2> QED BY <2>4, <2>5
<1>12. HoldInv'
  <2> SUFFICES ASSUME NEW y \in Int, y > now - Window
               PROVE  Cardinality({q \in Creating' : stamp'[q] >= y})
                        <= Cardinality({h \in global' : h.at >= y})
    BY DEF HoldInv
  <2>1. y > x BY <1>0, Bounds, Later
  <2> DEFINE C == {q \in Creating : stamp[q] >= y}
             A == {h \in global : h.at >= y}
             B == {h \in global' : h.at >= y}
  <2>2. Cardinality(A) \in Nat /\ Cardinality(B) = Cardinality(A) + (IF t >= y THEN 1 ELSE 0)
    BY <1>11, <2>1
  <2>3. IsFiniteSet(C) /\ r \notin C /\ Cardinality(C) \in Nat
    <3>1. C \subseteq Creating OBVIOUS
    <3> QED BY <1>0, <1>5, <3>1, PartCount
  <2>4. Cardinality(C) <= Cardinality(A) BY DEF IntakeInv, HoldInv
  <2>5. CASE t >= y
    <3>1. {q \in Creating' : stamp'[q] >= y} = C \cup {r} BY <1>2, <2>5
    <3>2. Cardinality(C \cup {r}) = Cardinality(C) + 1 BY <2>3, AddCount
    <3> HIDE DEF A, B, C
    <3>3. Cardinality(C \cup {r}) <= Cardinality(B) BY <2>2, <2>3, <2>4, <2>5, <3>2
    <3> QED BY <3>1, <3>3 DEF B
  <2>6. CASE ~(t >= y)
    <3>1. {q \in Creating' : stamp'[q] >= y} = C BY <1>2, <2>6
    <3> HIDE DEF A, B, C
    <3>2. Cardinality(C) <= Cardinality(B) BY <2>2, <2>3, <2>4, <2>6
    <3> QED BY <3>1, <3>2 DEF B
  <2> QED BY <2>5, <2>6
<1>13. QueueInv'
  <2>1. CASE checkFailed BY <2>1 DEF QueueInv
  <2>2. CASE ~checkFailed
    <3>1. ~NeverOpen BY <1>0 DEF NeverOpen
    <3>2. PICK tau \in Nat : OpenSince(tau) BY <2>2, <3>1 DEF IntakeInv, QueueInv
    <3>3. /\ tau - RequestLife \in Int /\ tau - RequestLife > x /\ t >= tau - RequestLife
      BY <3>2, OpenWindow
    <3> DEFINE A == {h \in global : h.at >= tau - RequestLife}
               B == {h \in global' : h.at >= tau - RequestLife}
    <3>4. Cardinality(A) \in Nat /\ Cardinality(B) = Cardinality(A) + 1 BY <1>11, <3>3
    <3>5. Cardinality(Creating') = Cardinality(Creating) + 1 /\ Cardinality(Creating) \in Nat
      BY <1>0, <1>2, <1>5, AddCount
    <3>6. pending + Cardinality(Creating) < MaxPending + Cardinality(A) BY <3>2 DEF OpenSince
    <3>7. pending \in Nat BY <1>1 DEF IntakeTypes
    <3> HIDE DEF A, B
    <3>8. pending' + Cardinality(Creating') < MaxPending + Cardinality(B)
      BY <3>4, <3>5, <3>6, <3>7, Bounds
    <3>9. OpenSince(tau)' BY <1>2, <3>2, <3>8 DEF OpenSince, B
    <3> QED BY <3>9 DEF QueueInv
  <2> QED BY <2>1, <2>2
<1> QED BY <1>2, <1>8, <1>9, <1>10, <1>12, <1>13 DEF IntakeInv

\* The limiter takes a request.
LEMMA AllowStep ==
    ASSUME IntakeInv, NEW r \in Requests, Allow(r)
    PROVE  IntakeInv'
<1>1. qpc[r] = "allow" /\ UNCHANGED <<now, queueVars, pending, checkFailed>> BY DEF Allow
<1>2. PICK H \in [Clients -> SUBSET AllHits], G \in SUBSET AllHits :
         /\ G \subseteq global
         /\ \A h \in global : h.at > stamp[r] - Window => h \in G
         /\ \A d \in Clients : /\ H[d] \subseteq hits[d]
                               /\ \A h \in hits[d] : h.at > stamp[r] - Window => h \in H[d]
         /\ \/ hits' = H /\ global' = G /\ admitted' = admitted /\ Respond(r)
            \/ LET new == NewHit(client[r], stamp[r])
               IN  /\ Cardinality(H[client[r]]) < MaxPerWin /\ Cardinality(G) < GlobalMax
                   /\ hits' = [H EXCEPT ![client[r]] = @ \cup {new}]
                   /\ global' = G \cup {new} /\ admitted' = admitted \cup {new}
                   /\ Goto(r, "create")
  BY AllowEffect
<1>3. CASE hits' = H /\ global' = G /\ admitted' = admitted /\ Respond(r)
  BY <1>1, <1>2, <1>3, RefuseStep
<1>4. CASE /\ Cardinality(H[client[r]]) < MaxPerWin /\ Cardinality(G) < GlobalMax
           /\ hits' = [H EXCEPT ![client[r]] = @ \cup {NewHit(client[r], stamp[r])}]
           /\ global' = G \cup {NewHit(client[r], stamp[r])}
           /\ admitted' = admitted \cup {NewHit(client[r], stamp[r])}
           /\ Goto(r, "create")
  BY <1>1, <1>2, <1>4, AdmitStep
<1> QED BY <1>2, <1>3, <1>4

-----------------------------------------------------------------------------
(* The theorems.                                                           *)

\* Every reachable state of the guard and the limiter satisfies IntakeInv.
THEOREM IntakeInvariance == IntakeSpec => []IntakeInv
<1>1. IntakeInit => IntakeInv BY IntakeInitInv
<1>2. IntakeInv /\ [IntakeNext]_ivars => IntakeInv'
  <2> SUFFICES ASSUME IntakeInv, [IntakeNext]_ivars PROVE IntakeInv'
    OBVIOUS
  <2>1. CASE Tick BY <2>1, TickStep
  <2>2. CASE Moderate BY <2>2, ModerateStep
  <2>3. ASSUME NEW r \in Requests, NEW c \in Clients, Arrive(r, c) PROVE IntakeInv'
    BY <2>3, ArriveStep
  <2>4. ASSUME NEW r \in Requests, GuardCached(r) PROVE IntakeInv' BY <2>4, CachedStep
  <2>5. ASSUME NEW r \in Requests, GuardQuery(r) PROVE IntakeInv' BY <2>5, QueryStep
  <2>6. ASSUME NEW r \in Requests, GuardQueryFails(r) PROVE IntakeInv' BY <2>6, QueryFailsStep
  <2>7. ASSUME NEW r \in Requests, AllowClock(r) PROVE IntakeInv' BY <2>7, ClockStep
  <2>8. ASSUME NEW r \in Requests, Allow(r) PROVE IntakeInv' BY <2>8, AllowStep
  <2>9. ASSUME NEW r \in Requests, Create(r) PROVE IntakeInv' BY <2>9, CreateStep
  <2>10. CASE UNCHANGED ivars BY <2>10, IntakeStutter
  <2> QED BY <2>1, <2>2, <2>3, <2>4, <2>5, <2>6, <2>7, <2>8, <2>9, <2>10 DEF IntakeNext
<1> QED BY <1>1, <1>2, PTL DEF IntakeSpec

\* The limiter's budgets hold for any number of concurrent requests, each of
\* which may have read the clock long before it got the lock: a hit less than
\* Window - RequestLife old is still in both of the limiter's sets, and these
\* never exceed the budgets.
THEOREM IntakeBudgets == IntakeSpec => []BudgetsHold
<1>1. IntakeInv => BudgetsHold
  <2> SUFFICES ASSUME IntakeInv PROVE BudgetsHold
    OBVIOUS
  <2> DEFINE passed == Passed(Window - RequestLife)
  <2>0. now \in Nat BY DEF IntakeInv, IntakeTypes
  <2>1. \A h \in passed : h \in global /\ h \in hits[h.client]
    <3> SUFFICES ASSUME NEW h \in passed PROVE h \in global /\ h \in hits[h.client]
      OBVIOUS
    <3>1. h \in admitted /\ h.when > now - (Window - RequestLife) BY DEF Passed
    <3>2. h.at \in Nat /\ h.when \in Nat BY <3>1 DEF IntakeInv, IntakeTypes, AllHits
    <3>3. h.when <= h.at + RequestLife BY <3>1 DEF IntakeInv, AdmitInv
    <3>4. h.at > now - Window BY <2>0, <3>1, <3>2, <3>3, Bounds
    <3> QED BY <3>1, <3>4 DEF IntakeInv, AdmitInv
  <2> HIDE DEF passed
  <2>2. ASSUME NEW c \in Clients
        PROVE  Cardinality({h \in passed : h.client = c}) <= MaxPerWin
    <3> DEFINE P == {h \in passed : h.client = c}
    <3>1. P \subseteq hits[c] BY <2>1
    <3>2. IsFiniteSet(hits[c]) /\ Cardinality(hits[c]) <= MaxPerWin
      BY DEF IntakeInv, IntakeTypes, LimitInv
    <3> HIDE DEF P
    <3>3. /\ Cardinality(P) \in Nat /\ Cardinality(hits[c]) \in Nat
          /\ Cardinality(P) <= Cardinality(hits[c])
      BY <3>1, <3>2, PartCount
    <3>4. Cardinality(P) <= MaxPerWin BY <3>2, <3>3, Bounds
    <3> QED BY <3>4 DEF P
  <2>3. Cardinality(passed) <= GlobalMax
    <3>1. passed \subseteq global BY <2>1
    <3>2. IsFiniteSet(global) /\ Cardinality(global) <= GlobalMax
      BY DEF IntakeInv, IntakeTypes, LimitInv
    <3>3. /\ Cardinality(passed) \in Nat /\ Cardinality(global) \in Nat
          /\ Cardinality(passed) <= Cardinality(global)
      BY <3>1, <3>2, PartCount
    <3> QED BY <3>2, <3>3, Bounds
  <2> QED BY <2>2, <2>3 DEF BudgetsHold, passed
<1> QED BY <1>1, IntakeInvariance, PTL

\* The pending queue never exceeds its cap by as much as the global budget:
\* every row beyond the count that last let requests in, inserted or about to
\* be, has a hit of its own in the global budget of one window.
THEOREM IntakeOvershoot == IntakeSpec => []OvershootBounded
<1>1. IntakeInv => OvershootBounded
  <2> SUFFICES ASSUME IntakeInv, ~checkFailed PROVE pending < MaxPending + GlobalMax
    BY DEF OvershootBounded
  <2>0. pending \in Nat BY DEF IntakeInv, IntakeTypes
  <2>1. CASE NeverOpen BY <2>0, <2>1, Bounds DEF NeverOpen
  <2>2. CASE \E tau \in Nat : OpenSince(tau)
    <3>1. PICK tau \in Nat : OpenSince(tau) BY <2>2
    <3> DEFINE G == {h \in global : h.at >= tau - RequestLife}
    <3>2. pending + Cardinality(Creating) < MaxPending + Cardinality(G) BY <3>1 DEF OpenSince
    <3>3. IsFiniteSet(global) /\ IsFiniteSet(Creating) /\ Cardinality(global) <= GlobalMax
      BY DEF IntakeInv, IntakeTypes, LimitInv
    <3>4. G \subseteq global OBVIOUS
    <3> HIDE DEF G
    <3>5. /\ Cardinality(G) \in Nat /\ Cardinality(global) \in Nat
          /\ Cardinality(G) <= Cardinality(global)
      BY <3>3, <3>4, PartCount
    <3>6. Cardinality(Creating) \in Nat BY <3>3, FS_CardinalityType
    <3> QED BY <2>0, <3>2, <3>3, <3>5, <3>6, Bounds
  <2> QED BY <2>1, <2>2 DEF IntakeInv, QueueInv
<1> QED BY <1>1, IntakeInvariance, PTL

=============================================================================
