------------------------------- MODULE RateLimit -------------------------------
(***************************************************************************)
(* PathRateLimitMiddleware and InMemoryRateLimitBackend.  A bucket per     *)
(* rule and caller starts full, refills at limit / window tokens a second, *)
(* never above the limit, and gives one token to each request it lets      *)
(* through; a request it refuses is told how many seconds to wait.  A      *)
(* request no rule matches, or whose check raises, goes through and        *)
(* touches no bucket: neither is a step here.                              *)
(*                                                                         *)
(* The clock ticks TICKS times a second.  Tokens are exact: a token is     *)
(* WINDOW * TICKS parts, so that a tick refills LIMIT parts; the code's    *)
(* are floats, and their rounding is left out.                             *)
(***************************************************************************)
EXTENDS Naturals

CONSTANTS Buckets,              \* a rule's name and a caller's address
          LIMIT, WINDOW,        \* the spec: LIMIT requests in WINDOW seconds
          TICKS,                \* ticks of the clock in a second
          LastTick              \* bound on the clock

ASSUME RateAssumption ==
    /\ LIMIT \in Nat \ {0} /\ WINDOW \in Nat \ {0}      \* parse_rate
    /\ TICKS \in Nat \ {0} /\ LastTick \in Nat

VARIABLES tick,         \* time.monotonic()
          buckets,      \* the backend's _buckets
          since,        \* since[k][t]: requests of k let through from tick t on
          promised      \* when a refused caller was told to come back

rates == <<tick, buckets, since, promised>>

-----------------------------------------------------------------------------
(* Types *)

Token    == WINDOW * TICKS      \* parts of a token
Full     == LIMIT * Token
Ticks    == 0 .. LastTick
NoBucket == [tokens |-> Full, last_refill |-> LastTick + 1]
Bucket   == [tokens : Nat, last_refill : Ticks]
NoPromise == 0

RateTypeOK ==
    /\ tick \in Ticks
    /\ buckets \in [Buckets -> Bucket \cup {NoBucket}]
    /\ since \in [Buckets -> [Ticks -> Nat]]
    /\ promised \in [Buckets -> Nat]

RateInit ==
    /\ tick = 0
    /\ buckets = [k \in Buckets |-> NoBucket]
    /\ since = [k \in Buckets |-> [t \in Ticks |-> 0]]
    /\ promised = [k \in Buckets |-> NoPromise]

-----------------------------------------------------------------------------
(* Helpers *)

Least(a, b) == IF a <= b THEN a ELSE b
Most(a, b)  == IF a <= b THEN b ELSE a
Ceil(a, b)  == (a + b - 1) \div b

Refilled_Uncapped(k) ==
    IF buckets[k] = NoBucket THEN Full
    ELSE buckets[k].tokens + (tick - buckets[k].last_refill) * LIMIT

\* What the bucket holds now: full when it is new.
Refilled(k) ==
    IF buckets[k] = NoBucket THEN Full
    ELSE Least(Full, buckets[k].tokens + (tick - buckets[k].last_refill) * LIMIT)

RetryAfter_Floor(tokens) ==
    Least(Most(1, (Token - tokens) \div (LIMIT * TICKS)), WINDOW)

\* Whole seconds until there is a token, at least one and at most the window.
RetryAfter(tokens) ==
    Least(Most(1, Ceil(Token - tokens, LIMIT * TICKS)), WINDOW)

-----------------------------------------------------------------------------
(* Actions *)

Tick == tick < LastTick /\ tick' = tick + 1 /\ UNCHANGED <<buckets, since, promised>>

Refill(k, tokens) ==
    buckets' = [buckets EXCEPT ![k] = [tokens |-> tokens, last_refill |-> tick]]

\* check_and_consume finds a token: the request goes on to its route.
Admit(k) ==
    /\ Refilled(k) >= Token
    /\ Refill(k, Refilled(k) - Token)
    /\ since' = [since EXCEPT ![k] = [t \in Ticks |-> IF t <= tick THEN @[t] + 1 ELSE @[t]]]
    /\ promised' = [promised EXCEPT ![k] = NoPromise]
    /\ UNCHANGED tick

\* It does not: 429 with Retry-After.
Refuse(k) ==
    /\ Refilled(k) < Token
    /\ Refill(k, Refilled(k))
    /\ promised' = [promised EXCEPT ![k] = tick + RetryAfter(Refilled(k)) * TICKS]
    /\ UNCHANGED <<tick, since>>

\* The middleware's rules, and the rate_limit dependency of a single route.
RateNext == Tick \/ \E k \in Buckets : Admit(k) \/ Refuse(k)

RateSpec == RateInit /\ [][RateNext]_rates

-----------------------------------------------------------------------------
(* Properties *)

\* From any moment on, a caller gets at most the limit plus what the elapsed
\* time refills, however its requests are spread: idling earns nothing beyond
\* a full bucket, and a refused request costs nothing.
BurstBounded ==
    \A k \in Buckets, t \in Ticks :
        t <= tick => since[k][t] * Token <= Full + (tick - t) * LIMIT

\* A refused caller that comes back when it was told to is let through, if
\* nobody used its bucket meanwhile.
RetryAfterHonest ==
    \A k \in Buckets :
        promised[k] # NoPromise /\ tick >= promised[k] => Refilled(k) >= Token
=============================================================================
