----------------------------- MODULE RateLimiter -----------------------------
(***************************************************************************)
(* RateLimiter with its TokenBuckets, and SlidingWindowLimiter, of         *)
(* internal/ratelimit/tokenbucket.go. Every operation runs under one lock, *)
(* so each is one step. A bucket is filled lazily, in whole tokens, and    *)
(* lastRefill moves only when a token is added; Cleanup drops full         *)
(* buckets, which start full again.                                        *)
(***************************************************************************)
EXTENDS Integers, Sequences, Ages

CONSTANTS
    RatedUsers,    \* user IDs
    RateLimits,    \* rateLimit arguments of Allow and AllowN
    Minute,        \* ticks per minute: a bucket gains its limit in that time
    BucketAge,     \* the age RateLimiter.Cleanup is called with, in ticks
    SlidingLimit,  \* SlidingWindowLimiter.limit
    SlidingSize,   \* SlidingWindowLimiter.window, in ticks
    MaxSpan        \* bound: length of the observed span, in ticks

ASSUME RateAssumption ==
    /\ RateLimits \subseteq Nat /\ Minute \in Nat \ {0} /\ BucketAge \in Nat
    /\ SlidingLimit \in Nat /\ SlidingSize \in Nat \ {0} /\ MaxSpan \in Nat

VARIABLES
    buckets,   \* RateLimiter.buckets: capacity, tokens, ticks since lastRefill; or NoBucket
    times,     \* SlidingWindowLimiter.windows, as ages in ticks
    \* --- history ---
    span,      \* ticks since the observation began, -1 before
    spent,     \* tokens each user was granted in the span
    slid       \* ages of the grants of the sliding window, the youngest last

rateVars == <<buckets, times, span, spent, slid>>

NoBucket == [limit |-> -1, tokens |-> 0, elapsed |-> 0]

RateInit ==
    /\ buckets = [u \in RatedUsers |-> NoBucket]
    /\ times = [u \in RatedUsers |-> <<>>]
    /\ span = -1
    /\ spent = [u \in RatedUsers |-> 0]
    /\ slid = [u \in RatedUsers |-> <<>>]

\* The bucket of the user: the one there is, whatever limit is asked for now, or a full one.
BucketFor(u, limit) ==
    IF buckets[u] # NoBucket THEN buckets[u]
    ELSE [limit |-> limit, tokens |-> limit, elapsed |-> 0]

\* Fault (for LimitsKept): lastRefill stays when the bucket is full.
RefillKeepsClock(b) ==
    LET toAdd == (b.elapsed * b.limit) \div Minute
        tokens == IF b.tokens + toAdd > b.limit THEN b.limit ELSE b.tokens + toAdd IN
    IF tokens = b.limit THEN [b EXCEPT !.tokens = tokens]
    ELSE [b EXCEPT !.tokens = tokens, !.elapsed = 0]

\* TokenBucket.refill: the whole tokens of the elapsed time, up to the capacity; the time of a
\* fraction stays on the clock until it makes a token.
Refill(b) ==
    LET toAdd == (b.elapsed * b.limit) \div Minute IN
    IF toAdd = 0 THEN b
    ELSE [b EXCEPT !.tokens = IF @ + toAdd > b.limit THEN b.limit ELSE @ + toAdd,
                   !.elapsed = 0]

Spend(u, n) == spent' = [spent EXCEPT ![u] = IF span = -1 THEN @ ELSE @ + n]

-----------------------------------------------------------------------------
\* RateLimiter.AllowN with enough tokens; Allow is AllowN of one.
AllowN(u, n, limit) ==
    LET b == Refill(BucketFor(u, limit)) IN
    /\ b.tokens >= n
    /\ buckets' = [buckets EXCEPT ![u] = [b EXCEPT !.tokens = @ - n]]
    /\ Spend(u, n)
    /\ UNCHANGED <<times, span, slid>>

\* RateLimiter.AllowN without: refilled all the same.
DenyN(u, n, limit) ==
    LET b == Refill(BucketFor(u, limit)) IN
    /\ b.tokens < n
    /\ buckets' = [buckets EXCEPT ![u] = b]
    /\ UNCHANGED <<times, span, spent, slid>>

\* GetRemainingTokens refills.
GetRemainingTokens(u) ==
    /\ buckets[u] # NoBucket
    /\ buckets' = [buckets EXCEPT ![u] = Refill(@)]
    /\ UNCHANGED <<times, span, spent, slid>>

\* RateLimiter.Cleanup: every bucket is refilled, and dropped if it is full and no token was
\* due for BucketAge: Tokens has just moved lastRefill if one was.
CleanupBuckets ==
    /\ buckets' = [u \in RatedUsers |->
                     LET b == Refill(buckets[u]) IN
                     IF b.tokens = b.limit /\ b.elapsed > BucketAge THEN NoBucket ELSE b]
    /\ UNCHANGED <<times, span, spent, slid>>

-----------------------------------------------------------------------------
(* SlidingWindowLimiter *)

InWindow(ages) == Younger(ages, SlidingSize)

\* SlidingWindowLimiter.Allow under the limit.
SlidingAllow(u) ==
    /\ Len(InWindow(times[u])) < SlidingLimit
    /\ times' = [times EXCEPT ![u] = Append(InWindow(@), 0)]
    /\ slid' = [slid EXCEPT ![u] = Append(@, 0)]
    /\ UNCHANGED <<buckets, span, spent>>

\* SlidingWindowLimiter.Allow at the limit.
SlidingDeny(u) ==
    /\ Len(InWindow(times[u])) >= SlidingLimit
    /\ times' = [times EXCEPT ![u] = InWindow(@)]
    /\ UNCHANGED <<buckets, span, spent, slid>>

-----------------------------------------------------------------------------
LongAgo == IF Minute > BucketAge THEN Minute ELSE BucketAge + 1

\* Time passes; after LongAgo more of it changes nothing for a bucket.
RateTick ==
    /\ span < MaxSpan
    /\ buckets' = [u \in RatedUsers |->
                     IF buckets[u] = NoBucket \/ buckets[u].elapsed >= LongAgo THEN buckets[u]
                     ELSE [buckets[u] EXCEPT !.elapsed = @ + 1]]
    /\ times' = [u \in RatedUsers |-> Older(times[u], SlidingSize)]
    /\ slid' = [u \in RatedUsers |-> InWindow(Older(slid[u], SlidingSize))]
    /\ span' = IF span = -1 THEN -1 ELSE span + 1
    /\ UNCHANGED spent

\* The observation begins, at any time.
Observe == span = -1 /\ span' = 0 /\ UNCHANGED <<buckets, times, spent, slid>>

RateNext ==
    \/ \E u \in RatedUsers, limit \in RateLimits : \E n \in 1..limit + 1 :
         AllowN(u, n, limit) \/ DenyN(u, n, limit)
    \/ \E u \in RatedUsers : GetRemainingTokens(u) \/ SlidingAllow(u) \/ SlidingDeny(u)
    \/ CleanupBuckets
    \/ RateTick
    \/ Observe

RateSpec == RateInit /\ [][RateNext]_rateVars

-----------------------------------------------------------------------------
(* Properties *)

\* From any moment on, a user is granted less than one token more than its limit and what the
\* limit per minute gives for the time that passed, whatever Cleanup drops, fractions of a token
\* get lost and limits are asked for: twice the limit in one minute at most (TokenBucket, RateLimiter). The
\* other limiter allows no more than its limit in any window (SlidingWindowLimiter.Allow).
LimitsKept ==
    \A u \in RatedUsers :
        /\ spent[u] > 0 =>
             \E limit \in RateLimits : spent[u] * Minute < (limit + 1) * Minute + limit * span
        /\ Len(slid[u]) <= SlidingLimit

-----------------------------------------------------------------------------
(* The inductive strengthening of LimitsKept *)

BucketTypeOK(b) ==
    /\ b \in [limit : RateLimits, tokens : Nat, elapsed : Nat]
    /\ b.tokens <= b.limit

RateTypeOK ==
    /\ buckets \in [RatedUsers -> [limit : Int, tokens : Int, elapsed : Int]]
    /\ \A u \in RatedUsers : buckets[u] = NoBucket \/ BucketTypeOK(buckets[u])
    /\ times \in [RatedUsers -> Seq(Nat)] /\ slid \in [RatedUsers -> Seq(Nat)]
    /\ span \in Nat \cup {-1} /\ spent \in [RatedUsers -> Nat]
    /\ span = -1 => \A u \in RatedUsers : spent[u] = 0

\* The tokens of a bucket and those its clock has earned, in token minutes: a bucket that gets
\* whole tokens for its time is filled to the limit only, and loses the fraction.
Credit(b) ==
    LET earned == b.tokens * Minute + b.elapsed * b.limit
        full == b.limit * Minute IN
    IF b.elapsed * b.limit >= Minute /\ earned > full THEN full ELSE earned

\* What the bucket has less than a full one with a token's time on its clock.
Room(b) == IF b = NoBucket THEN Minute ELSE (b.limit + 1) * Minute - Credit(b)

\* Of a user with bucket b: the n tokens granted in d ticks are missing in the bucket, but for
\* what those ticks gave at some limit that was asked for.
Within(b, n, d, limit) ==
    /\ b # NoBucket => b.limit <= limit
    /\ d # -1 => n * Minute < Room(b) + limit * d

Accounted(b, n, d) ==
    \/ b = NoBucket /\ n = 0
    \/ \E limit \in RateLimits : Within(b, n, d, limit)

SpentIsMissing == \A u \in RatedUsers : Accounted(buckets[u], spent[u], span)

\* The list of a user remembers the grants of the window.
SlidRemembered ==
    \A u \in RatedUsers :
        Remembers(times[u], slid[u], SlidingSize) /\ Len(slid[u]) <= SlidingLimit

LimitsInv == RateTypeOK /\ SpentIsMissing /\ SlidRemembered

=============================================================================
