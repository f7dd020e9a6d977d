---------------------------- MODULE RateLimiter ----------------------------
(***************************************************************************)
(* The rate limiter's map of token buckets.  A key that is not in the map  *)
(* gets a full bucket; a background job throws out the buckets nobody has  *)
(* asked for in 30 minutes.  Throwing one out must not give its caller     *)
(* more than waiting would have.                                           *)
(*                                                                         *)
(* A tick is the time in which a bucket gains one token, 60/PerMin         *)
(* seconds.  A request finds its bucket and takes its token in one step:   *)
(* between the two the bucket was seen just now, and cannot be evicted.    *)
(* Names that every specification has are the limiter's by their prefix:   *)
(* AccountsProofs is about the limiter and the accounts.                   *)
(***************************************************************************)
EXTENDS Naturals

CONSTANTS Key,      \* users and addresses of one tier
          PerMin,   \* the tier's limit per minute
          Divisor,  \* the burst is this part of it: 3 anonymous, 6 authenticated
          Floor     \* and at least this: 5, and 10

ASSUME RateAssumption ==
    /\ PerMin \in Nat \ {0} /\ Divisor \in Nat \ {0}
    /\ Floor \in 1..(30 * PerMin)

VARIABLES limiters, \* the map: tokens left, and ticks since it was last seen
          answer    \* what allow returned last

limiterVars == <<limiters, answer>>

Burst == IF PerMin \div Divisor > Floor THEN PerMin \div Divisor ELSE Floor

\* Ticks in 30 minutes.
Lifetime == 30 * PerMin

Missing == [there |-> FALSE, tokens |-> Burst, seen |-> 0]
New == [there |-> TRUE, tokens |-> Burst, seen |-> 0]

LimiterInit == limiters = [k \in Key |-> Missing] /\ answer = "none"

\* Mutant: only a new entry is stamped.
FoundUnstamped(k) == IF limiters[k].there THEN limiters[k] ELSE New

\* getLimiter: the entry, made if it is missing, with its stamp renewed.
Found(k) == IF limiters[k].there THEN [limiters[k] EXCEPT !.seen = 0] ELSE New

Allow(k) ==
    /\ Found(k).tokens > 0
    /\ limiters' = [limiters EXCEPT ![k] = [Found(k) EXCEPT !.tokens = @ - 1]]
    /\ answer' = "allowed"

Refuse(k) ==
    /\ Found(k).tokens = 0
    /\ limiters' = [limiters EXCEPT ![k] = Found(k)]
    /\ answer' = "refused"

\* An entry a tick later.
Older(e) ==
    IF e.there
    THEN [e EXCEPT !.tokens = IF @ < Burst THEN @ + 1 ELSE Burst,
                   !.seen = IF @ <= Lifetime THEN @ + 1 ELSE @]
    ELSE e

LimiterTick ==
    /\ limiters' = [k \in Key |-> Older(limiters[k])]
    /\ answer' = "none"

\* Mutant: an entry that is just as old as its bucket is deep goes.
ExpiredEarly(e) == e.there /\ e.seen + 1 >= Burst

Expired(e) == e.there /\ e.seen > Lifetime

\* cleanup, every ten minutes.
Evict ==
    /\ \E k \in Key : Expired(limiters[k])
    /\ limiters' = [k \in Key |-> IF Expired(limiters[k]) THEN Missing ELSE limiters[k]]
    /\ UNCHANGED answer

LimiterNext == LimiterTick \/ Evict \/ \E k \in Key : Allow(k) \/ Refuse(k)

LimiterSpec == LimiterInit /\ [][LimiterNext]_limiterVars

-----------------------------------------------------------------------------
Min(a, b) == IF a < b THEN a ELSE b

\* Type invariant.
LimiterTypeOK ==
    /\ limiters \in [Key -> [there : BOOLEAN, tokens : 0..Burst, seen : 0..(Lifetime + 1)]]
    /\ answer \in {"allowed", "refused", "none"}

\* A bucket has got a token for every tick in which nobody asked for it, and a
\* missing bucket counts as full.
RefilledWhileUnseen ==
    \A k \in Key :
        /\ limiters[k].tokens >= Min(limiters[k].seen, Burst)
        /\ ~limiters[k].there => limiters[k] = Missing

Buckets == INSTANCE RateBuckets WITH tokens <- [k \in Key |-> limiters[k].tokens]

\* Eviction shows to no caller: every key is served as by a bucket that is never
\* thrown away.
BucketSpec == Buckets!Spec
=============================================================================
