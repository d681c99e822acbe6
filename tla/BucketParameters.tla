------------------------- MODULE BucketParameters --------------------------
(***************************************************************************)
(* What a token bucket of gateway/ratelimiter/token_bucket.go is made with, *)
(* by itself (TokenBucket) or in the limiter (RateLimiter).                 *)
(***************************************************************************)
EXTENDS Integers

CONSTANTS
  Capacity,    \* capacity: the most tokens a bucket holds, and its first fill
  Rate,        \* refillRate: the tokens added per period
  Per,         \* refillPer in ticks
  Requests,    \* the n that callers of AllowN ask for; the gateway has none
  MaxNow       \* bound on the clock

ASSUME TokenBucketAssumption ==
  /\ Capacity \in Nat \ {0}
  /\ Rate \in Nat \ {0}
  /\ Per \in Nat \ {0}
  /\ Requests \subseteq Nat
  /\ MaxNow \in Nat
=============================================================================
