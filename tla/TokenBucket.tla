---------------------------- MODULE TokenBucket -----------------------------
(***************************************************************************)
(* One token bucket, gateway/ratelimiter/token_bucket.go, from before its   *)
(* creation, used by any callers.  Every method holds b.mu throughout and   *)
(* begins with refill(), so each is one action at one reading of the clock. *)
(* Time is counted in ticks, Per of them to refillPer; a bucket refills     *)
(* lazily, in whole periods counted from its creation.                      *)
(*                                                                          *)
(* The last three variables are history: they measure an interval that      *)
(* begins wherever StartWatch puts it.                                      *)
(***************************************************************************)
EXTENDS BucketParameters

VARIABLES
  bucket,      \* NoBucket or [tokens, lastRefill]
  now,         \* time.Now()
  taken,       \* tokens granted since the watch began
  watchFrom,   \* when the watch began
  periods      \* refill periods of the bucket that ended since then

watchVars == <<taken, watchFrom, periods>>
vars == <<bucket, now, watchVars>>

Bucket == [tokens : 0..Capacity, lastRefill : Nat]
NoBucket == [tokens |-> 0, lastRefill |-> -1]

TypeOK ==
  /\ bucket \in Bucket \union {NoBucket}
  /\ now \in Nat
  /\ taken \in Nat
  /\ watchFrom \in Nat
  /\ periods \in Nat

Init ==
  /\ bucket = NoBucket
  /\ now = 0
  /\ taken = 0
  /\ watchFrom = now
  /\ periods = 0

-----------------------------------------------------------------------------

\* NewTokenBucket, called at time t
NewTokenBucket(t) == [tokens |-> Capacity, lastRefill |-> t]

\* int(elapsed / b.refillPer) for a bucket b at time t
WholePeriods(b, t) == (t - b.lastRefill) \div Per

\* Bug variant: refill() without min(b.capacity, ...).
RefilledUncapped(b, t) ==
  LET refillCount == WholePeriods(b, t) * Rate IN
  [tokens     |-> b.tokens + refillCount,
   lastRefill |-> b.lastRefill + (refillCount \div Rate) * Per]

\* Bug variant: lastRefill = now, which drops the remainder of the period.
RefilledToNow(b, t) ==
  LET refillCount == WholePeriods(b, t) * Rate
      filled == b.tokens + refillCount
  IN  IF refillCount > 0
        THEN [tokens     |-> IF filled < Capacity THEN filled ELSE Capacity,
              lastRefill |-> t]
        ELSE b

\* b after refill() at time t: the count is capped by the capacity, the
\* clock of the bucket moves by whole periods and keeps the remainder.
Refilled(b, t) ==
  LET refillCount == WholePeriods(b, t) * Rate
      filled == b.tokens + refillCount
  IN  IF refillCount > 0
        THEN [tokens     |-> IF filled < Capacity THEN filled ELSE Capacity,
              lastRefill |-> b.lastRefill + (refillCount \div Rate) * Per]
        ELSE b

\* The grant of n tokens out of a refilled bucket b.
Less(b, n) == [b EXCEPT !.tokens = @ - n]

-----------------------------------------------------------------------------

Create ==
  /\ bucket = NoBucket
  /\ bucket' = NewTokenBucket(now)
  /\ UNCHANGED <<now, watchVars>>

\* refill(), then b.tokens >= n decides.
AllowN(n) ==
  /\ bucket # NoBucket
  /\ LET b == Refilled(bucket, now) IN
       IF b.tokens >= n
         THEN bucket' = Less(b, n) /\ taken' = taken + n
         ELSE bucket' = b /\ UNCHANGED taken
  /\ UNCHANGED <<now, watchFrom, periods>>

\* refill(), then b.tokens > 0 decides: one token.
Allow ==
  /\ bucket # NoBucket
  /\ LET b == Refilled(bucket, now) IN
       IF b.tokens > 0
         THEN bucket' = Less(b, 1) /\ taken' = taken + 1
         ELSE bucket' = b /\ UNCHANGED taken
  /\ UNCHANGED <<now, watchFrom, periods>>

\* refill() and a read.
Available ==
  /\ bucket # NoBucket
  /\ bucket' = Refilled(bucket, now)
  /\ UNCHANGED <<now, watchVars>>

\* A tick that completes a period of the bucket is counted.
Tick ==
  /\ now < MaxNow
  /\ now' = now + 1
  /\ periods' =
       IF bucket # NoBucket /\ WholePeriods(bucket, now') > WholePeriods(bucket, now)
         THEN periods + 1 ELSE periods
  /\ UNCHANGED <<bucket, taken, watchFrom>>

\* History only: a watch begins.
StartWatch ==
  /\ taken' = 0
  /\ watchFrom' = now
  /\ periods' = 0
  /\ UNCHANGED <<bucket, now>>

Next ==
  \/ Create
  \/ \E n \in Requests : AllowN(n)
  \/ Allow
  \/ Available
  \/ Tick
  \/ StartWatch

Spec == Init /\ [][Next]_vars

-----------------------------------------------------------------------------
(***************************************************************************)
(* Properties                                                              *)
(***************************************************************************)

(***************************************************************************)
(* The promise of the rate limiter (DESIGN_DECISIONS.md, DDR-003: bursts up *)
(* to the capacity, then the refill rate), over every interval and not just *)
(* from the start: from any moment on, the bucket grants at most one full   *)
(* capacity plus Rate for every period, one of them begun before.           *)
(***************************************************************************)
WindowBound ==
  taken <= Capacity + Rate * ((now - watchFrom) \div Per + 1)

(***************************************************************************)
(* The sharper form the proof needs: what was granted and what a call would *)
(* now find in the bucket come from one capacity and the periods that ended.*)
(***************************************************************************)
TokensNow ==
  IF bucket = NoBucket THEN Capacity ELSE Refilled(bucket, now).tokens

Conservation == taken + TokensNow <= Capacity + Rate * periods

(***************************************************************************)
(* Laziness loses nothing: whatever mix of calls refilled the bucket and    *)
(* when, its own clock stays a whole number of periods behind the present,  *)
(* less than one after a call, and a call never takes it past the present.  *)
(***************************************************************************)
RefillClock ==
  [][bucket # NoBucket /\ bucket' # bucket =>
       /\ now - bucket'.lastRefill \in 0 .. Per - 1
       /\ (bucket'.lastRefill - bucket.lastRefill) % Per = 0]_vars
=============================================================================
