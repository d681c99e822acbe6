------------------------- MODULE TokenBucketProofs --------------------------
(***************************************************************************)
(* The token bucket, for every capacity, rate and period: the bound on what *)
(* it grants in any interval.                                               *)
(*                                                                          *)
(* The argument counts periods.  A bucket's clock only moves by whole       *)
(* periods, so the ends of its periods are fixed once it is created, and    *)
(* the tokens a call would find (TokensNow) grow by at most Rate when one   *)
(* passes: granted plus available stays within Capacity + Rate * periods    *)
(* (Conservation).  And p period ends after the watch began take more than  *)
(* p - 1 periods of time (PeriodsTakeTime).                                 *)
(***************************************************************************)
EXTENDS TokenBucket, TLAPS

-----------------------------------------------------------------------------
(***************************************************************************)
(* Division of natural numbers                                             *)
(***************************************************************************)

\* A quotient is the greatest multiple below.
LEMMA DivBelow ==
  ASSUME NEW a \in Nat, NEW d \in Nat \ {0}
  PROVE  d * (a \div d) <= a
OBVIOUS

LEMMA DivAbove ==
  ASSUME NEW a \in Nat, NEW d \in Nat \ {0}
  PROVE  a < d * (a \div d) + d
OBVIOUS

LEMMA DivNat ==
  ASSUME NEW a \in Nat, NEW d \in Nat \ {0}
  PROVE  a \div d \in Nat
OBVIOUS

LEMMA TimesNat ==
  ASSUME NEW d \in Nat, NEW q \in Nat
  PROVE  d * q \in Nat /\ d * (q + 1) = d * q + d
OBVIOUS

LEMMA TimesLess ==
  ASSUME NEW d \in Nat \ {0}, NEW q \in Nat, NEW p \in Nat, q < p
  PROVE  d * q + d <= d * p
OBVIOUS

LEMMA TimesMonotone ==
  ASSUME NEW d \in Nat, NEW q \in Nat, NEW p \in Nat, q <= p
  PROVE  d * q <= d * p
OBVIOUS

LEMMA SumStep ==
  ASSUME NEW t \in Nat, NEW n \in Nat, NEW m \in Nat, NEW c \in Nat,
         NEW p \in Nat, NEW r \in Nat, t + n <= c + p, m <= n + r
  PROVE  t + m <= c + (p + r)
OBVIOUS

\* The quotient is determined by the interval the dividend lies in.
LEMMA DivUnique ==
  ASSUME NEW a \in Nat, NEW d \in Nat \ {0}, NEW q \in Nat,
         d * q <= a, a < d * q + d
  PROVE  a \div d = q
<1> DEFINE p == a \div d
<1>1. p \in Nat /\ d * p <= a /\ a < d * p + d
  BY DivNat, DivBelow, DivAbove
<1>2. d * p \in Nat /\ d * q \in Nat
  BY <1>1, TimesNat
<1> HIDE DEF p
<1>3. ~(p < q)
  <2> SUFFICES ASSUME p < q PROVE FALSE
    OBVIOUS
  <2>1. d * p + d <= d * q
    BY <1>1, TimesLess
  <2> QED BY <2>1, <1>1, <1>2
<1>4. ~(q < p)
  <2> SUFFICES ASSUME q < p PROVE FALSE
    OBVIOUS
  <2>1. d * q + d <= d * p
    BY <1>1, TimesLess
  <2> QED BY <2>1, <1>1, <1>2
<1>5. p = q
  BY <1>1, <1>3, <1>4
<1> QED BY <1>5 DEF p

LEMMA ModMultiple ==
  ASSUME NEW d \in Nat \ {0}, NEW k \in Nat
  PROVE  (d * k) % d = 0
<1>1. d * k \in Nat
  BY TimesNat
<1>2. (d * k) \div d = k
  BY <1>1, DivUnique
<1>3. (d * k) % d = d * k - d * ((d * k) \div d)
  BY <1>1
<1> QED BY <1>1, <1>2, <1>3

-----------------------------------------------------------------------------
(***************************************************************************)
(* refill()                                                                *)
(***************************************************************************)

\* The whole periods between a bucket's clock and the present.
LEMMA WholePeriodsBounds ==
  ASSUME NEW b \in Bucket, NEW t \in Nat, b.lastRefill <= t
  PROVE  /\ WholePeriods(b, t) \in Nat
         /\ Per * WholePeriods(b, t) <= t - b.lastRefill
         /\ t - b.lastRefill < Per * WholePeriods(b, t) + Per
<1>1. t - b.lastRefill \in Nat
  BY DEF Bucket
<1> QED
  BY <1>1, TokenBucketAssumption, DivNat, DivBelow, DivAbove DEF WholePeriods

\* A tick ends at most one period, and then ends it exactly.
LEMMA TickPeriods ==
  ASSUME NEW b \in Bucket, NEW t \in Nat, b.lastRefill <= t
  PROVE  \/ WholePeriods(b, t + 1) = WholePeriods(b, t)
         \/ /\ WholePeriods(b, t + 1) = WholePeriods(b, t) + 1
            /\ Per * WholePeriods(b, t + 1) = (t + 1) - b.lastRefill
<1> DEFINE k == WholePeriods(b, t)
           a == t - b.lastRefill
<1>1. /\ k \in Nat /\ a \in Nat /\ Per \in Nat \ {0}
      /\ Per * k <= a /\ a < Per * k + Per
      /\ (t + 1) - b.lastRefill = a + 1
  BY WholePeriodsBounds, TokenBucketAssumption DEF Bucket
<1>2. Per * k \in Nat /\ Per * (k + 1) = Per * k + Per
  BY <1>1, TimesNat
<1> HIDE DEF k, a
<1>3. WholePeriods(b, t + 1) = (a + 1) \div Per
  <2>1. WholePeriods(b, t + 1) = ((t + 1) - b.lastRefill) \div Per
    BY Zenon DEF WholePeriods
  <2> QED BY <1>1, <2>1, Zenon
<1>4. CASE a + 1 < Per * k + Per
  <2>1. (a + 1) \div Per = k
    BY <1>1, <1>2, <1>4, DivUnique
  <2> QED BY <1>3, <2>1 DEF k
<1>5. CASE a + 1 = Per * k + Per
  <2>1. (a + 1) \div Per = k + 1
    <3> DEFINE q == k + 1
               c == a + 1
    <3>1. q \in Nat /\ c \in Nat /\ Per * q = c /\ c < Per * q + Per
      BY <1>1, <1>2, <1>5
    <3> HIDE DEF q, c
    <3>2. c \div Per = q
      BY <1>1, <3>1, DivUnique
    <3> QED BY <3>2 DEF q, c
  <2> QED BY <1>1, <1>2, <1>3, <1>5, <2>1 DEF k, a
<1> QED BY <1>1, <1>2, <1>4, <1>5

\* What refill() leaves, without its division.
LEMMA RefilledForm ==
  ASSUME NEW b \in Bucket, NEW t \in Nat, b.lastRefill <= t
  PROVE  LET k == WholePeriods(b, t) IN
         Refilled(b, t) =
           IF k > 0
             THEN [tokens     |-> IF b.tokens + k * Rate < Capacity
                                    THEN b.tokens + k * Rate ELSE Capacity,
                   lastRefill |-> b.lastRefill + k * Per]
             ELSE b
<1> DEFINE k == WholePeriods(b, t)
<1>1. k \in Nat /\ Rate \in Nat \ {0}
  BY WholePeriodsBounds, TokenBucketAssumption
<1> HIDE DEF k
<1>2. Rate * k \in Nat /\ k * Rate = Rate * k
  BY <1>1, TimesNat
<1>3. (k * Rate) \div Rate = k
  BY <1>1, <1>2, DivUnique
<1>4. k * Rate > 0 <=> k > 0
  <2>1. CASE k = 0
    BY <2>1, <1>1
  <2>2. CASE k > 0
    <3>1. Rate * 0 + Rate <= Rate * k
      BY <1>1, <2>2, TimesLess
    <3> QED BY <1>1, <1>2, <2>2, <3>1
  <2> QED BY <1>1, <2>1, <2>2
<1> QED BY <1>3, <1>4 DEF Refilled, k

\* refill() returns a bucket that is not ahead of the clock and has no whole
\* period left; it holds the old tokens and Rate per period, up to Capacity.
LEMMA RefilledFacts ==
  ASSUME NEW b \in Bucket, NEW t \in Nat, b.lastRefill <= t
  PROVE  LET r == Refilled(b, t)
             k == WholePeriods(b, t)
         IN  /\ r \in Bucket
             /\ r.lastRefill = b.lastRefill + Per * k
             /\ r.lastRefill <= t
             /\ t - r.lastRefill < Per
             /\ r.tokens = IF b.tokens + Rate * k < Capacity
                             THEN b.tokens + Rate * k ELSE Capacity
<1> DEFINE k == WholePeriods(b, t)
           r == Refilled(b, t)
<1>1. /\ k \in Nat /\ Per * k <= t - b.lastRefill
      /\ t - b.lastRefill < Per * k + Per
      /\ r = IF k > 0
               THEN [tokens     |-> IF b.tokens + k * Rate < Capacity
                                      THEN b.tokens + k * Rate ELSE Capacity,
                     lastRefill |-> b.lastRefill + k * Per]
               ELSE b
  BY WholePeriodsBounds, RefilledForm
<1>2. /\ Rate * k \in Nat /\ k * Rate = Rate * k
      /\ Per * k \in Nat /\ k * Per = Per * k
      /\ Per \in Nat \ {0} /\ Capacity \in Nat
      /\ b.tokens \in 0..Capacity /\ b.lastRefill \in Nat
  BY <1>1, TimesNat, TokenBucketAssumption DEF Bucket
<1>3. k = 0 => Rate * k = 0 /\ Per * k = 0
  BY TokenBucketAssumption
<1> HIDE DEF k, r
<1>4. r.lastRefill = b.lastRefill + Per * k
  BY <1>1, <1>2, <1>3
<1>5. r.tokens = IF b.tokens + Rate * k < Capacity
                   THEN b.tokens + Rate * k ELSE Capacity
  BY <1>1, <1>2, <1>3
<1>6. r.tokens \in 0..Capacity /\ r.lastRefill \in Nat
  BY <1>2, <1>4, <1>5
<1>7. r \in Bucket
  <2>1. CASE k > 0
    BY <1>1, <1>6, <2>1 DEF Bucket
  <2>2. CASE k = 0
    BY <1>1, <2>2
  <2> QED BY <1>1, <2>1, <2>2
<1>8. r.lastRefill <= t /\ t - r.lastRefill < Per
  BY <1>1, <1>2, <1>4
<1> QED BY <1>4, <1>5, <1>7, <1>8, Zenon DEF k, r

\* A bucket without a whole period behind it is not changed by refill().
LEMMA RefilledFresh ==
  ASSUME NEW b \in Bucket, NEW t \in Nat, b.lastRefill <= t,
         t - b.lastRefill < Per
  PROVE  WholePeriods(b, t) = 0 /\ Refilled(b, t) = b
<1>1. t - b.lastRefill \in Nat /\ Per \in Nat \ {0} /\ Per * 0 = 0
  BY TokenBucketAssumption DEF Bucket
<1>2. WholePeriods(b, t) = 0
  BY <1>1, DivUnique DEF WholePeriods
<1> QED BY <1>2, RefilledForm

-----------------------------------------------------------------------------
(***************************************************************************)
(* The invariants                                                          *)
(***************************************************************************)

\* The bucket is never ahead of the clock, nor the watch.
ClockInv ==
  /\ bucket # NoBucket => bucket \in Bucket /\ bucket.lastRefill <= now
  /\ watchFrom <= now

\* The end of the bucket's last period, which refill() would move it to.
LastEnd == bucket.lastRefill + Per * WholePeriods(bucket, now)

\* The counted periods all ended after the watch began: the first of them,
\* periods - 1 before the last, is later than watchFrom.
PeriodsTakeTime ==
  periods > 0 => /\ bucket # NoBucket
                 /\ watchFrom < LastEnd - Per * (periods - 1)

IInv == TypeOK /\ ClockInv /\ Conservation /\ PeriodsTakeTime

\* A bucket is not the absence of one.
LEMMA NoBucketIsNone == NoBucket \notin Bucket
BY DEF NoBucket, Bucket

LEMMA BucketFields ==
  ASSUME NEW x \in 0..Capacity, NEW y \in Nat
  PROVE  /\ [tokens |-> x, lastRefill |-> y] \in Bucket
         /\ [tokens |-> x, lastRefill |-> y].tokens = x
         /\ [tokens |-> x, lastRefill |-> y].lastRefill = y
BY DEF Bucket

\* A call that leaves an up-to-date bucket b behind and grants n of the
\* tokens that refill() found keeps the invariant.
LEMMA CallStep ==
  ASSUME IInv, bucket # NoBucket, NEW n \in Nat,
         n <= Refilled(bucket, now).tokens,
         bucket' = [Refilled(bucket, now) EXCEPT !.tokens = @ - n],
         taken' = taken + n,
         UNCHANGED <<now, watchFrom, periods>>
  PROVE  /\ IInv'
         /\ now - bucket'.lastRefill \in 0 .. Per - 1
         /\ bucket'.lastRefill - bucket.lastRefill
              = Per * WholePeriods(bucket, now)
<1> DEFINE r == Refilled(bucket, now)
           k == WholePeriods(bucket, now)
<1>1. /\ bucket \in Bucket /\ bucket.lastRefill <= now
      /\ now \in Nat /\ taken \in Nat /\ periods \in Nat
      /\ watchFrom \in Nat /\ watchFrom <= now
  BY DEF IInv, TypeOK, ClockInv
<1>2. /\ r \in Bucket
      /\ r.lastRefill = bucket.lastRefill + Per * k
      /\ r.lastRefill <= now /\ now - r.lastRefill < Per
  BY <1>1, RefilledFacts
<1>3. k \in Nat /\ Per * k \in Nat
  BY <1>1, WholePeriodsBounds, TimesNat, TokenBucketAssumption
<1>4. n <= r.tokens /\ bucket' = [r EXCEPT !.tokens = @ - n]
  OBVIOUS
<1>5. TokensNow = r.tokens
  BY DEF TokensNow
<1> HIDE DEF r, k
<1>6. /\ bucket' \in Bucket
      /\ bucket'.tokens = r.tokens - n
      /\ bucket'.lastRefill = r.lastRefill
  <2>1. r.tokens - n \in 0..Capacity
    BY <1>2, <1>4, TokenBucketAssumption DEF Bucket
  <2>2. bucket' = [tokens |-> r.tokens - n, lastRefill |-> r.lastRefill]
    BY <1>2, <1>4 DEF Bucket
  <2>3. r.lastRefill \in Nat
    BY <1>2 DEF Bucket
  <2> DEFINE b == [tokens |-> r.tokens - n, lastRefill |-> r.lastRefill]
  <2>4. b \in Bucket /\ b.tokens = r.tokens - n /\ b.lastRefill = r.lastRefill
    BY <2>1, <2>3, BucketFields
  <2>5. bucket' = b
    BY <2>2
  <2> HIDE DEF b
  <2> QED BY <2>4, <2>5, Zenon
<1>7. bucket' # NoBucket
  BY <1>6, NoBucketIsNone
<1>8. WholePeriods(bucket', now) = 0 /\ Refilled(bucket', now) = bucket'
  BY <1>1, <1>2, <1>6, RefilledFresh
<1>9. TypeOK'
  BY <1>1, <1>6 DEF TypeOK
<1>10. ClockInv'
  BY <1>1, <1>2, <1>6 DEF ClockInv
<1>11. Conservation'
  <2>1. TokensNow' = r.tokens - n
    BY <1>6, <1>7, <1>8 DEF TokensNow
  <2>2. r.tokens \in Nat
    BY <1>2, TokenBucketAssumption DEF Bucket
  <2>3. taken + r.tokens <= Capacity + Rate * periods
    BY <1>5 DEF IInv, Conservation
  <2>4. taken' + TokensNow' = taken + r.tokens
    BY <1>1, <2>1, <2>2
  <2> QED BY <2>3, <2>4 DEF Conservation
<1>12. PeriodsTakeTime'
  <2>1. LastEnd = r.lastRefill
    BY <1>2 DEF LastEnd, k
  <2>2. LastEnd' = r.lastRefill
    <3>1. LastEnd' = bucket'.lastRefill + Per * WholePeriods(bucket', now)
      BY DEF LastEnd
    <3>2. Per * 0 = 0 /\ r.lastRefill \in Nat
      BY <1>2, TokenBucketAssumption DEF Bucket
    <3> QED BY <1>6, <1>8, <3>1, <3>2
  <2> QED BY <1>7, <2>1, <2>2 DEF IInv, PeriodsTakeTime
<1>13. now - bucket'.lastRefill \in 0 .. Per - 1
  BY <1>1, <1>2, <1>6, TokenBucketAssumption DEF Bucket
<1>14. bucket'.lastRefill - bucket.lastRefill = Per * k
  BY <1>1, <1>2, <1>3, <1>6 DEF Bucket
<1> QED BY <1>9, <1>10, <1>11, <1>12, <1>13, <1>14 DEF IInv, k

\* Every call on a bucket has the form of the previous lemma.
LEMMA CallForm ==
  ASSUME IInv,
         Allow \/ Available \/ \E n \in Requests : AllowN(n)
  PROVE  /\ bucket # NoBucket
         /\ \E n \in Nat :
              /\ n <= Refilled(bucket, now).tokens
              /\ bucket' = [Refilled(bucket, now) EXCEPT !.tokens = @ - n]
              /\ taken' = taken + n
         /\ UNCHANGED <<now, watchFrom, periods>>
<1> DEFINE r == Refilled(bucket, now)
<1>1. bucket # NoBucket /\ UNCHANGED <<now, watchFrom, periods>>
  BY DEF Allow, AllowN, Available, watchVars
<1>2. r \in Bucket /\ taken \in Nat
  BY <1>1, RefilledFacts DEF IInv, TypeOK, ClockInv
<1>3. r.tokens \in Nat
  BY <1>2, TokenBucketAssumption DEF Bucket
<1>4. CASE bucket' = r /\ UNCHANGED taken
  <2>1. r = [r EXCEPT !.tokens = @ - 0]
    BY <1>2, <1>3 DEF Bucket
  <2>2. taken' = taken + 0 /\ 0 <= r.tokens
    BY <1>2, <1>3, <1>4
  <2> QED BY <1>1, <1>4, <2>1, <2>2
<1>5. ASSUME NEW n \in Nat, r.tokens >= n, bucket' = Less(r, n),
             taken' = taken + n
      PROVE  \E m \in Nat : /\ m <= r.tokens
                            /\ bucket' = [r EXCEPT !.tokens = @ - m]
                            /\ taken' = taken + m
  BY <1>3, <1>5 DEF Less
<1>6. CASE Allow
  <2>1. \/ bucket' = r /\ UNCHANGED taken
        \/ r.tokens > 0 /\ bucket' = Less(r, 1) /\ taken' = taken + 1
    BY <1>6 DEF Allow
  <2>2. r.tokens > 0 => r.tokens >= 1
    BY <1>3
  <2> QED BY <1>1, <1>4, <1>5, <2>1, <2>2
<1>7. CASE Available
  BY <1>4, <1>7 DEF Available, watchVars
<1>8. ASSUME NEW n \in Requests, AllowN(n)
      PROVE  \/ bucket' = r /\ UNCHANGED taken
             \/ r.tokens >= n /\ bucket' = Less(r, n) /\ taken' = taken + n
  BY <1>8 DEF AllowN
<1> QED BY <1>1, <1>4, <1>5, <1>6, <1>7, <1>8, TokenBucketAssumption

\* A new bucket is full, as no bucket is counted: nothing is granted yet.
LEMMA CreateStep ==
  ASSUME IInv, Create
  PROVE  IInv'
<1>1. /\ bucket = NoBucket /\ bucket' = [tokens |-> Capacity, lastRefill |-> now]
      /\ UNCHANGED <<now, taken, watchFrom, periods>>
  BY DEF Create, NewTokenBucket, watchVars
<1>2. /\ now \in Nat /\ taken \in Nat /\ watchFrom \in Nat /\ periods \in Nat
      /\ Capacity \in Nat /\ watchFrom <= now /\ Per \in Nat \ {0}
  BY TokenBucketAssumption DEF IInv, TypeOK, ClockInv
<1>3. bucket' \in Bucket /\ bucket'.lastRefill = now /\ bucket'.tokens = Capacity
  BY <1>1, <1>2 DEF Bucket
<1>4. bucket' # NoBucket
  BY <1>3, NoBucketIsNone
<1>5. Refilled(bucket', now) = bucket'
  BY <1>2, <1>3, RefilledFresh
<1>6. TypeOK' /\ ClockInv'
  BY <1>1, <1>2, <1>3 DEF TypeOK, ClockInv
<1>7. Conservation'
  <2>1. TokensNow = Capacity
    BY <1>1 DEF TokensNow
  <2>2. TokensNow' = Capacity
    BY <1>1, <1>3, <1>4, <1>5 DEF TokensNow
  <2> QED BY <1>1, <2>1, <2>2 DEF IInv, Conservation
<1>8. PeriodsTakeTime'
  BY <1>1, <1>2 DEF IInv, PeriodsTakeTime
<1> QED BY <1>6, <1>7, <1>8 DEF IInv

\* A tick adds at most Rate to what a call would find, when it ends a period,
\* and such a tick is counted.
LEMMA TickStep ==
  ASSUME IInv, Tick
  PROVE  IInv'
<1>1. /\ now' = now + 1
      /\ UNCHANGED <<bucket, taken, watchFrom>>
      /\ periods' = IF /\ bucket # NoBucket
                       /\ WholePeriods(bucket, now + 1) > WholePeriods(bucket, now)
                      THEN periods + 1 ELSE periods
  BY DEF Tick
<1>2. /\ now \in Nat /\ taken \in Nat /\ watchFrom \in Nat /\ periods \in Nat
      /\ watchFrom <= now
      /\ bucket \in Bucket \union {NoBucket}
      /\ Capacity \in Nat \ {0} /\ Rate \in Nat \ {0} /\ Per \in Nat \ {0}
  BY TokenBucketAssumption DEF IInv, TypeOK, ClockInv
<1>3. CASE bucket = NoBucket
  <2>1. periods' = periods /\ TokensNow = Capacity /\ TokensNow' = Capacity
    BY <1>1, <1>3 DEF TokensNow
  <2>2. TypeOK' /\ ClockInv'
    BY <1>1, <1>2, <1>3, <2>1 DEF TypeOK, ClockInv
  <2>3. Conservation'
    BY <1>1, <2>1 DEF IInv, Conservation
  <2>4. PeriodsTakeTime'
    BY <1>1, <1>3, <2>1 DEF IInv, PeriodsTakeTime
  <2> QED BY <2>2, <2>3, <2>4 DEF IInv
<1>4. CASE bucket # NoBucket
  <2> DEFINE k == WholePeriods(bucket, now)
             l == WholePeriods(bucket, now + 1)
             x == bucket.tokens
             y == bucket.lastRefill
  <2>1. bucket \in Bucket /\ y <= now /\ now + 1 \in Nat /\ y <= now + 1
        /\ x \in Nat /\ x <= Capacity /\ y \in Nat
    BY <1>2, <1>4 DEF IInv, ClockInv, Bucket
  <2>2. k \in Nat /\ l \in Nat
    BY <2>1, <1>2, WholePeriodsBounds
  <2>3. \/ l = k
        \/ l = k + 1 /\ Per * l = (now + 1) - y
    BY <1>2, <2>1, TickPeriods
  <2>4. TokensNow = IF x + Rate * k < Capacity THEN x + Rate * k ELSE Capacity
    BY <1>2, <1>4, <2>1, RefilledFacts DEF TokensNow
  <2>5. TokensNow' = IF x + Rate * l < Capacity THEN x + Rate * l ELSE Capacity
    BY <1>1, <1>2, <1>4, <2>1, RefilledFacts DEF TokensNow
  <2>6. periods' = IF l > k THEN periods + 1 ELSE periods
    BY <1>1, <1>4
  <2>7. LastEnd = y + Per * k /\ LastEnd' = y + Per * l
    BY <1>1 DEF LastEnd
  <2> HIDE DEF k, l, x, y
  <2>8. TypeOK'
    BY <1>1, <1>2, <2>6 DEF TypeOK
  <2>9. ClockInv'
    BY <1>1, <1>2, <2>1 DEF ClockInv, y
  <2>10. Conservation'
    <3>1. CASE l = k
      <4>1. TokensNow' = TokensNow /\ periods' = periods
        BY <2>2, <2>4, <2>5, <2>6, <3>1
      <4> QED BY <1>1, <4>1 DEF IInv, Conservation
    <3>2. CASE l = k + 1
      <4>1. Rate * l = Rate * k + Rate /\ Rate * k \in Nat
        BY <1>2, <2>2, <3>2, TimesNat
      <4>2. Rate * (periods + 1) = Rate * periods + Rate /\ Rate * periods \in Nat
        BY <1>2, TimesNat
      <4>3. periods' = periods + 1
        BY <2>2, <2>6, <3>2
      <4>4. TokensNow' <= TokensNow + Rate /\ TokensNow \in Nat /\ TokensNow' \in Nat
        BY <1>2, <2>1, <2>4, <2>5, <4>1
      <4>5. taken + TokensNow <= Capacity + Rate * periods
        BY DEF IInv, Conservation
      <4>6. taken' + TokensNow' <= Capacity + (Rate * periods + Rate)
        BY <1>1, <1>2, <4>2, <4>4, <4>5, SumStep
      <4> QED BY <4>2, <4>3, <4>6 DEF Conservation
    <3> QED BY <2>3, <3>1, <3>2
  <2>11. PeriodsTakeTime'
    <3>1. CASE l = k
      BY <1>1, <2>2, <2>6, <2>7, <3>1 DEF IInv, PeriodsTakeTime
    <3>2. CASE l = k + 1 /\ Per * l = (now + 1) - y
      <4>1. LastEnd' = now + 1 /\ periods' = periods + 1 /\ LastEnd' = LastEnd + Per
            /\ LastEnd \in Nat
        <5>1. Per * l = Per * k + Per /\ Per * k \in Nat
          BY <1>2, <2>2, <3>2, TimesNat
        <5> QED BY <1>2, <2>1, <2>2, <2>6, <2>7, <3>2, <5>1
      <4>2. CASE periods = 0
        <5>1. Per * 0 = 0
          BY <1>2
        <5>2. periods' - 1 = 0
          BY <4>1, <4>2
        <5>3. Per * (periods' - 1) = 0
          BY <5>1, <5>2
        <5> QED BY <1>1, <1>2, <1>4, <4>1, <5>3 DEF PeriodsTakeTime
      <4>3. CASE periods > 0
        <5>1. watchFrom < LastEnd - Per * (periods - 1)
          BY <4>3 DEF IInv, PeriodsTakeTime
        <5>2. periods - 1 \in Nat /\ periods' - 1 = (periods - 1) + 1
          BY <1>2, <4>1, <4>3
        <5>3. Per * (periods' - 1) = Per * (periods - 1) + Per
              /\ Per * (periods - 1) \in Nat
          BY <1>2, <5>2, TimesNat
        <5>4. watchFrom < LastEnd' - Per * (periods' - 1)
          BY <1>2, <4>1, <5>1, <5>3
        <5> QED BY <1>1, <1>4, <5>4 DEF PeriodsTakeTime
      <4> QED BY <1>2, <4>2, <4>3
    <3> QED BY <2>3, <3>1, <3>2
  <2> QED BY <2>8, <2>9, <2>10, <2>11 DEF IInv
<1> QED BY <1>3, <1>4

\* A new watch has counted nothing, and no bucket holds more than Capacity.
LEMMA WatchStep ==
  ASSUME IInv, StartWatch
  PROVE  IInv'
<1>1. /\ taken' = 0 /\ periods' = 0 /\ watchFrom' = now
      /\ UNCHANGED <<bucket, now>>
  BY DEF StartWatch
<1>2. now \in Nat /\ bucket \in Bucket \union {NoBucket} /\ Capacity \in Nat
      /\ Rate * 0 = 0
  BY TokenBucketAssumption DEF IInv, TypeOK
<1>3. TypeOK' /\ ClockInv'
  BY <1>1, <1>2 DEF IInv, TypeOK, ClockInv
<1>4. TokensNow' \in 0..Capacity
  <2>1. CASE bucket = NoBucket
    BY <1>1, <1>2, <2>1 DEF TokensNow
  <2>2. CASE bucket # NoBucket
    <3>1. Refilled(bucket, now) \in Bucket
      BY <1>2, <2>2, RefilledFacts DEF IInv, ClockInv
    <3> QED BY <1>1, <2>2, <3>1 DEF TokensNow, Bucket
  <2> QED BY <2>1, <2>2
<1>5. Conservation'
  BY <1>1, <1>2, <1>4 DEF Conservation
<1>6. PeriodsTakeTime'
  BY <1>1 DEF PeriodsTakeTime
<1> QED BY <1>3, <1>5, <1>6 DEF IInv

LEMMA IInvStep ==
  ASSUME IInv, [Next]_vars
  PROVE  IInv'
<1>1. CASE UNCHANGED vars
  BY <1>1 DEF vars, watchVars, IInv, TypeOK, ClockInv, Conservation, TokensNow,
              PeriodsTakeTime, LastEnd
<1>2. CASE Allow \/ Available \/ \E n \in Requests : AllowN(n)
  BY <1>2, CallForm, CallStep
<1> QED BY <1>1, <1>2, CreateStep, TickStep, WatchStep DEF Next

LEMMA IInvInit == Init => IInv
<1> SUFFICES ASSUME Init PROVE IInv
  OBVIOUS
<1>1. TypeOK /\ ClockInv /\ PeriodsTakeTime
  BY DEF Init, TypeOK, ClockInv, PeriodsTakeTime
<1>2. TokensNow = Capacity /\ taken = 0 /\ Rate * periods = 0
  BY TokenBucketAssumption DEF Init, TokensNow
<1>3. Conservation
  BY <1>2, TokenBucketAssumption DEF Conservation
<1> QED BY <1>1, <1>3 DEF IInv

LEMMA IInvCorrect == Spec => []IInv
BY IInvInit, IInvStep, PTL DEF Spec

\* The bucket keeps its type: between no tokens and its capacity.
THEOREM TypeCorrect == Spec => []TypeOK
<1>1. IInv => TypeOK
  BY DEF IInv
<1> QED BY <1>1, IInvCorrect, PTL

\* Granted and grantable tokens come from one capacity and the periods ended.
THEOREM ConservationCorrect == Spec => []Conservation
<1>1. IInv => Conservation
  BY DEF IInv
<1> QED BY <1>1, IInvCorrect, PTL

\* p period ends take more than p - 1 periods.
LEMMA PeriodsBound ==
  ASSUME IInv
  PROVE  periods <= (now - watchFrom) \div Per + 1
<1> DEFINE a == now - watchFrom
           q == a \div Per
<1>1. /\ now \in Nat /\ watchFrom \in Nat /\ periods \in Nat
      /\ Per \in Nat \ {0} /\ a \in Nat
  BY TokenBucketAssumption DEF IInv, TypeOK, ClockInv
<1>2. q \in Nat /\ a < Per * q + Per
  BY <1>1, DivNat, DivAbove
<1>3. CASE periods = 0
  BY <1>2, <1>3
<1>4. CASE periods > 0
  <2>1. bucket # NoBucket /\ watchFrom < LastEnd - Per * (periods - 1)
    BY <1>4 DEF IInv, PeriodsTakeTime
  <2>2. /\ LastEnd <= now
        /\ LastEnd \in Nat
    <3>1. bucket \in Bucket /\ bucket.lastRefill <= now
      BY <2>1 DEF IInv, ClockInv
    <3>2. /\ Per * WholePeriods(bucket, now) <= now - bucket.lastRefill
          /\ Per * WholePeriods(bucket, now) \in Nat
      BY <1>1, <3>1, WholePeriodsBounds, TimesNat
    <3> QED BY <1>1, <3>1, <3>2 DEF LastEnd, Bucket
  <2> DEFINE m == periods - 1
  <2>3. m \in Nat /\ Per * m \in Nat
    BY <1>1, <1>4, TimesNat
  <2> HIDE DEF q
  <2>4. Per * m < a
    BY <1>1, <2>1, <2>2, <2>3
  <2>5. ~(q < m)
    <3> SUFFICES ASSUME q < m PROVE FALSE
      OBVIOUS
    <3>1. Per * q + Per <= Per * m
      BY <1>1, <1>2, <2>3, TimesLess
    <3>2. Per * q \in Nat
      BY <1>1, <1>2, TimesNat
    <3> QED BY <1>1, <1>2, <2>3, <2>4, <3>1, <3>2
  <2>6. periods <= q + 1
    BY <1>1, <1>2, <2>5
  <2> QED BY <2>6 DEF q
<1> QED BY <1>1, <1>3, <1>4

\* From any moment on, a bucket grants at most one capacity and Rate for each
\* period and one more.
THEOREM WindowBounded == Spec => []WindowBound
<1>1. IInv => WindowBound
  <2> SUFFICES ASSUME IInv PROVE WindowBound
    OBVIOUS
  <2> DEFINE q == (now - watchFrom) \div Per + 1
  <2>1. taken + TokensNow <= Capacity + Rate * periods
    BY DEF IInv, Conservation
  <2>2. TokensNow \in Nat /\ taken \in Nat /\ periods \in Nat
        /\ Rate \in Nat /\ Capacity \in Nat
    <3>1. bucket # NoBucket => Refilled(bucket, now) \in Bucket
      BY RefilledFacts DEF IInv, ClockInv, TypeOK
    <3> QED BY <3>1, TokenBucketAssumption DEF IInv, TypeOK, TokensNow, Bucket
  <2>3. periods <= q
    BY PeriodsBound
  <2>4. q \in Nat
    <3>1. now - watchFrom \in Nat
      BY DEF IInv, TypeOK, ClockInv
    <3> QED BY <3>1, TokenBucketAssumption, DivNat
  <2> HIDE DEF q
  <2>5. Rate * periods <= Rate * q /\ Rate * periods \in Nat /\ Rate * q \in Nat
    BY <2>2, <2>3, <2>4, TimesMonotone, TimesNat
  <2>6. taken <= Capacity + Rate * q
    BY <2>1, <2>2, <2>5
  <2> QED BY <2>6 DEF WindowBound, q
<1> QED BY <1>1, IInvCorrect, PTL

\* A call brings the bucket's clock to within a period of the present, and by
\* whole periods.
THEOREM RefillClockCorrect == Spec => RefillClock
<1>1. ASSUME IInv, [Next]_vars, bucket # NoBucket, bucket' # bucket
      PROVE  /\ now - bucket'.lastRefill \in 0 .. Per - 1
             /\ (bucket'.lastRefill - bucket.lastRefill) % Per = 0
  <2>1. Allow \/ Available \/ \E n \in Requests : AllowN(n)
    BY <1>1 DEF Next, Create, Tick, StartWatch, vars
  <2>2. /\ now - bucket'.lastRefill \in 0 .. Per - 1
        /\ bucket'.lastRefill - bucket.lastRefill
             = Per * WholePeriods(bucket, now)
    BY <1>1, <2>1, CallForm, CallStep
  <2>3. WholePeriods(bucket, now) \in Nat
    BY <1>1, WholePeriodsBounds DEF IInv, TypeOK, ClockInv
  <2> QED BY <2>2, <2>3, ModMultiple, TokenBucketAssumption
<1>2. IInv /\ [Next]_vars
        => [bucket # NoBucket /\ bucket' # bucket =>
              /\ now - bucket'.lastRefill \in 0 .. Per - 1
              /\ (bucket'.lastRefill - bucket.lastRefill) % Per = 0]_vars
  BY <1>1
<1> QED BY <1>2, IInvCorrect, PTL DEF Spec, RefillClock
=============================================================================
