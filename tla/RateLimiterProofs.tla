------------------------- MODULE RateLimiterProofs --------------------------
(***************************************************************************)
(* The per-service limiter, for every set of handlers and services: one     *)
(* bucket per service, and a service's calls are those of one TokenBucket.  *)
(* The bound on any interval then is TokenBucketProofs' own theorem.        *)
(***************************************************************************)
EXTENDS RateLimiter, SequenceTheorems, TLAPS

TBP == INSTANCE TokenBucketProofs WITH bucket <- Current(Watched)

\* No bucket is ahead of the clock.
ClockInv ==
  \A s \in Services : created[s] # <<>> => created[s][1].lastRefill <= now

IInv == TypeOK /\ OneBucket /\ ClockInv /\ now \in Nat

LEMMA BucketAssumption == TBP!TokenBucketAssumption
BY TokenBucketAssumption DEF TBP!TokenBucketAssumption

\* TokenBucket means the same in both instances.
LEMMA SameBucket ==
  /\ TB!Bucket = TBP!Bucket
  /\ \A b, t : TB!Refilled(b, t) = TBP!Refilled(b, t)
BY Zenon DEF TB!Bucket, TBP!Bucket, TB!Refilled, TBP!Refilled, TB!WholePeriods,
   TBP!WholePeriods

LEMMA RefilledOK ==
  ASSUME NEW b \in TB!Bucket, NEW t \in Nat, b.lastRefill <= t
  PROVE  TB!Refilled(b, t) \in TB!Bucket /\ TB!Refilled(b, t).lastRefill <= t
BY BucketAssumption, SameBucket, TBP!RefilledFacts

\* A sequence of one element.
LEMMA Singleton ==
  ASSUME NEW S, NEW x \in S
  PROVE  <<x>> \in Seq(S) /\ Len(<<x>>) = 1 /\ <<x>>[1] = x /\ <<x>> # <<>>
OBVIOUS

LEMMA OnlyElement ==
  ASSUME NEW S, NEW q \in Seq(S), Len(q) = 1
  PROVE  q[1] \in S /\ q # <<>>
OBVIOUS

LEMMA SingletonExcept ==
  ASSUME NEW S, NEW q \in Seq(S), Len(q) = 1, NEW x \in S
  PROVE  [q EXCEPT ![1] = x] = <<x>>
OBVIOUS

LEMMA ExactlyOne ==
  ASSUME NEW n \in Nat \ {0}, n <= 1
  PROVE  n = 1
OBVIOUS

LEMMA NoneOrOne ==
  ASSUME NEW S, NEW q \in Seq(S), Len(q) <= 1
  PROVE  q = <<>> \/ Len(q) = 1
<1>1. q # <<>> => Len(q) \in Nat \ {0}
  BY EmptySeq
<1>2. CASE q = <<>>
  BY <1>2, Zenon
<1>3. CASE q # <<>>
  <2>1. Len(q) \in Nat \ {0}
    BY <1>1, <1>3, Zenon
  <2>2. Len(q) = 1
    BY <2>1, ExactlyOne, Zenon
  <2> QED BY <2>2, Zenon
<1> QED BY <1>2, <1>3, Zenon

-----------------------------------------------------------------------------
(***************************************************************************)
(* Calls on a held bucket                                                  *)
(***************************************************************************)

\* What a handler that holds a bucket holds.
LEMMA HeldBucket ==
  ASSUME IInv, NEW h \in Handlers, pc[h] = "holding"
  PROVE  /\ service[h] \in Services
         /\ held[h] = 1
         /\ created[service[h]] \in Seq(TB!Bucket)
         /\ Len(created[service[h]]) = 1
         /\ created[service[h]] # <<>>
         /\ created[service[h]][1] \in TB!Bucket
         /\ created[service[h]][1].lastRefill <= now
         /\ HeldRefilled(h) = TB!Refilled(created[service[h]][1], now)
         /\ HeldRefilled(h) \in TB!Bucket
         /\ HeldRefilled(h).lastRefill <= now
<1> DEFINE s == service[h]
<1>1. s \in Services /\ created[s] \in Seq(TB!Bucket) /\ now \in Nat
  BY DEF IInv, TypeOK
<1>2. held[h] = 1 /\ Len(created[s]) = 1
  BY DEF IInv, OneBucket
<1>3. created[s] # <<>> /\ created[s][1] \in TB!Bucket
  BY <1>1, <1>2, OnlyElement
<1>4. created[s][1].lastRefill <= now
  BY <1>1, <1>3 DEF IInv, ClockInv
<1>5. HeldRefilled(h) = TB!Refilled(created[s][1], now)
  BY <1>2 DEF HeldRefilled
<1> QED BY <1>1, <1>2, <1>3, <1>4, <1>5, RefilledOK

\* A call writes back a bucket b that is not ahead of the clock.
LEMMA WriteBack ==
  ASSUME IInv, NEW h \in Handlers, pc[h] = "holding",
         NEW b \in TB!Bucket, b.lastRefill <= now,
         created' = [created EXCEPT ![service[h]][held[h]] = b],
         pc' = [pc EXCEPT ![h] = "idle"],
         UNCHANGED <<now, service, held>>
  PROVE  /\ IInv'
         /\ created' = [created EXCEPT ![service[h]] = <<b>>]
<1> DEFINE s == service[h]
           q == created[s]
<1>1. /\ s \in Services /\ held[h] = 1
      /\ q \in Seq(TB!Bucket) /\ Len(q) = 1
  BY HeldBucket
<1>2. [q EXCEPT ![1] = b] = <<b>>
  BY <1>1, SingletonExcept
<1>3. created' = [created EXCEPT ![s] = [q EXCEPT ![1] = b]]
  BY <1>1
<1>4. created' = [created EXCEPT ![s] = <<b>>]
  BY <1>2, <1>3
<1>5. <<b>> \in Seq(TB!Bucket) /\ Len(<<b>>) = 1 /\ <<b>>[1] = b
  BY Singleton
<1>6. /\ created \in [Services -> Seq(TB!Bucket)]
      /\ pc \in [Handlers -> {"idle", "missing", "holding"}]
      /\ service \in [Handlers -> Services]
      /\ held \in [Handlers -> Nat]
      /\ now \in Nat
  BY DEF IInv, TypeOK
<1> HIDE DEF q, s
<1> DEFINE one == <<b>>
<1> HIDE DEF one
<1>7. /\ one \in Seq(TB!Bucket) /\ Len(one) = 1 /\ one[1] = b
      /\ created' = [created EXCEPT ![s] = one]
  BY <1>4, <1>5 DEF one
<1>8. created' \in [Services -> Seq(TB!Bucket)]
  BY <1>1, <1>6, <1>7
<1>9. TypeOK'
  BY <1>6, <1>8 DEF TypeOK
<1>10. \A x \in Services : created'[x] = IF x = s THEN one ELSE created[x]
  BY <1>6, <1>7
<1>11. OneBucket'
  BY <1>6, <1>7, <1>10 DEF IInv, OneBucket
<1>12. ClockInv'
  BY <1>6, <1>7, <1>10 DEF IInv, ClockInv
<1> QED BY <1>4, <1>6, <1>9, <1>11, <1>12 DEF IInv, s

\* Allow spends the first token, or only refills.
LEMMA CallAllowStep ==
  ASSUME IInv, NEW h \in Handlers, CallAllow(h)
  PROVE  /\ IInv'
         /\ created' = [created EXCEPT ![service[h]] =
                         <<IF HeldRefilled(h).tokens > 0
                             THEN TB!Less(HeldRefilled(h), 1) ELSE HeldRefilled(h)>>]
<1> DEFINE b == HeldRefilled(h)
           r == IF b.tokens > 0 THEN TB!Less(b, 1) ELSE b
<1>1. pc[h] = "holding"
  BY DEF CallAllow
<1>2. b \in TB!Bucket /\ b.lastRefill <= now
  BY <1>1, HeldBucket
<1>3. /\ created' = [created EXCEPT ![service[h]][held[h]] = r]
      /\ pc' = [pc EXCEPT ![h] = "idle"]
      /\ UNCHANGED <<now, service, held>>
  BY DEF CallAllow
<1> HIDE DEF b
<1>4. r \in TB!Bucket /\ r.lastRefill <= now
  BY <1>2, RateLimiterAssumption, TokenBucketAssumption DEF TB!Bucket, TB!Less
<1> HIDE DEF r
<1>5. IInv' /\ created' = [created EXCEPT ![service[h]] = <<r>>]
  BY <1>1, <1>3, <1>4, WriteBack
<1> QED BY <1>5 DEF r, b

LEMMA CallAvailableStep ==
  ASSUME IInv, NEW h \in Handlers, CallAvailable(h)
  PROVE  /\ IInv'
         /\ created' = [created EXCEPT ![service[h]] = <<HeldRefilled(h)>>]
<1>1. pc[h] = "holding"
  BY DEF CallAvailable
<1>2. HeldRefilled(h) \in TB!Bucket /\ HeldRefilled(h).lastRefill <= now
  BY <1>1, HeldBucket
<1>3. /\ created' = [created EXCEPT ![service[h]][held[h]] = HeldRefilled(h)]
      /\ pc' = [pc EXCEPT ![h] = "idle"]
      /\ UNCHANGED <<now, service, held>>
  BY DEF CallAvailable
<1> QED BY <1>1, <1>2, <1>3, WriteBack

-----------------------------------------------------------------------------
(***************************************************************************)
(* One bucket per service                                                  *)
(***************************************************************************)

LEMMA InitInvariant == Init => IInv
<1> SUFFICES ASSUME Init PROVE IInv
  OBVIOUS
<1>1. <<>> \in Seq(TB!Bucket) /\ Len(<<>>) = 0
  BY EmptySeq
<1>2. TypeOK
  BY <1>1, RateLimiterAssumption, TokenBucketAssumption DEF Init, TypeOK
<1>3. OneBucket
  BY <1>1 DEF Init, OneBucket
<1>4. ClockInv /\ now \in Nat
  BY DEF Init, ClockInv
<1> QED BY <1>2, <1>3, <1>4 DEF IInv

\* A second handler of a new service finds the bucket of the first.
LEMMA InsertStep ==
  ASSUME IInv, NEW h \in Handlers, Insert(h)
  PROVE  /\ IInv'
         /\ \/ created' = created
            \/ /\ created[service[h]] = <<>>
               /\ created' = [created EXCEPT ![service[h]] =
                               <<TB!NewTokenBucket(now)>>]
<1> DEFINE s == service[h]
           one == <<TB!NewTokenBucket(now)>>
<1>1. /\ created \in [Services -> Seq(TB!Bucket)]
      /\ pc \in [Handlers -> {"idle", "missing", "holding"}]
      /\ service \in [Handlers -> Services]
      /\ held \in [Handlers -> Nat]
      /\ now \in Nat /\ s \in Services
  BY DEF IInv, TypeOK
<1>2. \A x \in Services : created[x] = <<>> \/ Len(created[x]) = 1
  BY <1>1, NoneOrOne DEF IInv, OneBucket
<1>3. TB!NewTokenBucket(now) \in TB!Bucket /\ TB!NewTokenBucket(now).lastRefill = now
  BY <1>1, RateLimiterAssumption, TokenBucketAssumption DEF TB!NewTokenBucket, TB!Bucket
<1>4. one \in Seq(TB!Bucket) /\ Len(one) = 1 /\ one[1].lastRefill = now
  BY <1>3, Singleton
<1>5. /\ created' = IF created[s] = <<>> THEN [created EXCEPT ![s] = one] ELSE created
      /\ held' = [held EXCEPT ![h] = Len(created'[s])]
      /\ pc' = [pc EXCEPT ![h] = "holding"]
      /\ now' = now /\ service' = service
  BY DEF Insert
<1> HIDE DEF s, one
<1>6. created' \in [Services -> Seq(TB!Bucket)]
  BY <1>1, <1>4, <1>5
<1>7. Len(created'[s]) = 1
  BY <1>1, <1>2, <1>4, <1>5
<1>8. TypeOK'
  BY <1>1, <1>5, <1>6, <1>7 DEF TypeOK
<1>9. \A x \in Services :
        \/ created'[x] = created[x]
        \/ x = s /\ created'[x] = one /\ created[s] = <<>>
  BY <1>1, <1>5
<1>10. OneBucket'
  <2>1. ASSUME NEW x \in Services
        PROVE  Len(created'[x]) <= 1
    <3>1. Len(created[x]) <= 1 /\ Len(one) <= 1
      BY <1>4 DEF IInv, OneBucket
    <3> QED BY <1>9, <3>1, Zenon
  <2>2. ASSUME NEW g \in Handlers, pc'[g] = "holding"
        PROVE  held'[g] = 1 /\ Len(created'[service'[g]]) = 1
    <3>1. CASE g = h
      BY <1>1, <1>5, <1>7, <3>1 DEF s
    <3>2. CASE g # h
      <4>1. pc[g] = "holding" /\ held'[g] = held[g] /\ service[g] \in Services
        BY <1>1, <1>5, <2>2, <3>2
      <4>2. held[g] = 1 /\ Len(created[service[g]]) = 1
        BY <4>1 DEF IInv, OneBucket
      <4>3. Len(created'[service[g]]) = 1
        BY <1>4, <1>9, <4>1, <4>2
      <4> QED BY <1>5, <4>1, <4>2, <4>3
    <3> QED BY <3>1, <3>2
  <2> QED BY <2>1, <2>2 DEF OneBucket
<1>11. ClockInv'
  BY <1>1, <1>4, <1>5, <1>9 DEF IInv, ClockInv
<1> QED BY <1>1, <1>5, <1>8, <1>10, <1>11 DEF IInv, s, one

\* The invariant is kept, and what a step does to the buckets.
LEMMA NextInvariant ==
  ASSUME IInv, [Next]_vars
  PROVE  IInv'
<1>1. /\ created \in [Services -> Seq(TB!Bucket)]
      /\ pc \in [Handlers -> {"idle", "missing", "holding"}]
      /\ service \in [Handlers -> Services]
      /\ held \in [Handlers -> Nat]
      /\ now \in Nat
  BY DEF IInv, TypeOK
<1>2. ASSUME NEW h \in Handlers, NEW s \in Services, Lookup(h, s)
      PROVE  IInv'
  <2>1. /\ service' = [service EXCEPT ![h] = s]
        /\ pc' = [pc EXCEPT ![h] = IF created[s] = <<>> THEN "missing" ELSE "holding"]
        /\ held' = [held EXCEPT ![h] = Len(created[s])]
        /\ created' = created /\ now' = now
    BY <1>2 DEF Lookup
  <2>2. Len(created[s]) \in Nat /\ (created[s] = <<>> \/ Len(created[s]) = 1)
    BY <1>1, NoneOrOne DEF IInv, OneBucket
  <2>3. TypeOK'
    BY <1>1, <2>1, <2>2 DEF TypeOK
  <2>4. OneBucket'
    BY <1>1, <2>1, <2>2 DEF IInv, OneBucket
  <2>5. ClockInv'
    BY <1>1, <2>1 DEF IInv, ClockInv
  <2> QED BY <1>1, <2>1, <2>3, <2>4, <2>5 DEF IInv
<1>3. ASSUME NEW h \in Handlers, Insert(h)
      PROVE  IInv'
  BY <1>3, InsertStep
<1>4. ASSUME NEW h \in Handlers, CallAllow(h)
      PROVE  IInv'
  BY <1>4, CallAllowStep
<1>5. ASSUME NEW h \in Handlers, CallAvailable(h)
      PROVE  IInv'
  BY <1>5, CallAvailableStep
<1>6. CASE Tick
  <2>1. UNCHANGED <<created, pc, service, held>> /\ now' = now + 1
    BY <1>6 DEF Tick, callVars
  <2>2. TypeOK' /\ OneBucket' /\ now' \in Nat
    BY <1>1, <2>1 DEF IInv, TypeOK, OneBucket
  <2>3. ClockInv'
    <3>1. ASSUME NEW s \in Services, created[s] # <<>>
          PROVE  created[s][1].lastRefill \in Nat
      <4>1. created[s] \in Seq(TB!Bucket) /\ Len(created[s]) <= 1
        BY <1>1 DEF IInv, OneBucket
      <4>2. created[s][1] \in TB!Bucket
        BY <3>1, <4>1, NoneOrOne, OnlyElement, Zenon
      <4> QED BY <4>2 DEF TB!Bucket
    <3> QED BY <1>1, <2>1, <3>1 DEF IInv, ClockInv
  <2> QED BY <2>2, <2>3 DEF IInv
<1>7. CASE StartWatch \/ UNCHANGED vars
  <2>1. UNCHANGED <<created, pc, service, held, now>>
    BY <1>7 DEF StartWatch, vars, callVars
  <2> QED BY <2>1, <1>1 DEF IInv, TypeOK, OneBucket, ClockInv
<1> QED BY <1>2, <1>3, <1>4, <1>5, <1>6, <1>7 DEF Next

(***************************************************************************)
(* Type correctness: a bucket of any service, whichever handler races for   *)
(* it, holds between none and Capacity tokens.                              *)
(***************************************************************************)
THEOREM TypeCorrect == Spec => []TypeOK
<1>1. Init => IInv
  BY InitInvariant
<1>2. IInv /\ [Next]_vars => IInv'
  BY NextInvariant
<1>3. IInv => TypeOK
  BY DEF IInv
<1> QED BY <1>1, <1>2, <1>3, PTL DEF Spec

(***************************************************************************)
(* getBucket's second look keeps one bucket per service, and no handler     *)
(* holds another.                                                           *)
(***************************************************************************)
THEOREM OneBucketCorrect == Spec => []OneBucket
<1>1. Init => IInv
  BY InitInvariant
<1>2. IInv /\ [Next]_vars => IInv'
  BY NextInvariant
<1>3. IInv => OneBucket
  BY DEF IInv
<1> QED BY <1>1, <1>2, <1>3, PTL DEF Spec

-----------------------------------------------------------------------------
(***************************************************************************)
(* One service's bucket is a TokenBucket                                   *)
(***************************************************************************)

\* The current bucket of a service that has one.
LEMMA CurrentBucket ==
  ASSUME IInv, NEW s \in Services
  PROVE  /\ created[s] = <<>> => Current(s) = NoBucket
         /\ created[s] # <<>> => /\ Current(s) = created[s][1]
                                 /\ Current(s) # NoBucket
<1>1. created[s] \in Seq(TB!Bucket) /\ Len(created[s]) <= 1
  BY DEF IInv, TypeOK, OneBucket
<1>2. CASE created[s] = <<>>
  BY <1>2, Zenon DEF Current
<1>3. CASE created[s] # <<>>
  <2>1. Len(created[s]) = 1 /\ created[s][1] \in TB!Bucket
    BY <1>1, <1>3, NoneOrOne, OnlyElement, Zenon
  <2>2. Current(s) = created[s][1]
    BY <1>3, <2>1, Zenon DEF Current
  <2>3. NoBucket \notin TB!Bucket
    BY DEF NoBucket, TB!Bucket
  <2> QED BY <1>3, <2>1, <2>2, <2>3, Zenon
<1> QED BY <1>2, <1>3, Zenon

\* A step that replaces the bucket of s by b.
LEMMA CurrentAfter ==
  ASSUME IInv, NEW s \in Services, NEW b,
         created' = [created EXCEPT ![s] = <<b>>]
  PROVE  Current(Watched)' = IF s = Watched THEN b ELSE Current(Watched)
<1> DEFINE one == <<b>>
<1>1. one # <<>> /\ Len(one) = 1 /\ one[1] = b
  OBVIOUS
<1>2. created' = [created EXCEPT ![s] = one]
  OBVIOUS
<1> HIDE DEF one
<1>3. created'[Watched] = IF s = Watched THEN one ELSE created[Watched]
  BY <1>2, RateLimiterAssumption, TokenBucketAssumption DEF IInv, TypeOK
<1> QED BY <1>1, <1>3 DEF Current

LEMMA InitBucket == Init => TB!Init
BY RateLimiterAssumption, TokenBucketAssumption DEF Init, TB!Init, Current, NoBucket, TB!NoBucket

LEMMA StepBucket ==
  ASSUME IInv, [Next]_vars
  PROVE  [TB!Next]_(TB!vars)
<1> DEFINE W == Current(Watched)
<1>1. NoBucket = TB!NoBucket
  BY DEF NoBucket, TB!NoBucket
<1>2. ASSUME UNCHANGED <<created, now, taken, watchFrom, periods>>
      PROVE  UNCHANGED TB!vars
  BY <1>2 DEF TB!vars, TB!watchVars, Current
<1>3. ASSUME NEW h \in Handlers, Insert(h)
      PROVE  [TB!Next]_(TB!vars)
  <2>1. UNCHANGED <<now, taken, watchFrom, periods>>
    BY <1>3 DEF Insert, watchVars
  <2>2. CASE created' = created
    BY <1>2, <2>1, <2>2
  <2>3. CASE /\ created[service[h]] = <<>>
             /\ created' = [created EXCEPT ![service[h]] =
                             <<TB!NewTokenBucket(now)>>]
    <3>1. service[h] \in Services
      BY DEF IInv, TypeOK
    <3>2. W' = IF service[h] = Watched THEN TB!NewTokenBucket(now) ELSE W
      BY <2>3, <3>1, CurrentAfter
    <3>3. CASE service[h] = Watched
      <4>1. W = NoBucket /\ W' = TB!NewTokenBucket(now)
        BY <2>3, <3>1, <3>2, <3>3, CurrentBucket
      <4> QED BY <1>1, <2>1, <4>1, Zenon DEF TB!Next, TB!Create, TB!watchVars
    <3>4. CASE service[h] # Watched
      BY <2>1, <3>2, <3>4, Zenon DEF TB!vars, TB!watchVars
    <3> QED BY <3>3, <3>4
  <2> QED BY <1>3, <2>2, <2>3, InsertStep
<1>4. ASSUME NEW h \in Handlers, CallAllow(h)
      PROVE  [TB!Next]_(TB!vars)
  <2> DEFINE b == HeldRefilled(h)
  <2>1. /\ UNCHANGED <<now, watchFrom, periods>>
        /\ taken' = IF b.tokens > 0 /\ service[h] = Watched THEN taken + 1 ELSE taken
        /\ pc[h] = "holding"
    BY <1>4 DEF CallAllow
  <2>2. /\ service[h] \in Services
        /\ created[service[h]] # <<>>
        /\ b = TB!Refilled(created[service[h]][1], now)
    BY <2>1, HeldBucket
  <2>3. W' = IF service[h] = Watched
               THEN IF b.tokens > 0 THEN TB!Less(b, 1) ELSE b
               ELSE W
    BY <1>4, <2>2, CallAllowStep, CurrentAfter
  <2> HIDE DEF b
  <2>4. CASE service[h] = Watched
    <3>1. W # NoBucket /\ b = TB!Refilled(W, now)
      BY <2>2, <2>4, CurrentBucket
    <3>2. TB!Allow
      BY <1>1, <2>1, <2>3, <2>4, <3>1, Zenon DEF TB!Allow
    <3> QED BY <3>2, Zenon DEF TB!Next
  <2>5. CASE service[h] # Watched
    BY <2>1, <2>3, <2>5, Zenon DEF TB!vars, TB!watchVars
  <2> QED BY <2>4, <2>5
<1>5. ASSUME NEW h \in Handlers, CallAvailable(h)
      PROVE  [TB!Next]_(TB!vars)
  <2>1. UNCHANGED <<now, taken, watchFrom, periods>> /\ pc[h] = "holding"
    BY <1>5 DEF CallAvailable, watchVars
  <2>2. /\ service[h] \in Services
        /\ created[service[h]] # <<>>
        /\ HeldRefilled(h) = TB!Refilled(created[service[h]][1], now)
    BY <2>1, HeldBucket
  <2>3. W' = IF service[h] = Watched THEN HeldRefilled(h) ELSE W
    BY <1>5, <2>2, CallAvailableStep, CurrentAfter
  <2>4. CASE service[h] = Watched
    <3>1. W # NoBucket /\ W' = TB!Refilled(W, now)
      BY <2>2, <2>3, <2>4, CurrentBucket
    <3> QED BY <1>1, <2>1, <3>1, Zenon DEF TB!Next, TB!Available, TB!watchVars
  <2>5. CASE service[h] # Watched
    BY <2>1, <2>3, <2>5, Zenon DEF TB!vars, TB!watchVars
  <2> QED BY <2>4, <2>5
<1>6. CASE Tick
  <2>1. W' = W
    BY <1>6 DEF Tick, Current
  <2> QED BY <1>1, <1>6, <2>1, Zenon DEF Tick, TB!Next, TB!Tick
<1>7. CASE StartWatch
  <2>1. W' = W
    BY <1>7 DEF StartWatch, Current
  <2> QED BY <1>7, <2>1, Zenon DEF StartWatch, TB!Next, TB!StartWatch
<1>8. CASE UNCHANGED vars \/ \E h \in Handlers, s \in Services : Lookup(h, s)
  BY <1>2, <1>8 DEF vars, watchVars, Lookup
<1> QED BY <1>3, <1>4, <1>5, <1>6, <1>7, <1>8 DEF Next

(***************************************************************************)
(* The limiter implements a token bucket for each service: what handlers do *)
(* to a service's bucket together is what callers of one TokenBucket do.    *)
(***************************************************************************)
THEOREM LimiterIsTokenBucket == Spec => IsTokenBucket
<1>1. Init => IInv
  BY InitInvariant
<1>2. IInv /\ [Next]_vars => IInv'
  BY NextInvariant
<1>3. Init => TB!Init
  BY InitBucket
<1>4. IInv /\ [Next]_vars => [TB!Next]_(TB!vars)
  BY StepBucket
<1> QED BY <1>1, <1>2, <1>3, <1>4, PTL DEF Spec, IsTokenBucket, TB!Spec

\* The formulas of the two instances are the same.
LEMMA SameInit == TB!Init => TBP!Init
BY Zenon DEF TB!Init, TBP!Init, TB!NoBucket, TBP!NoBucket

LEMMA SameStep == [TB!Next]_(TB!vars) => [TBP!Next]_(TBP!vars)
BY Zenon DEF TB!Next, TB!Create, TB!AllowN, TB!Allow, TB!Available, TB!Tick,
   TB!StartWatch, TB!vars, TB!watchVars, TB!NoBucket, TB!NewTokenBucket, TB!Less,
   TB!Refilled, TB!WholePeriods,
   TBP!Next, TBP!Create, TBP!AllowN, TBP!Allow, TBP!Available, TBP!Tick,
   TBP!StartWatch, TBP!vars, TBP!watchVars, TBP!NoBucket, TBP!NewTokenBucket,
   TBP!Less, TBP!Refilled, TBP!WholePeriods

(***************************************************************************)
(* What all handlers together are granted for one service in any interval:  *)
(* the bound of one bucket, by the refinement.                              *)
(***************************************************************************)
THEOREM ServiceWindowBounded == Spec => []ServiceWindowBound
<1>1. Init => IInv
  BY InitInvariant
<1>2. IInv /\ [Next]_vars => IInv'
  BY NextInvariant
<1>3. Init => TBP!Init
  BY InitBucket, SameInit
<1>4. IInv /\ [Next]_vars => [TBP!Next]_(TBP!vars)
  BY StepBucket, SameStep
<1>5. TBP!Spec => []TBP!WindowBound
  BY BucketAssumption, TBP!WindowBounded
<1>6. TBP!WindowBound => ServiceWindowBound
  BY DEF TBP!WindowBound, ServiceWindowBound, TB!WindowBound
<1> QED BY <1>1, <1>2, <1>3, <1>4, <1>5, <1>6, PTL DEF Spec, TBP!Spec

(***************************************************************************)
(* Handlers' calls at any moments keep a service's bucket a whole number of *)
(* periods behind the present, less than one after a call.                  *)
(***************************************************************************)
THEOREM ServiceRefillClockCorrect == Spec => ServiceRefillClock
<1>1. Init => IInv
  BY InitInvariant
<1>2. IInv /\ [Next]_vars => IInv'
  BY NextInvariant
<1>3. Init => TBP!Init
  BY InitBucket, SameInit
<1>4. IInv /\ [Next]_vars => [TBP!Next]_(TBP!vars)
  BY StepBucket, SameStep
<1>5. TBP!Spec => TBP!RefillClock
  BY BucketAssumption, TBP!RefillClockCorrect
<1>6. TBP!RefillClock => ServiceRefillClock
  <2> DEFINE W == Current(Watched)
             Steady(none) ==
               W # none /\ W' # W =>
                 /\ now - W'.lastRefill \in 0 .. Per - 1
                 /\ (W'.lastRefill - W.lastRefill) % Per = 0
  <2>1. [Steady(TBP!NoBucket)]_(TBP!vars) => [Steady(TB!NoBucket)]_(TB!vars)
    BY Zenon DEF TBP!NoBucket, TB!NoBucket, TBP!vars, TB!vars, TBP!watchVars, TB!watchVars
  <2> QED BY <2>1, PTL DEF TBP!RefillClock, ServiceRefillClock, TB!RefillClock
<1> QED BY <1>1, <1>2, <1>3, <1>4, <1>5, <1>6, PTL DEF Spec, TBP!Spec
=============================================================================
