---------------------------- MODULE RateLimiter -----------------------------
(***************************************************************************)
(* The gateway's per-service rate limiter: PerServiceLimiter of             *)
(* gateway/ratelimiter/token_bucket.go, called by any number of RPC         *)
(* handlers at once.                                                        *)
(*                                                                          *)
(* getBucket looks a bucket up under the read lock, lets go of it, and only *)
(* then takes the write lock to insert a missing one: another handler can   *)
(* insert between the two.  The bucket it returns is used after both locks  *)
(* are free, under the bucket's own mutex.  created[s] is every bucket ever *)
(* made for service s, the last one the entry of l.buckets; a handler holds *)
(* its bucket by position, as it does by pointer.                           *)
(*                                                                          *)
(* What one bucket does is TokenBucket, of which this module is shown to be *)
(* an implementation for any one service, Watched.                          *)
(***************************************************************************)
EXTENDS BucketParameters, Sequences

CONSTANTS
  Handlers,              \* the RPC handlers at work at one time
  Services,              \* the services that send telemetry
  Watched                \* the service whose grants are counted

ASSUME RateLimiterAssumption == Watched \in Services

VARIABLES
  created,     \* created[s]: the buckets made for service s, oldest first
  now,         \* time.Now()
  pc,          \* pc[h]: "idle", "missing" or "holding"
  service,     \* service[h]: the service that handler h was called for
  held,        \* held[h]: the position in created of the bucket h holds
  taken, watchFrom, periods   \* history of Watched, see TokenBucket

callVars == <<pc, service, held>>
watchVars == <<taken, watchFrom, periods>>
vars == <<created, now, callVars, watchVars>>

NoBucket == [tokens |-> 0, lastRefill |-> -1]

\* The bucket that l.buckets holds for service s.
Current(s) ==
  IF created[s] = <<>> THEN NoBucket ELSE created[s][Len(created[s])]

\* One service's bucket.
TB == INSTANCE TokenBucket WITH bucket <- Current(Watched)

TypeOK ==
  /\ created \in [Services -> Seq(TB!Bucket)]
  /\ now \in Nat
  /\ pc \in [Handlers -> {"idle", "missing", "holding"}]
  /\ service \in [Handlers -> Services]
  /\ held \in [Handlers -> Nat]

Init ==
  /\ created = [s \in Services |-> <<>>]
  /\ pc = [h \in Handlers |-> "idle"]
  /\ service = [h \in Handlers |-> Watched]
  /\ held = [h \in Handlers |-> 0]
  /\ now = 0
  /\ taken = 0
  /\ watchFrom = 0
  /\ periods = 0

-----------------------------------------------------------------------------

\* getBucket(s), first half: under l.mu.RLock.
Lookup(h, s) ==
  /\ pc[h] = "idle"
  /\ service' = [service EXCEPT ![h] = s]
  /\ pc' = [pc EXCEPT ![h] = IF created[s] = <<>> THEN "missing" ELSE "holding"]
  /\ held' = [held EXCEPT ![h] = Len(created[s])]
  /\ UNCHANGED <<created, now, watchVars>>

\* Bug variant: the write lock inserts without looking again.
InsertUnchecked(h) ==
  LET s == service[h] IN
  /\ pc[h] = "missing"
  /\ created' = [created EXCEPT ![s] = Append(@, TB!NewTokenBucket(now))]
  /\ held' = [held EXCEPT ![h] = Len(created'[s])]
  /\ pc' = [pc EXCEPT ![h] = "holding"]
  /\ UNCHANGED <<now, service, watchVars>>

\* getBucket(s), second half: under l.mu.Lock, looks again.
Insert(h) ==
  LET s == service[h] IN
  /\ pc[h] = "missing"
  /\ created' = IF created[s] = <<>>
                  THEN [created EXCEPT ![s] = <<TB!NewTokenBucket(now)>>]
                  ELSE created
  /\ held' = [held EXCEPT ![h] = Len(created'[s])]
  /\ pc' = [pc EXCEPT ![h] = "holding"]
  /\ UNCHANGED <<now, service, watchVars>>

\* Bug variant: the bucket is used without refill().
HeldStale(h) == created[service[h]][held[h]]

\* The bucket that handler h holds, after refill().
HeldRefilled(h) == TB!Refilled(created[service[h]][held[h]], now)

\* Allow(s), once it has its bucket.
CallAllow(h) ==
  LET b == HeldRefilled(h)
      granted == b.tokens > 0
  IN
  /\ pc[h] = "holding"
  /\ created' = [created EXCEPT ![service[h]][held[h]] =
                   IF granted THEN TB!Less(b, 1) ELSE b]
  /\ taken' = IF granted /\ service[h] = Watched THEN taken + 1 ELSE taken
  /\ pc' = [pc EXCEPT ![h] = "idle"]
  /\ UNCHANGED <<now, service, held, watchFrom, periods>>

\* Available(s), once it has its bucket.
CallAvailable(h) ==
  /\ pc[h] = "holding"
  /\ created' = [created EXCEPT ![service[h]][held[h]] = HeldRefilled(h)]
  /\ pc' = [pc EXCEPT ![h] = "idle"]
  /\ UNCHANGED <<now, service, held, watchVars>>

\* As in TokenBucket, for the bucket of Watched.
Tick ==
  LET b == Current(Watched) IN
  /\ now < MaxNow
  /\ now' = now + 1
  /\ periods' = IF b # NoBucket /\ TB!WholePeriods(b, now + 1) > TB!WholePeriods(b, now)
                  THEN periods + 1 ELSE periods
  /\ UNCHANGED <<created, callVars, taken, watchFrom>>

\* History only: a watch begins.
StartWatch ==
  /\ taken' = 0
  /\ watchFrom' = now
  /\ periods' = 0
  /\ UNCHANGED <<created, now, callVars>>

Next ==
  \/ \E h \in Handlers, s \in Services : Lookup(h, s)
  \/ \E h \in Handlers : Insert(h) \/ CallAllow(h) \/ CallAvailable(h)
  \/ Tick
  \/ StartWatch

Spec == Init /\ [][Next]_vars

-----------------------------------------------------------------------------
(***************************************************************************)
(* Properties                                                              *)
(***************************************************************************)

(***************************************************************************)
(* The double check keeps one bucket per service, however many handlers of  *)
(* a new service miss it together, and every handler that holds a bucket    *)
(* holds that one: none spends from a bucket the map has lost.              *)
(***************************************************************************)
OneBucket ==
  /\ \A s \in Services : Len(created[s]) <= 1
  /\ \A h \in Handlers :
       pc[h] = "holding" => held[h] = 1 /\ Len(created[service[h]]) = 1

(***************************************************************************)
(* The limiter is one token bucket to each service: handlers that race for  *)
(* a bucket, and the calls of other services, change nothing of it.         *)
(***************************************************************************)
IsTokenBucket == TB!Spec

(***************************************************************************)
(* The promise of the rate limiter (DESIGN_DECISIONS.md, DDR-003: bursts up *)
(* to the capacity, then the refill rate), over every interval and not just *)
(* from the start: from any moment on, all handlers together are granted    *)
(* for a service at most one full capacity plus Rate for every period, one  *)
(* of them begun before.                                                    *)
(***************************************************************************)
ServiceWindowBound == TB!WindowBound

(***************************************************************************)
(* Laziness loses nothing: whatever mix of handlers' calls refilled the     *)
(* bucket of a service and when, its clock stays a whole number of periods  *)
(* behind the present, less than one after a call.                          *)
(***************************************************************************)
ServiceRefillClock == TB!RefillClock
=============================================================================
