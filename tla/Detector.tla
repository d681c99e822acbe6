------------------------------ MODULE Detector ------------------------------
(***************************************************************************)
(* The incident detector, gateway/incident/detector.go: one sliding-window  *)
(* counter of errors per service, raised by RecordError and read by Check.  *)
(*                                                                          *)
(* RecordError holds d.mu throughout and is one action.  Check holds it     *)
(* only to find the counter: total() then reads the buckets one after the   *)
(* other with no lock, in a data race with increment().  By the Go memory   *)
(* model the read of a word observes some value written to it that is no    *)
(* older than the last one ordered before it: here the value at the lookup, *)
(* or any since.  A count only ever grows by one, so that is a range.       *)
(*                                                                          *)
(* lastTick begins as a time in nanoseconds and is compared with a number   *)
(* of intervals.  ClockAssumption is what every real clock satisfies:       *)
(* the number of intervals since 1970 is below the number of nanoseconds    *)
(* between 1970 and the start of the program.                               *)
(***************************************************************************)
EXTENDS Integers, Sequences, FiniteSets

CONSTANTS
  Handlers,    \* the RPC handlers at work at one time
  Services,
  Buckets,     \* len(sw.buckets), 10 in the code
  Interval,    \* sw.interval in nanoseconds
  Threshold,   \* d.threshold
  Start,       \* time.Now().UnixNano() when the program starts
  Horizon,     \* ... and the latest time of the model
  MaxErrors    \* bound on the errors recorded for one service

ASSUME DetectorAssumption ==
  /\ Buckets \in Nat \ {0}
  /\ Interval \in Nat \ {0}
  /\ Threshold \in Nat
  /\ Start \in Nat
  /\ Horizon \in Nat /\ Start <= Horizon
  /\ MaxErrors \in Nat

ASSUME ClockAssumption ==
  \A t \in Start .. Horizon : t \div Interval <= Start

VARIABLES
  errCounts,   \* errCounts[s]: NoCounter or [buckets, lastTick]
  now,         \* time.Now().UnixNano()
  pc,          \* pc[h]: "idle", "found", "reading" or "summed"
  service,     \* service[h]: the service that h checks
  index,       \* index[h]: the bucket total() reads next
  sum,         \* sum[h]: sum of total(), then errCount of Check
  visible,     \* visible[h]: the buckets when h looked the counter up
  \* history, read by properties only
  log,         \* log[s]: the times of the errors recorded for s
  before,      \* before[h]: the errors recorded when h looked the counter up
  since        \* since[h]: the time of that lookup

checkVars == <<pc, service, index, sum, visible, before, since>>
vars == <<errCounts, now, log, checkVars>>

Window == Buckets * Interval
Indices == 0 .. Buckets - 1

Counter == [buckets : [Indices -> Nat], lastTick : Nat]
NoCounter == [buckets |-> <<>>, lastTick |-> -1]

TypeOK ==
  /\ errCounts \in [Services -> Counter \union {NoCounter}]
  /\ now \in Start .. Horizon
  /\ pc \in [Handlers -> {"idle", "found", "reading", "summed"}]
  /\ service \in [Handlers -> Services]
  /\ index \in [Handlers -> 0 .. Buckets]
  /\ sum \in [Handlers -> Nat]
  /\ visible \in [Handlers -> [Indices -> Nat]]
  /\ log \in [Services -> Seq(Start .. Horizon)]
  /\ before \in [Handlers -> Nat]
  /\ since \in [Handlers -> Start .. Horizon]
  /\ \A h \in Handlers :
       /\ pc[h] # "idle" => errCounts[service[h]] # NoCounter
       /\ pc[h] \in {"found", "reading"} => index[h] \in Indices

Zeros == [i \in Indices |-> 0]

Init ==
  /\ errCounts = [s \in Services |-> NoCounter]
  /\ now = Start
  /\ pc = [h \in Handlers |-> "idle"]
  /\ service \in [Handlers -> Services]
  /\ index = [h \in Handlers |-> 0]
  /\ sum = [h \in Handlers |-> 0]
  /\ visible = [h \in Handlers |-> Zeros]
  /\ log = [s \in Services |-> <<>>]
  /\ before = [h \in Handlers |-> 0]
  /\ since = [h \in Handlers |-> Start]

-----------------------------------------------------------------------------
(***************************************************************************)
(* The counter                                                             *)
(***************************************************************************)

TickOf(t) == t \div Interval

\* newSlidingWindowCounter, called at time t
NewCounter(t) == [buckets |-> Zeros, lastTick |-> t]

\* The buckets that increment() sets to zero when the tick is diff past the
\* last one: all of them, or those of the ticks in between.
Expired(c, diff) ==
  IF diff >= Buckets THEN Indices
                     ELSE {(c.lastTick + i) % Buckets : i \in 1 .. diff}

\* c after increment() at time t
Incremented(c, t) ==
  LET tick == TickOf(t)
      kept == IF tick > c.lastTick
                THEN [i \in Indices |->
                        IF i \in Expired(c, tick - c.lastTick)
                          THEN 0 ELSE c.buckets[i]]
                ELSE c.buckets
  IN  [buckets  |-> [kept EXCEPT ![tick % Buckets] = @ + 1],
       lastTick |-> IF tick > c.lastTick THEN tick ELSE c.lastTick]

\* Bug variant: every error makes a new counter (the map is not consulted).
RecordErrorAnew(s) ==
  /\ Len(log[s]) < MaxErrors
  /\ errCounts' = [errCounts EXCEPT ![s] = Incremented(NewCounter(now), now)]
  /\ log' = [log EXCEPT ![s] = Append(@, now)]
  /\ UNCHANGED <<now, checkVars>>

\* RecordError(s), under d.mu.
RecordError(s) ==
  LET c == IF errCounts[s] = NoCounter THEN NewCounter(now) ELSE errCounts[s] IN
  /\ Len(log[s]) < MaxErrors
  /\ errCounts' = [errCounts EXCEPT ![s] = Incremented(c, now)]
  /\ log' = [log EXCEPT ![s] = Append(@, now)]
  /\ UNCHANGED <<now, checkVars>>

-----------------------------------------------------------------------------
(***************************************************************************)
(* Check                                                                   *)
(***************************************************************************)

\* c, ok := d.errCounts[service], under d.mu.RLock: no counter, no incident.
Lookup(h, s) ==
  /\ pc[h] = "idle"
  /\ errCounts[s] # NoCounter
  /\ pc' = [pc EXCEPT ![h] = "found"]
  /\ service' = [service EXCEPT ![h] = s]
  /\ index' = [index EXCEPT ![h] = 0]
  /\ sum' = [sum EXCEPT ![h] = 0]
  /\ visible' = [visible EXCEPT ![h] = errCounts[s].buckets]
  /\ before' = [before EXCEPT ![h] = Len(log[s])]
  /\ since' = [since EXCEPT ![h] = now]
  /\ UNCHANGED <<errCounts, now, log>>

\* total(): a tick after the last one returns 0, the sum of no bucket.
CompareTick(h) ==
  /\ pc[h] = "found"
  /\ pc' = [pc EXCEPT ![h] =
              IF TickOf(now) > errCounts[service[h]].lastTick
                THEN "summed" ELSE "reading"]
  /\ UNCHANGED <<errCounts, now, log, service, index, sum, visible, before,
                 since>>

\* The values that the unlocked read of bucket i by h can return.
Readable(h, i) ==
  LET present == errCounts[service[h]].buckets[i] IN
  (visible[h][i] .. present) \union {present}

\* total(): sum += sw.buckets[i]
ReadBucket(h) ==
  /\ pc[h] = "reading"
  /\ \E v \in Readable(h, index[h]) : sum' = [sum EXCEPT ![h] = @ + v]
  /\ index' = [index EXCEPT ![h] = @ + 1]
  /\ pc' = [pc EXCEPT ![h] =
              IF index[h] + 1 = Buckets THEN "summed" ELSE "reading"]
  /\ UNCHANGED <<errCounts, now, log, service, visible, before, since>>

\* Check returns: an incident if errCount >= d.threshold.
Decide(h) ==
  /\ pc[h] = "summed"
  /\ pc' = [pc EXCEPT ![h] = "idle"]
  /\ UNCHANGED <<errCounts, now, log, service, index, sum, visible, before,
                 since>>

Reports(h) == pc[h] = "summed" /\ sum[h] >= Threshold

Tick ==
  /\ now < Horizon
  /\ now' = now + 1
  /\ UNCHANGED <<errCounts, log, checkVars>>

Next ==
  \/ \E s \in Services : RecordError(s)
  \/ \E h \in Handlers :
       \/ \E s \in Services : Lookup(h, s)
       \/ CompareTick(h)
       \/ ReadBucket(h)
       \/ Decide(h)
  \/ Tick

Spec == Init /\ [][Next]_vars

-----------------------------------------------------------------------------
(***************************************************************************)
(* Properties                                                              *)
(***************************************************************************)

(***************************************************************************)
(* Without a lock, and with increments between its reads, a Check still     *)
(* counts every error recorded before it began, and none that is not        *)
(* recorded when it ends: it misses no burst that was there, and makes up   *)
(* none that was not.  How old those errors are is another question:        *)
(* ReportedIsRecent below.                                                  *)
(***************************************************************************)
CheckIsAccurate ==
  \A h \in Handlers :
    pc[h] = "summed" => sum[h] \in before[h] .. Len(log[service[h]])

-----------------------------------------------------------------------------
(***************************************************************************)
(* What the repository says and the code does not do                       *)
(***************************************************************************)

(***************************************************************************)
(* README.md:668: "Sliding window threshold detection"; an incident is      *)
(* described (detector.go:121) as a number of "errors in" the window.  A    *)
(* Check that reports, then, has a threshold of errors no older than one    *)
(* window before it began.                                                  *)
(***************************************************************************)
ReportedIsRecent ==
  \A h \in Handlers :
    Reports(h) =>
      Cardinality({i \in DOMAIN log[service[h]] :
                     log[service[h]][i] > since[h] - Window}) >= Threshold
=============================================================================
