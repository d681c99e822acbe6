--------------------------- MODULE CircuitBreaker ---------------------------
(***************************************************************************)
(* The gateway's circuit breaker, gateway/circuitbreaker.  Every method     *)
(* holds the mutex cb.mu from its first to its last line, so every method   *)
(* is one action.  BreakerSpec lets any caller call any method at any       *)
(* moment; AnalysisDispatch restricts the callers to what the gateway does. *)
(*                                                                          *)
(* Two counters are kept only as far as the code can tell them apart:       *)
(*  - failureCount is only ever compared with failureLimit, so it saturates *)
(*    there;                                                                *)
(*  - lastFailureAt is only ever used in time.Since(lastFailureAt) >=       *)
(*    timeout, so its age is kept instead, saturating at Timeout.  The zero *)
(*    time of a new breaker is centuries old: its age is Timeout.           *)
(* halfOpenSentAt is written and never read.                                *)
(***************************************************************************)
EXTENDS Naturals

CONSTANTS
  FailureLimit,   \* failureLimit: the failures that open a closed breaker
  Timeout         \* timeout: how long, in ticks, an open breaker rests

ASSUME BreakerAssumption ==
  /\ FailureLimit \in Nat \ {0}
  /\ Timeout \in Nat \ {0}

VARIABLES
  state,          \* StateClosed, StateOpen or StateHalfOpen
  failureCount,   \* failureCount, saturating at FailureLimit
  sinceFailure,   \* age of lastFailureAt in ticks, saturating at Timeout
  halfOpenSent    \* halfOpenSent

breakerVars == <<state, failureCount, sinceFailure, halfOpenSent>>

Closed   == "closed"
Open     == "open"
HalfOpen == "half-open"

BreakerTypeOK ==
  /\ state \in {Closed, Open, HalfOpen}
  /\ failureCount \in 0..FailureLimit
  /\ sinceFailure \in 0..Timeout
  /\ halfOpenSent \in BOOLEAN

BreakerInit ==
  /\ state = Closed
  /\ failureCount = 0
  /\ sinceFailure = Timeout
  /\ halfOpenSent = FALSE

-----------------------------------------------------------------------------

\* time.Since(cb.lastFailureAt) >= cb.timeout
CooledDown == sinceFailure >= Timeout

\* Bug variant: the rest of an open breaker is not awaited.
AllowFirstProbeAtOnce(admitted) ==
  /\ state = Open
  /\ admitted = TRUE
  /\ state' = HalfOpen
  /\ halfOpenSent' = FALSE
  /\ UNCHANGED <<failureCount, sinceFailure>>

\* Allow() of an open breaker that has rested: it becomes half-open, and the
\* caller is let through without being recorded as the half-open request.
AllowFirstProbe(admitted) ==
  /\ state = Open /\ CooledDown
  /\ admitted = TRUE
  /\ state' = HalfOpen
  /\ halfOpenSent' = FALSE
  /\ UNCHANGED <<failureCount, sinceFailure>>

\* Bug variant: the half-open request is not recorded.
AllowNextProbeUnrecorded(admitted) ==
  /\ state = HalfOpen /\ ~halfOpenSent
  /\ admitted = TRUE
  /\ UNCHANGED breakerVars

\* Allow() of a half-open breaker that has recorded no request yet.
AllowNextProbe(admitted) ==
  /\ state = HalfOpen /\ ~halfOpenSent
  /\ admitted = TRUE
  /\ halfOpenSent' = TRUE
  /\ UNCHANGED <<state, failureCount, sinceFailure>>

\* Allow() of a closed breaker.
AllowClosed(admitted) ==
  /\ state = Closed
  /\ admitted = TRUE
  /\ UNCHANGED breakerVars

\* Allow() of a breaker that rests or has sent its half-open request.
Reject(admitted) ==
  /\ \/ state = Open /\ ~CooledDown
     \/ state = HalfOpen /\ halfOpenSent
  /\ admitted = FALSE
  /\ UNCHANGED breakerVars

\* Allow() returns admitted.
Allow(admitted) ==
  \/ AllowClosed(admitted)
  \/ AllowFirstProbe(admitted)
  \/ AllowNextProbe(admitted)
  \/ Reject(admitted)

\* Bug variant: closing keeps the count that opened the breaker.
SuccessKeepsCount ==
  IF state = HalfOpen
    THEN /\ state' = Closed
         /\ halfOpenSent' = FALSE
         /\ UNCHANGED <<failureCount, sinceFailure>>
    ELSE UNCHANGED breakerVars

\* Success() acts in the half-open state only: failures that were counted
\* while the breaker was closed stay counted.
Success ==
  IF state = HalfOpen
    THEN /\ state' = Closed
         /\ failureCount' = 0
         /\ halfOpenSent' = FALSE
         /\ UNCHANGED sinceFailure
    ELSE UNCHANGED breakerVars

\* failureCount++ as far as a comparison with failureLimit can see.
CountFailure ==
  IF failureCount < FailureLimit THEN failureCount + 1 ELSE FailureLimit

\* Bug variant: the failure of a probe is not timed.
FailureUntimed ==
  /\ failureCount' = CountFailure
  /\ sinceFailure' = IF state = HalfOpen THEN sinceFailure ELSE 0
  /\ state' = IF state = HalfOpen \/ failureCount' >= FailureLimit
                THEN Open ELSE state
  /\ halfOpenSent' = IF state = HalfOpen THEN FALSE ELSE halfOpenSent

\* Failure() counts in every state, and restarts the rest of an open breaker.
Failure ==
  /\ failureCount' = CountFailure
  /\ sinceFailure' = 0
  /\ state' = IF state = HalfOpen \/ failureCount' >= FailureLimit
                THEN Open ELSE state
  /\ halfOpenSent' = IF state = HalfOpen THEN FALSE ELSE halfOpenSent

\* Reset(), which no caller in the repository uses.
Reset ==
  /\ state' = Closed
  /\ failureCount' = 0
  /\ halfOpenSent' = FALSE
  /\ UNCHANGED sinceFailure

\* One tick of the clock the breaker reads through time.Since.
Age ==
  /\ sinceFailure' = IF CooledDown THEN Timeout ELSE sinceFailure + 1
  /\ UNCHANGED <<state, failureCount, halfOpenSent>>

BreakerNext ==
  \/ \E admitted \in BOOLEAN : Allow(admitted)
  \/ Success
  \/ Failure
  \/ Reset
  \/ Age

BreakerSpec == BreakerInit /\ [][BreakerNext]_breakerVars

-----------------------------------------------------------------------------
(***************************************************************************)
(* Properties                                                              *)
(***************************************************************************)

(***************************************************************************)
(* Whatever the callers do, the count and the state agree: a closed         *)
(* breaker is always at least one failure away from the limit (Failure()    *)
(* never leaves it closed at the limit), a breaker that is not closed has   *)
(* reached it (so the next failure in any state finds it open), and the     *)
(* half-open flag never survives the half-open state, where it would make   *)
(* the next half-open period reject its first real probe.                   *)
(***************************************************************************)
CountMatchesState ==
  /\ state = Closed <=> failureCount < FailureLimit
  /\ halfOpenSent => state = HalfOpen

\* The breaker as a gate: its mode, and the calls passed since half-open.
GateMode ==
  IF state = Closed THEN "admitting"
  ELSE IF state = Open THEN "resting" ELSE "probing"

GateProbes ==
  IF state # HalfOpen THEN 0 ELSE IF halfOpenSent THEN 2 ELSE 1

Gate == INSTANCE ProbeGate WITH
          MaxProbes <- 2, Rest <- Timeout,
          mode <- GateMode, probes <- GateProbes, rested <- sinceFailure

(***************************************************************************)
(* The breaker, with any callers, is a gate that passes at most two probes  *)
(* before it decides, and none before it has rested for Timeout since the   *)
(* last failure anyone reported (Allow, Success and Failure together).      *)
(***************************************************************************)
TwoProbeGate == Gate!Spec
=============================================================================
