-------------------------- MODULE FailureInjection --------------------------
(***************************************************************************)
(* The control plane of the test services: failure_injector keeps a failure *)
(* per service, and each service polls it (test_services/shared) and        *)
(* applies to its requests the last failure it received.                    *)
(*                                                                          *)
(* A poll is a request, an answer and its receipt, with the injector's      *)
(* handlers, its crash and its restart between them.  Every access to the   *)
(* injector's map and to a FailureState is under its mutex: one step.       *)
(*                                                                          *)
(* ExpiresAt is kept as the ticks left until then, which all clocks count   *)
(* alike; -1 says that it has passed.                                       *)
(***************************************************************************)
EXTENDS Integers

CONSTANTS
  Services,      \* the services that poll
  Types,         \* the types of failure that are injected
  Durations,     \* duration_seconds of the injections, in ticks
  MaxDuration,   \* the longest of them
  Period,        \* the ticker of StartPolling, five seconds in the code
  MaxDelay       \* how long a request, or its failure, takes; external

ASSUME FailureInjectionAssumption ==
  /\ MaxDuration \in Nat
  /\ Durations \subseteq 0 .. MaxDuration
  /\ Period \in Nat
  /\ MaxDelay \in Nat
  /\ MaxDelay < Period

VARIABLES
  \* failure_injector
  injectorUp,      \* external: the process runs
  failureStates,   \* failureStates[s], NoFailure if not in the map
  \* a service
  config,          \* config[s]: what its FailureState holds
  poll,            \* poll[s]: "idle", or where its request is: "asked" at the
                   \* injector, "answered" on its way back, or "lost"
  reply,           \* reply[s]: the answer on its way back
  timer,           \* timer[s]: ticks until the ticker of s fires
  \* history, read by properties only
  quiet            \* quiet[s]: ticks since the injector changed what it
                   \* answers to s, saturating past Bound

injectorVars == <<injectorUp, failureStates>>
serviceVars == <<config, poll, reply, timer>>
vars == <<injectorVars, serviceVars, quiet>>

None == "none"

FailureConfig == [type : Types \union {None}, left : -1 .. MaxDuration]
NoFailure == [type |-> None, left |-> -1]

\* time.Now().After(c.ExpiresAt)
Expired(c) == c.left < 0

\* How long a service may lag behind the injector.
Bound == Period + MaxDelay

TypeOK ==
  /\ injectorUp \in BOOLEAN
  /\ failureStates \in [Services -> FailureConfig]
  /\ config \in [Services -> FailureConfig]
  /\ poll \in [Services -> {"idle", "asked", "answered", "lost"}]
  /\ reply \in [Services -> FailureConfig]
  /\ timer \in [Services -> 0 .. Period]
  /\ quiet \in [Services -> 0 .. Bound + 1]

Init ==
  /\ injectorUp \in BOOLEAN
  /\ failureStates = [s \in Services |-> NoFailure]
  /\ config = [s \in Services |-> NoFailure]
  /\ poll = [s \in Services |-> "idle"]
  /\ reply = [s \in Services |-> NoFailure]
  /\ timer = [s \in Services |-> 0]
  /\ quiet = [s \in Services |-> 0]

-----------------------------------------------------------------------------
(***************************************************************************)
(* failure_injector                                                        *)
(***************************************************************************)

\* POST /inject.  Any type is taken, "none" among them.
Inject(s, type, d) ==
  /\ injectorUp
  /\ failureStates' = [failureStates EXCEPT ![s] = [type |-> type, left |-> d]]
  /\ quiet' = [quiet EXCEPT ![s] = 0]
  /\ UNCHANGED <<injectorUp, serviceVars>>

\* POST /reset: a new map, for all services.
Reset ==
  /\ injectorUp
  /\ failureStates' = [s \in Services |-> NoFailure]
  /\ quiet' = [s \in Services |-> 0]
  /\ UNCHANGED <<injectorUp, serviceVars>>

\* What GET /state/s answers.
Answer(s) == IF Expired(failureStates[s]) THEN NoFailure ELSE failureStates[s]

HandleGetState(s) ==
  /\ poll[s] = "asked"
  /\ reply' = [reply EXCEPT ![s] = Answer(s)]
  /\ poll' = [poll EXCEPT ![s] = "answered"]
  /\ UNCHANGED <<injectorVars, config, timer, quiet>>

\* External: the injector ends, and with it its map and the requests it has
\* not answered.
Stop ==
  /\ injectorUp
  /\ injectorUp' = FALSE
  /\ failureStates' = [s \in Services |-> NoFailure]
  /\ poll' = [s \in Services |-> IF poll[s] = "asked" THEN "lost" ELSE poll[s]]
  /\ quiet' = [s \in Services |-> 0]
  /\ UNCHANGED <<config, reply, timer>>

Start ==
  /\ ~injectorUp
  /\ injectorUp' = TRUE
  /\ UNCHANGED <<failureStates, serviceVars, quiet>>

-----------------------------------------------------------------------------
(***************************************************************************)
(* A service                                                               *)
(***************************************************************************)

\* The ticker fires (and once at the start): fetchOnce sends its request.
\* The ticker keeps its own schedule, whatever the request takes.
Ask(s) ==
  /\ timer[s] = 0
  /\ poll[s] = "idle"
  /\ timer' = [timer EXCEPT ![s] = Period]
  /\ poll' = [poll EXCEPT ![s] = IF injectorUp THEN "asked" ELSE "lost"]
  /\ UNCHANGED <<injectorVars, config, reply, quiet>>

\* fetchOnce returns on an error: the service keeps the failure it has.
FetchFails(s) ==
  /\ poll[s] = "lost"
  /\ poll' = [poll EXCEPT ![s] = "idle"]
  /\ UNCHANGED <<injectorVars, config, reply, timer, quiet>>

\* Bug variant: only a change of type is taken for a change.
ReceiveNewType(s) ==
  /\ poll[s] = "answered"
  /\ config' = IF reply[s].type = config[s].type THEN config
               ELSE [config EXCEPT ![s] = reply[s]]
  /\ poll' = [poll EXCEPT ![s] = "idle"]
  /\ UNCHANGED <<injectorVars, reply, timer, quiet>>

\* Bug variant: an answer without a failure is ignored.
ReceiveFailure(s) ==
  /\ poll[s] = "answered"
  /\ config' = IF reply[s].type = None THEN config
               ELSE [config EXCEPT ![s] = reply[s]]
  /\ poll' = [poll EXCEPT ![s] = "idle"]
  /\ UNCHANGED <<injectorVars, reply, timer, quiet>>

\* fetchOnce decodes the answer, which may have expired on its way.
Receive(s) ==
  /\ poll[s] = "answered"
  /\ config' = [config EXCEPT ![s] =
                  IF reply[s].type # None /\ Expired(reply[s])
                    THEN NoFailure ELSE reply[s]]
  /\ poll' = [poll EXCEPT ![s] = "idle"]
  /\ UNCHANGED <<injectorVars, reply, timer, quiet>>

-----------------------------------------------------------------------------

\* c a tick later.
Aged(c) == IF Expired(c) THEN c ELSE [c EXCEPT !.left = @ - 1]

\* Time passes, but no further than the next thing due: a ticker that fires,
\* or the end of a request that has taken MaxDelay.
Tick ==
  /\ \A s \in Services :
       /\ timer[s] > 0
       /\ poll[s] # "idle" => Period - timer[s] < MaxDelay
  /\ timer' = [s \in Services |-> timer[s] - 1]
  /\ failureStates' = [s \in Services |-> Aged(failureStates[s])]
  /\ config' = [s \in Services |-> Aged(config[s])]
  /\ reply' = [s \in Services |-> Aged(reply[s])]
  /\ quiet' = [s \in Services |->
                 IF ~injectorUp \/ failureStates[s].left = 0 THEN 0
                 ELSE IF quiet[s] <= Bound THEN quiet[s] + 1 ELSE quiet[s]]
  /\ UNCHANGED <<injectorUp, poll>>

PollStep(s) == Ask(s) \/ HandleGetState(s) \/ FetchFails(s) \/ Receive(s)

Next ==
  \/ \E s \in Services, type \in Types \union {None}, d \in Durations :
       Inject(s, type, d)
  \/ Reset
  \/ Stop
  \/ Start
  \/ \E s \in Services : PollStep(s)
  \/ Tick

Spec == Init /\ [][Next]_vars

(***************************************************************************)
(* Fairness: time passes and a poll goes on.  Nothing is assumed of who     *)
(* injects, resets, stops or starts.                                        *)
(***************************************************************************)
FairSpec ==
  /\ Spec
  /\ WF_vars(Tick)
  /\ \A s \in Services : WF_vars(PollStep(s))

-----------------------------------------------------------------------------
(***************************************************************************)
(* Properties                                                              *)
(***************************************************************************)

(***************************************************************************)
(* An injection takes effect, and its reset, its replacement and its expiry *)
(* end it, within one period of polling and one request (DDR-012: "takes    *)
(* effect within 5 seconds"): a service whose answer has not changed for    *)
(* longer, from an injector that was up, has that answer and no older one,  *)
(* whatever answers were on their way when it changed.                      *)
(***************************************************************************)
TakesEffect == \A s \in Services : quiet[s] > Bound => config[s] = Answer(s)

(***************************************************************************)
(* A failure does not outlive an injector that stays up and forgets it.     *)
(***************************************************************************)
FailureClears ==
  \A s \in Services :
    <>[](injectorUp /\ Answer(s) = NoFailure) => <>[](config[s] = NoFailure)

=============================================================================
