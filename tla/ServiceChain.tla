---------------------------- MODULE ServiceChain ----------------------------
(***************************************************************************)
(* One request through the test services (test_services/service_a, _b, _c): *)
(* service_a calls service_b, which calls service_c, each with the failure  *)
(* that was last injected into it.  A user may call any of the three.       *)
(* Requests have nothing in common but the failures, which change at any    *)
(* time, so that one request shows what any number of them can meet.        *)
(*                                                                          *)
(* A call is cut off by the timeout of its client, and by the context of    *)
(* the request it is made for: net/http cancels it when the caller of that  *)
(* request closes its connection.  A time.Sleep is cut off by nothing.      *)
(*                                                                          *)
(* Time is in ticks of any length.  The milliseconds of work and of network *)
(* take none.  An injected latency is assumed to end before WriteTimeout,   *)
(* and the URL of the next service to be one (else the answer is a 500).    *)
(***************************************************************************)
EXTENDS Naturals

CONSTANTS
  Timeout,     \* of the http.Client, 10 seconds
  Latencies    \* the latencies that are injected

ASSUME ChainAssumption ==
  /\ Timeout \in Nat \ {0}
  /\ Latencies \subseteq Nat \ {0}

VARIABLES
  failure,     \* failure[s]: failureClient.State()
  entry,       \* the service that the user calls
  \* handleProcess of each service
  pc,          \* "idle", "sleeping", "awake", "calling" or "done"
  left,        \* left[s]: what is left of its sleep
  called,      \* called[s]: the time since its call downstream
  status,      \* status[s]: of its response, 0 before
  cancelled,   \* cancelled[s]: its request's context is
  \* history, read by properties only
  slept,       \* slept[s]: the latency it took on
  age,         \* age[s]: the time since it began
  orphaned     \* orphaned[s]: the time since its context was cancelled

handlerVars == <<pc, left, called, status, cancelled, slept, age, orphaned>>
vars == <<failure, entry, handlerVars>>

Services == {"service_a", "service_b", "service_c"}
Callers == {"service_a", "service_b"}

\* DOWNSTREAM_SERVICE
Downstream(s) == IF s = "service_a" THEN "service_b" ELSE "service_c"

\* The types "kill" and "memory_pressure" do nothing in a handler.
NoFailure == [type |-> "none", latency |-> 0]
Failures ==
  {NoFailure, [type |-> "error_rate", latency |-> 0]}
    \union {[type |-> "latency", latency |-> l] : l \in Latencies}

TypeOK ==
  /\ failure \in [Services -> Failures]
  /\ entry \in Services
  /\ pc \in [Services -> {"idle", "sleeping", "awake", "calling", "done"}]
  /\ left \in [Services -> Nat]
  /\ called \in [Services -> 0 .. Timeout]
  /\ status \in [Services -> {0, 200, 500, 502}]
  /\ cancelled \in [Services -> BOOLEAN]
  /\ slept \in [Services -> Latencies \union {0}]
  /\ age \in [Services -> Nat]
  /\ orphaned \in [Services -> Nat]
  /\ pc["service_c"] # "calling"
  /\ \A s \in Services : status[s] # 0 <=> pc[s] = "done"

Zero == [s \in Services |-> 0]

Init ==
  /\ failure = [s \in Services |-> NoFailure]
  /\ entry \in Services
  /\ pc = [s \in Services |-> "idle"]
  /\ left = Zero
  /\ called = Zero
  /\ status = Zero
  /\ cancelled = [s \in Services |-> FALSE]
  /\ slept = Zero
  /\ age = Zero
  /\ orphaned = Zero

Working(s) == pc[s] \in {"sleeping", "awake", "calling"}

-----------------------------------------------------------------------------
\* A poll of the injector brings another failure.
Update(s) ==
  /\ \E f \in Failures : failure' = [failure EXCEPT ![s] = f]
  /\ UNCHANGED <<entry, handlerVars>>

GetLatency(s) == failure[s].latency

\* Service s takes the request on, while the handlers in p are as they are
\* there: it sleeps for the latency of this moment.
Begun(s, p) ==
  /\ pc' = [p EXCEPT ![s] = "sleeping"]
  /\ left' = [left EXCEPT ![s] = GetLatency(s)]
  /\ slept' = [slept EXCEPT ![s] = GetLatency(s)]

Enter ==
  /\ pc[entry] = "idle"
  /\ Begun(entry, pc)
  /\ UNCHANGED <<failure, entry, called, status, cancelled, age, orphaned>>

Wake(s) ==
  /\ pc[s] = "sleeping"
  /\ left[s] = 0
  /\ pc' = [pc EXCEPT ![s] = "awake"]
  /\ UNCHANGED <<failure, entry, left, called, status, cancelled, slept, age, orphaned>>

\* The handler of s returns with status code.
Respond(s, code) ==
  /\ pc' = [pc EXCEPT ![s] = "done"]
  /\ status' = [status EXCEPT ![s] = code]

\* Bug variant: no return after http.Error.
FailAndGoOn(s) ==
  /\ pc[s] = "awake"
  /\ failure[s].type = "error_rate"
  /\ status' = [status EXCEPT ![s] = 500]
  /\ UNCHANGED <<failure, entry, pc, left, called, cancelled, slept, age, orphaned>>

\* ShouldFail(), by the failure of this moment and the clock.
Fail(s) ==
  /\ pc[s] = "awake"
  /\ failure[s].type = "error_rate"
  /\ Respond(s, 500)
  /\ UNCHANGED <<failure, entry, left, called, cancelled, slept, age, orphaned>>

\* service_c has nothing more to do.
Finish ==
  /\ pc["service_c"] = "awake"
  /\ Respond("service_c", 200)
  /\ UNCHANGED <<failure, entry, left, called, cancelled, slept, age, orphaned>>

\* client.Do reaches the next service.
Call(s) ==
  /\ pc[s] = "awake"
  /\ ~cancelled[s]
  /\ Begun(Downstream(s), [pc EXCEPT ![s] = "calling"])
  /\ UNCHANGED <<failure, entry, called, status, cancelled, age, orphaned>>

\* client.Do fails at once: there is no service, or the context is cancelled.
Refused(s) ==
  /\ pc[s] = "awake"
  /\ Respond(s, 502)
  /\ UNCHANGED <<failure, entry, left, called, cancelled, slept, age, orphaned>>

\* Bug variant: service_a, too, takes any response for a success.
PassOnNothing(s) == 200

\* The response to a response: service_a passes an error on, service_b does
\* not look at the status.
PassOn(s) ==
  IF s = "service_a" THEN status[Downstream(s)] ELSE 200

Return(s) ==
  /\ pc[s] = "calling"
  /\ pc[Downstream(s)] = "done"
  /\ ~cancelled[s]
  /\ Respond(s, PassOn(s))
  /\ UNCHANGED <<failure, entry, left, called, cancelled, slept, age, orphaned>>

\* Bug variant: a request without context (http.NewRequest).
DueByTimeout(s) == called[s] = Timeout

\* Bug variant: a client without timeout.
DueByContext(s) == cancelled[s]

Due(s) == called[s] = Timeout \/ cancelled[s]

\* client.Do is cut off: the connection is closed, and with it the context of
\* the handler at the other end cancelled.
GiveUp(s) ==
  /\ pc[s] = "calling"
  /\ Due(s)
  /\ Respond(s, 502)
  /\ cancelled' = [cancelled EXCEPT ![Downstream(s)] = Working(Downstream(s))]
  /\ UNCHANGED <<failure, entry, left, called, slept, age, orphaned>>

\* The user closes the connection.
UserLeaves ==
  /\ Working(entry)
  /\ ~cancelled[entry]
  /\ cancelled' = [cancelled EXCEPT ![entry] = TRUE]
  /\ UNCHANGED <<failure, entry, pc, left, called, status, slept, age, orphaned>>

\* What a handler does next takes no time.
Ready(s) ==
  \/ pc[s] = "awake"
  \/ pc[s] = "sleeping" /\ left[s] = 0
  \/ pc[s] = "calling" /\ (Due(s) \/ pc[Downstream(s)] = "done")

Tick ==
  /\ \E s \in Services : Working(s)
  /\ \A s \in Services : ~Ready(s)
  /\ left' = [s \in Services |-> IF pc[s] = "sleeping" THEN left[s] - 1 ELSE left[s]]
  /\ called' = [s \in Services |-> IF pc[s] = "calling" THEN called[s] + 1 ELSE called[s]]
  /\ age' = [s \in Services |-> IF Working(s) THEN age[s] + 1 ELSE age[s]]
  /\ orphaned' = [s \in Services |->
                    IF Working(s) /\ cancelled[s] THEN orphaned[s] + 1 ELSE orphaned[s]]
  /\ UNCHANGED <<failure, entry, pc, status, cancelled, slept>>

HandlerStep ==
  \/ \E s \in Services : Wake(s) \/ Fail(s)
  \/ Finish
  \/ \E s \in Callers : Call(s) \/ Refused(s) \/ Return(s) \/ GiveUp(s)

Next ==
  \/ \E s \in Services : Update(s)
  \/ Enter
  \/ HandlerStep
  \/ UserLeaves
  \/ Tick

Spec == Init /\ [][Next]_vars

-----------------------------------------------------------------------------
(***************************************************************************)
(* Properties                                                              *)
(***************************************************************************)

(***************************************************************************)
(* However slow the services behind it, a handler is done after its own     *)
(* injected latency and one timeout.                                        *)
(***************************************************************************)
AnswersInTime ==
  \A s \in Services : Working(s) => age[s] <= slept[s] + Timeout

(***************************************************************************)
(* When everyone upstream has given up, or the user has left, the work they *)
(* left behind ends with the sleep it may be in: no handler waits for       *)
(* another any more on behalf of a request that nobody waits for.           *)
(***************************************************************************)
OrphansEnd ==
  \A s \in Services : Working(s) => orphaned[s] <= slept[s]

(***************************************************************************)
(* service_a says that it succeeded only if service_b did and its answer    *)
(* came in time.                                                            *)
(***************************************************************************)
TrueSuccess ==
  status["service_a"] = 200 =>
    status["service_b"] = 200 /\ ~cancelled["service_b"]

=============================================================================
