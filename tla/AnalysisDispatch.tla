-------------------------- MODULE AnalysisDispatch --------------------------
(***************************************************************************)
(* What the gateway does with a detected incident: maybeTriggerAnalysis in  *)
(* gateway/main.go, the agent router it calls, the circuit breaker between  *)
(* them, and the two gauges that count the incidents on their way.          *)
(*                                                                          *)
(* An incident is handled by two threads one after the other.  The RPC      *)
(* handler that detected it raises the queue gauge and asks the breaker; if *)
(* admitted, it moves the incident between the gauges and starts a          *)
(* goroutine, which calls the agent, reports the outcome to the breaker and *)
(* lowers the second gauge.  The breaker's mutex is held only inside each   *)
(* of its methods, so any number of incidents interleave between two steps  *)
(* of one, and a call may report long after the breaker has changed state.  *)
(*                                                                          *)
(* The agent service itself is external: it is up or down, and the          *)
(* analysis of an incident ends with an answer or an error.                 *)
(***************************************************************************)
EXTENDS CircuitBreaker, Integers, FiniteSets

CONSTANT Incidents   \* the incidents the detector reports; bounds the model

ASSUME IncidentsAssumption == IsFiniteSet(Incidents)

VARIABLES
  \* gateway/main.go
  serving,           \* main() has passed Connect and serves RPCs
  stage,             \* stage[i]: how far incident i has come
  \* gateway/router/agent.go
  connected,         \* the router's client is not nil
  agentUp,           \* external: the agent service listens at the target
  \* gateway/metrics
  queueDepth,        \* gauge IncidentQueueDepth
  activeIncidents,   \* gauge ActiveIncidents
  \* history, read by properties only
  probes,            \* incidents admitted in the current half-open period
  sinceHalfOpen      \* ticks since the breaker last became half-open,
                     \* saturating at Timeout

dispatchVars == <<serving, stage, connected, agentUp, queueDepth,
                  activeIncidents, probes, sinceHalfOpen>>
vars == <<breakerVars, dispatchVars>>

(***************************************************************************)
(* The stages of an incident.                                               *)
(*   undetected  not reported by the detector yet                           *)
(*   detected    RecordIncidentDetected done, Allow() not called            *)
(*   blocked     Allow() returned false: the handler returned               *)
(*   admitted    Allow() returned true, the gauges not yet moved            *)
(*   analyzing   the goroutine is in Analyze                                *)
(*   answered    Analyze returned a response, Success() not called          *)
(*   errored     Analyze returned an error, Failure() not called            *)
(*   reported    the breaker knows, RecordIncidentComplete not called       *)
(*   done        the goroutine has returned                                 *)
(***************************************************************************)
Stages == {"undetected", "detected", "blocked", "admitted", "analyzing",
           "answered", "errored", "reported", "done"}

InStage(S) == {i \in Incidents : stage[i] \in S}

\* Admitted by the breaker and not yet reported back to it.
Outstanding == InStage({"admitted", "analyzing", "answered", "errored"})

\* The stages counted by IncidentQueueDepth and by ActiveIncidents.
Queued == {"detected", "admitted", "blocked"}
Active == {"analyzing", "answered", "errored", "reported"}

TypeOK ==
  /\ BreakerTypeOK
  /\ serving \in BOOLEAN
  /\ stage \in [Incidents -> Stages]
  /\ connected \in BOOLEAN
  /\ agentUp \in BOOLEAN
  /\ queueDepth \in Int
  /\ activeIncidents \in Int
  /\ probes \in SUBSET Incidents
  /\ sinceHalfOpen \in 0..Timeout

Init ==
  /\ BreakerInit
  /\ serving = FALSE
  /\ stage = [i \in Incidents |-> "undetected"]
  /\ connected = FALSE
  /\ agentUp \in BOOLEAN
  /\ queueDepth = 0
  /\ activeIncidents = 0
  /\ probes = {}
  /\ sinceHalfOpen = Timeout

Move(i, from, to) ==
  /\ stage[i] = from
  /\ stage' = [stage EXCEPT ![i] = to]

-----------------------------------------------------------------------------
(***************************************************************************)
(* Start-up and the agent service                                          *)
(***************************************************************************)

\* router.Connect, called once by main(): a blocking dial of five seconds
\* that ends connected if the agent is there, and otherwise leaves the client
\* nil for good.  main() serves either way.
Connect ==
  /\ ~serving
  /\ serving' = TRUE
  /\ connected' = agentUp
  /\ UNCHANGED <<breakerVars, stage, agentUp, queueDepth, activeIncidents,
                 probes, sinceHalfOpen>>

\* External: the agent service starts or stops.
AgentStartsOrStops ==
  /\ agentUp' = ~agentUp
  /\ UNCHANGED <<breakerVars, serving, stage, connected, queueDepth,
                 activeIncidents, probes, sinceHalfOpen>>

-----------------------------------------------------------------------------
(***************************************************************************)
(* The RPC handler                                                         *)
(***************************************************************************)

\* The detector reports incident i: RecordIncidentDetected.
Detect(i) ==
  /\ serving
  /\ Move(i, "undetected", "detected")
  /\ queueDepth' = queueDepth + 1
  /\ UNCHANGED <<breakerVars, serving, connected, agentUp, activeIncidents,
                 probes, sinceHalfOpen>>

\* if !s.circuitbreaker.Allow() { RecordCircuitBreakerBlock; return }
Block(i) ==
  /\ Move(i, "detected", "blocked")
  /\ Allow(FALSE)
  /\ UNCHANGED <<serving, connected, agentUp, queueDepth, activeIncidents,
                 probes, sinceHalfOpen>>

\* Allow() returned true.
Admit(i) ==
  /\ Move(i, "detected", "admitted")
  /\ Allow(TRUE)
  /\ probes' = IF state' = HalfOpen THEN probes \union {i} ELSE probes
  /\ sinceHalfOpen' = IF state' # state THEN 0 ELSE sinceHalfOpen
  /\ UNCHANGED <<serving, connected, agentUp, queueDepth, activeIncidents>>

\* Bug variant: dispatching leaves the incident on the queue gauge.
DispatchStaysQueued(i) ==
  /\ Move(i, "admitted", "analyzing")
  /\ activeIncidents' = activeIncidents + 1
  /\ UNCHANGED <<breakerVars, serving, connected, agentUp, queueDepth, probes,
                 sinceHalfOpen>>

\* RecordIncidentDispatched, and the goroutine starts.
Dispatch(i) ==
  /\ Move(i, "admitted", "analyzing")
  /\ queueDepth' = queueDepth - 1
  /\ activeIncidents' = activeIncidents + 1
  /\ UNCHANGED <<breakerVars, serving, connected, agentUp, probes,
                 sinceHalfOpen>>

-----------------------------------------------------------------------------
(***************************************************************************)
(* The goroutine                                                           *)
(***************************************************************************)

\* Analyze returns a response: only with a client, and from a live agent.
Answer(i) ==
  /\ connected /\ agentUp
  /\ Move(i, "analyzing", "answered")
  /\ UNCHANGED <<breakerVars, serving, connected, agentUp, queueDepth,
                 activeIncidents, probes, sinceHalfOpen>>

\* Analyze returns an error: no client, a transport or agent error, or the
\* deadline of 60 seconds.
Err(i) ==
  /\ Move(i, "analyzing", "errored")
  /\ UNCHANGED <<breakerVars, serving, connected, agentUp, queueDepth,
                 activeIncidents, probes, sinceHalfOpen>>

\* The half-open period ends with the first report, whoever makes it.
EndProbing == probes' = IF state' = HalfOpen THEN probes ELSE {}

ReportSuccess(i) ==
  /\ Move(i, "answered", "reported")
  /\ Success
  /\ EndProbing
  /\ UNCHANGED <<serving, connected, agentUp, queueDepth, activeIncidents,
                 sinceHalfOpen>>

\* Bug variant: errors are reported to a closed breaker only.
ReportFailureIfClosed(i) ==
  /\ Move(i, "errored", "reported")
  /\ IF state = Closed THEN Failure ELSE UNCHANGED breakerVars
  /\ EndProbing
  /\ UNCHANGED <<serving, connected, agentUp, queueDepth, activeIncidents,
                 sinceHalfOpen>>

ReportFailure(i) ==
  /\ Move(i, "errored", "reported")
  /\ Failure
  /\ EndProbing
  /\ UNCHANGED <<serving, connected, agentUp, queueDepth, activeIncidents,
                 sinceHalfOpen>>

\* RecordIncidentComplete
Complete(i) ==
  /\ Move(i, "reported", "done")
  /\ activeIncidents' = activeIncidents - 1
  /\ UNCHANGED <<breakerVars, serving, connected, agentUp, queueDepth, probes,
                 sinceHalfOpen>>

-----------------------------------------------------------------------------

Tick ==
  /\ Age
  /\ sinceHalfOpen' = IF sinceHalfOpen < Timeout
                        THEN sinceHalfOpen + 1 ELSE Timeout
  /\ UNCHANGED <<serving, stage, connected, agentUp, queueDepth,
                 activeIncidents, probes>>

\* The steps of the threads that carry incident i.
Handle(i) ==
  \/ Block(i)
  \/ Admit(i)
  \/ Dispatch(i)
  \/ Answer(i)
  \/ Err(i)
  \/ ReportSuccess(i)
  \/ ReportFailure(i)
  \/ Complete(i)

Next ==
  \/ Connect
  \/ AgentStartsOrStops
  \/ \E i \in Incidents : Detect(i)
  \/ \E i \in Incidents : Handle(i)
  \/ Tick

Spec == Init /\ [][Next]_vars

(***************************************************************************)
(* Fairness.  The dial has a deadline, the Go scheduler runs every thread   *)
(* that is ready, Analyze has a deadline, and the clock advances.  Nothing  *)
(* is assumed of the agent or of the traffic.                               *)
(***************************************************************************)
Fairness ==
  /\ WF_vars(Connect)
  /\ \A i \in Incidents : WF_vars(Handle(i))
  /\ WF_vars(Tick)

FairSpec == Spec /\ Fairness

-----------------------------------------------------------------------------
(***************************************************************************)
(* Safety                                                                  *)
(***************************************************************************)

(***************************************************************************)
(* A half-open breaker always has somebody to decide it: every probe it     *)
(* admitted is still on its way to Success() or Failure(), and there is at  *)
(* least one.  A probe that came home without reporting would leave the     *)
(* breaker half-open, and every later incident blocked, for ever.           *)
(* halfOpenSent counts the probes: one before it is set, two after.         *)
(***************************************************************************)
HalfOpenIsWatched ==
  /\ probes \subseteq Outstanding
  /\ state = HalfOpen <=> probes # {}
  /\ state = HalfOpen => Cardinality(probes) = IF halfOpenSent THEN 2 ELSE 1

(***************************************************************************)
(* A failing agent is probed once per Timeout at the most often: however    *)
(* late calls report and whatever the breaker did in between, it becomes    *)
(* half-open again only Timeout after it last did.                          *)
(***************************************************************************)
ProbeSpacing ==
  [][state # HalfOpen /\ state' = HalfOpen => sinceHalfOpen >= Timeout]_vars

(***************************************************************************)
(* The gauges count what they are raised and lowered for, through every     *)
(* interleaving: ActiveIncidents the goroutines that have not finished, and *)
(* IncidentQueueDepth the incidents whose handler is still deciding plus    *)
(* every incident the breaker ever blocked (nothing lowers it for those).   *)
(***************************************************************************)
GaugesAccount ==
  /\ queueDepth = Cardinality(InStage(Queued))
  /\ activeIncidents = Cardinality(InStage(Active))

-----------------------------------------------------------------------------
(***************************************************************************)
(* Liveness                                                                *)
(***************************************************************************)

(***************************************************************************)
(* The breaker never stays half-open: some outstanding call reports, at the *)
(* latest when its deadline passes.                                         *)
(***************************************************************************)
HalfOpenResolves == state = HalfOpen ~> state # HalfOpen

=============================================================================
