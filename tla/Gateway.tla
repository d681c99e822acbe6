------------------------------ MODULE Gateway ------------------------------
(***************************************************************************)
(* The gateway's RPC handlers, gateway/main.go: IngestTrace, IngestLog and  *)
(* IngestMetric, any number at once, over the limiter and the detector that *)
(* they share, into the dispatch of incidents (AnalysisDispatch).           *)
(*                                                                          *)
(* Limiter and detector appear as what their own modules show them to be: a *)
(* service has one bucket of tokens (RateLimiter!OneBucket), a counter only *)
(* grows (DetectorProofs!RecordStep), and the total that a check arrives at *)
(* lies between the counts at its lookup and at its end                     *)
(* (Detector!CheckIsAccurate).  Metrics and spans are left out.             *)
(***************************************************************************)
EXTENDS AnalysisDispatch, Sequences

CONSTANTS
  Handlers,    \* the RPC handlers at work at one time
  Services,
  Threshold,   \* of the detector
  Capacity,    \* of a bucket
  Batches,     \* of a trace: the services of its error spans, in order
  MaxErrors    \* bound on the errors recorded for one service

ASSUME GatewayAssumption ==
  /\ Threshold \in Nat \ {0}
  /\ Capacity \in Nat \ {0}
  /\ Batches \subseteq Seq(Services)
  /\ MaxErrors \in Nat

VARIABLES
  tokens,      \* tokens[s]: in the bucket of service s
  errCount,    \* errCount[s]: the total of the detector's counter of s
  handler,     \* handler[h]: Idle, or what it is doing
  services,    \* services[i]: inc.Services of incident i, {} before it is one
  \* history, read by properties only
  own,         \* own[s]: errors of s in accepted requests of s itself
  carried      \* carried[s]: errors of s in accepted requests of anyone

gatewayVars == <<vars, tokens, errCount, handler, services, own, carried>>

Idle == [pc |-> "idle"]

\* A handler records errors, has looked the counter up when it was at found,
\* has detected incident inc, or has had it admitted by the breaker.
Working ==
  [pc : {"recording"}, service : Services, errors : Seq(Services)]
    \union [pc : {"counting"}, service : Services, found : Nat]
    \union [pc : {"detected", "admitted"}, service : Services, inc : Incidents]

Recording(s, batch) == [pc |-> "recording", service |-> s, errors |-> batch]
Counting(s, n) == [pc |-> "counting", service |-> s, found |-> n]
Triggering(label, s, i) == [pc |-> label, service |-> s, inc |-> i]

At(h, label) == handler[h].pc = label

HasIncident(h) == At(h, "detected") \/ At(h, "admitted")

GatewayTypeOK ==
  /\ TypeOK
  /\ tokens \in [Services -> 0 .. Capacity]
  /\ errCount \in [Services -> Nat]
  /\ handler \in [Handlers -> Working \union {Idle}]
  /\ services \in [Incidents -> SUBSET Services]
  /\ own \in [Services -> Nat]
  /\ carried \in [Services -> Nat]
  /\ \A h \in Handlers : HasIncident(h) => stage[handler[h].inc] = handler[h].pc
  /\ \A h, k \in Handlers :
       HasIncident(h) /\ HasIncident(k) /\ h # k => handler[h].inc # handler[k].inc

GatewayInit ==
  /\ Init
  /\ tokens = [s \in Services |-> Capacity]
  /\ errCount = [s \in Services |-> 0]
  /\ handler = [h \in Handlers |-> Idle]
  /\ services = [i \in Incidents |-> {}]
  /\ own = [s \in Services |-> 0]
  /\ carried = [s \in Services |-> 0]

-----------------------------------------------------------------------------
(***************************************************************************)
(* Requests                                                                *)
(***************************************************************************)

\* s.ratelimiter.Allow(service).  Without a token the request is answered with
\* ResourceExhausted and changes nothing.
Admitted(s) ==
  /\ tokens[s] > 0
  /\ tokens' = [tokens EXCEPT ![s] = @ - 1]

\* The bucket's refill.
Refill(s) ==
  /\ tokens[s] < Capacity
  /\ tokens' = [tokens EXCEPT ![s] = @ + 1]
  /\ UNCHANGED <<vars, errCount, handler, services, own, carried>>

ErrorsOf(s, batch) == Cardinality({k \in DOMAIN batch : batch[k] = s})

\* The model has errors and incidents left for a request with this batch.
Within(batch) ==
  /\ \A s \in Services : carried[s] + ErrorsOf(s, batch) <= MaxErrors
  /\ Cardinality({h \in Handlers : At(h, "recording") \/ At(h, "counting")})
       < Cardinality(InStage({"undetected"}))

\* Handler h takes on an accepted request of s with these errors.
Ingest(h, s, batch) ==
  /\ serving
  /\ handler[h] = Idle
  /\ Within(batch)
  /\ Admitted(s)
  /\ handler' = [handler EXCEPT ![h] = Recording(s, batch)]
  /\ own' = [own EXCEPT ![s] = @ + ErrorsOf(s, batch)]
  /\ carried' = [r \in Services |-> carried[r] + ErrorsOf(r, batch)]
  /\ UNCHANGED <<vars, errCount, services>>

IngestTrace(h, s) == \E batch \in Batches : Ingest(h, s, batch)

IngestLog(h, s) == \E batch \in {<<>>, <<s>>} : Ingest(h, s, batch)

IngestMetric(s) ==
  /\ serving
  /\ Admitted(s)
  /\ UNCHANGED <<vars, errCount, handler, services, own, carried>>

-----------------------------------------------------------------------------
(***************************************************************************)
(* The detector                                                            *)
(***************************************************************************)

\* Bug variant: a batch counts as one error.
RecordBatch(h) ==
  /\ At(h, "recording")
  /\ handler[h].errors # <<>>
  /\ errCount' = [errCount EXCEPT ![Head(handler[h].errors)] = @ + 1]
  /\ handler' = [handler EXCEPT ![h] = Recording(handler[h].service, <<>>)]
  /\ UNCHANGED <<vars, tokens, services, own, carried>>

\* s.detector.RecordError(sp.ServiceName)
RecordError(h) ==
  /\ At(h, "recording")
  /\ handler[h].errors # <<>>
  /\ errCount' = [errCount EXCEPT ![Head(handler[h].errors)] = @ + 1]
  /\ handler' = [handler EXCEPT ![h] =
                   Recording(handler[h].service, Tail(handler[h].errors))]
  /\ UNCHANGED <<vars, tokens, services, own, carried>>

Return(h) == handler' = [handler EXCEPT ![h] = Idle]

\* s.detector.Check(service) finds a counter, or returns.
Lookup(h) ==
  LET s == handler[h].service IN
  /\ At(h, "recording")
  /\ handler[h].errors = <<>>
  /\ IF errCount[s] = 0
       THEN Return(h)
       ELSE handler' = [handler EXCEPT ![h] = Counting(s, errCount[s])]
  /\ UNCHANGED <<vars, tokens, errCount, services, own, carried>>

\* The totals that the check of h can arrive at.
Totals(h) == handler[h].found .. errCount[handler[h].service]

PassCheck(h) ==
  /\ At(h, "counting")
  /\ \E n \in Totals(h) : n < Threshold
  /\ Return(h)
  /\ UNCHANGED <<vars, tokens, errCount, services, own, carried>>

Reaches(h) == \E n \in Totals(h) : n >= Threshold

\* Check returns an incident, which is counted.
DetectIncident(h) ==
  LET s == handler[h].service IN
  /\ At(h, "counting")
  /\ Reaches(h)
  /\ \E i \in Incidents :
       /\ Detect(i)
       /\ services' = [services EXCEPT ![i] = {s}]
       /\ handler' = [handler EXCEPT ![h] = Triggering("detected", s, i)]
  /\ UNCHANGED <<tokens, errCount, own, carried>>

-----------------------------------------------------------------------------
(***************************************************************************)
(* maybeTriggerAnalysis, up to its goroutine                               *)
(***************************************************************************)

TriggerBlocked(h) ==
  /\ At(h, "detected")
  /\ Block(handler[h].inc)
  /\ Return(h)
  /\ UNCHANGED <<tokens, errCount, services, own, carried>>

\* Bug variant: the breaker is not asked.
TriggerUnasked(h) ==
  /\ At(h, "detected")
  /\ Move(handler[h].inc, "detected", "admitted")
  /\ handler' = [handler EXCEPT ![h] =
                   Triggering("admitted", handler[h].service, handler[h].inc)]
  /\ UNCHANGED <<breakerVars, serving, connected, agentUp, queueDepth, activeIncidents,
                 probes, sinceHalfOpen, tokens, errCount, services, own, carried>>

TriggerAdmitted(h) ==
  /\ At(h, "detected")
  /\ Admit(handler[h].inc)
  /\ handler' = [handler EXCEPT ![h] =
                   Triggering("admitted", handler[h].service, handler[h].inc)]
  /\ UNCHANGED <<tokens, errCount, services, own, carried>>

\* Bug variant: the handler does the goroutine's work first.
TriggerAndWait(h) ==
  /\ At(h, "admitted")
  /\ \/ Dispatch(handler[h].inc) /\ UNCHANGED handler
     \/ stage[handler[h].inc] = "done" /\ Return(h) /\ UNCHANGED vars
  /\ UNCHANGED <<tokens, errCount, services, own, carried>>

\* The goroutine starts, and the handler returns.
TriggerAnalysis(h) ==
  /\ At(h, "admitted")
  /\ Dispatch(handler[h].inc)
  /\ Return(h)
  /\ UNCHANGED <<tokens, errCount, services, own, carried>>

-----------------------------------------------------------------------------

HandlerStep(h) ==
  \/ RecordError(h)
  \/ Lookup(h)
  \/ PassCheck(h)
  \/ DetectIncident(h)
  \/ TriggerBlocked(h)
  \/ TriggerAdmitted(h)
  \/ TriggerAnalysis(h)

\* The steps of goroutines, the agent and the clock.
Behind ==
  /\ \/ \E i \in Incidents :
          Answer(i) \/ Err(i) \/ ReportSuccess(i) \/ ReportFailure(i) \/ Complete(i)
     \/ Connect
     \/ AgentStartsOrStops
     \/ Tick
  /\ UNCHANGED <<tokens, errCount, handler, services, own, carried>>

GatewayNext ==
  \/ \E h \in Handlers, s \in Services : IngestTrace(h, s) \/ IngestLog(h, s)
  \/ \E s \in Services : IngestMetric(s) \/ Refill(s)
  \/ \E h \in Handlers : HandlerStep(h)
  \/ Behind

GatewaySpec == GatewayInit /\ [][GatewayNext]_gatewayVars

\* Fairness: the Go scheduler runs handlers.  None is assumed of an analysis,
\* the agent, the traffic or the clock.
FairGatewaySpec ==
  GatewaySpec /\ \A h \in Handlers : WF_gatewayVars(HandlerStep(h))

-----------------------------------------------------------------------------
(***************************************************************************)
(* Properties                                                              *)
(***************************************************************************)

(***************************************************************************)
(* A service that sends a threshold of errors of its own, split over its    *)
(* traces and logs in whatever way and handled by whichever handlers at     *)
(* once, has an incident when they have been answered.  (Errors of its that *)
(* come in the traces of others are seen only when it sends something.)     *)
(***************************************************************************)
BurstIsSeen ==
  \A s \in Services :
    own[s] >= Threshold =>
      \/ \E i \in Incidents : s \in services[i]
      \/ \E h \in Handlers : handler[h] # Idle /\ handler[h].service = s

(***************************************************************************)
(* The handlers use the dispatch as AnalysisDispatch has it used, so that   *)
(* every safety property that is shown there holds in the gateway.          *)
(***************************************************************************)
IsDispatch == Spec

(***************************************************************************)
(* Every request is answered, whatever becomes of the analysis it starts    *)
(* and of the breaker.                                                      *)
(***************************************************************************)
RequestsAnswered ==
  \A h \in Handlers : handler[h] # Idle ~> handler[h] = Idle
=============================================================================
