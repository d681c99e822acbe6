--------------------------- MODULE GatewayProofs ---------------------------
(***************************************************************************)
(* The gateway, from the breaker up: the circuit breaker for any callers,   *)
(* failure limit and timeout; the dispatch of incidents that calls it, for  *)
(* every finite set of incidents; the ingestion handlers that dispatch, for *)
(* any number of them and of services, and any batches of errors.           *)
(***************************************************************************)
EXTENDS Gateway, FiniteSetTheorems, TLAPS

-----------------------------------------------------------------------------
(***************************************************************************)
(* The breaker.  BreakerTypeOK and CountMatchesState are inductive together *)
(* and from them every method is a step of the two-probe gate.              *)
(***************************************************************************)

\* Every method keeps the types, whoever calls it.
LEMMA BreakerTypeStep ==
  ASSUME BreakerTypeOK, [BreakerNext]_breakerVars
  PROVE  BreakerTypeOK'
<1> USE BreakerAssumption DEF BreakerTypeOK
<1>1. ASSUME NEW admitted \in BOOLEAN, Allow(admitted)
      PROVE  BreakerTypeOK'
  BY <1>1, Zenon DEF Allow, AllowClosed, AllowFirstProbe, AllowNextProbe,
                     Reject, breakerVars
<1>2. CASE Success
  <2>1. failureCount' \in 0..FailureLimit
    BY <1>2 DEF Success, breakerVars
  <2> QED BY <1>2, <2>1, Zenon DEF Success, breakerVars
<1>3. CASE Failure
  <2>1. failureCount' \in 0..FailureLimit /\ sinceFailure' \in 0..Timeout
    BY <1>3 DEF Failure, CountFailure
  <2> QED BY <1>3, <2>1, Zenon DEF Failure
<1>4. CASE Reset
  <2>1. failureCount' \in 0..FailureLimit
    BY <1>4 DEF Reset
  <2> QED BY <1>4, <2>1, Zenon DEF Reset
<1>5. CASE Age
  <2>1. sinceFailure' \in 0..Timeout
    BY <1>5 DEF Age, CooledDown
  <2> QED BY <1>5, <2>1, Zenon DEF Age
<1>6. CASE UNCHANGED breakerVars
  BY <1>6, Zenon DEF breakerVars
<1> QED BY <1>1, <1>2, <1>3, <1>4, <1>5, <1>6, Zenon DEF BreakerNext

\* Every method keeps the failure count and the state in agreement.
LEMMA CountStep ==
  ASSUME BreakerTypeOK, CountMatchesState, [BreakerNext]_breakerVars
  PROVE  CountMatchesState'
<1> USE BreakerAssumption DEF BreakerTypeOK, CountMatchesState,
                              Closed, Open, HalfOpen
<1>1. CASE \E admitted \in BOOLEAN : Allow(admitted)
  BY <1>1 DEF Allow, AllowClosed, AllowFirstProbe, AllowNextProbe, Reject,
              breakerVars
<1>2. CASE Success
  BY <1>2 DEF Success, breakerVars
<1>3. CASE Failure
  BY <1>3 DEF Failure, CountFailure
<1>4. CASE Reset
  BY <1>4 DEF Reset
<1>5. CASE Age
  BY <1>5 DEF Age
<1>6. CASE UNCHANGED breakerVars
  BY <1>6 DEF breakerVars
<1> QED BY <1>1, <1>2, <1>3, <1>4, <1>5, <1>6 DEF BreakerNext

\* The breaker's variables keep their types.
THEOREM BreakerTypeCorrect == BreakerSpec => []BreakerTypeOK
<1>1. BreakerInit => BreakerTypeOK
  <2>1. 0 \in 0..FailureLimit /\ Timeout \in 0..Timeout
    BY BreakerAssumption
  <2> QED BY <2>1, Zenon DEF BreakerInit, BreakerTypeOK
<1>2. BreakerTypeOK /\ [BreakerNext]_breakerVars => BreakerTypeOK'
  BY BreakerTypeStep
<1> QED BY <1>1, <1>2, PTL DEF BreakerSpec

\* A breaker is closed exactly while its count is below the limit, and the
\* half-open flag is set in the half-open state only.
THEOREM CountCorrect == BreakerSpec => []CountMatchesState
<1>1. BreakerInit => CountMatchesState
  BY BreakerAssumption DEF BreakerInit, CountMatchesState, Closed
<1>2. BreakerTypeOK /\ CountMatchesState /\ [BreakerNext]_breakerVars
        => CountMatchesState'
  BY CountStep
<1> QED BY <1>1, <1>2, BreakerTypeCorrect, PTL DEF BreakerSpec

\* Every method of the breaker is a step of the gate, or none.
LEMMA GateStep ==
  ASSUME BreakerTypeOK, CountMatchesState, [BreakerNext]_breakerVars
  PROVE  [Gate!Next]_Gate!vars
<1> USE BreakerAssumption
    DEF BreakerTypeOK, CountMatchesState, GateMode, GateProbes, Gate!vars,
        Closed, Open, HalfOpen
<1>1. ASSUME NEW admitted \in BOOLEAN, Allow(admitted)
      PROVE  [Gate!Next]_Gate!vars
  <2>1. CASE AllowFirstProbe(admitted)
    BY <2>1 DEF AllowFirstProbe, CooledDown, Gate!Next, Gate!FirstProbe
  <2>2. CASE AllowNextProbe(admitted)
    BY <2>2 DEF AllowNextProbe, Gate!Next, Gate!NextProbe
  <2>3. CASE AllowClosed(admitted) \/ Reject(admitted)
    BY <2>3 DEF AllowClosed, Reject, breakerVars
  <2> QED BY <1>1, <2>1, <2>2, <2>3 DEF Allow
<1>2. CASE Success
  BY <1>2 DEF Success, breakerVars, Gate!Next, Gate!Recover
<1>3. CASE Failure
  <2>1. CASE state = Open \/ (state = Closed /\ failureCount + 1 < FailureLimit)
    BY <1>3, <2>1 DEF Failure, CountFailure, Gate!Next, Gate!Setback
  <2>2. CASE state = HalfOpen
             \/ (state = Closed /\ ~(failureCount + 1 < FailureLimit))
    BY <1>3, <2>2 DEF Failure, CountFailure, Gate!Next, Gate!Trip
  <2> QED BY <2>1, <2>2, Zenon
<1>4. CASE Reset
  BY <1>4 DEF Reset, Gate!Next, Gate!Recover
<1>5. CASE Age
  BY <1>5 DEF Age, CooledDown, Gate!Next, Gate!Pass
<1>6. CASE UNCHANGED breakerVars
  BY <1>6 DEF breakerVars
<1> QED BY <1>1, <1>2, <1>3, <1>4, <1>5, <1>6 DEF BreakerNext

\* The breaker implements the gate with two probes.
THEOREM BreakerIsTwoProbeGate == BreakerSpec => TwoProbeGate
<1>1. BreakerInit => Gate!Init
  BY DEF BreakerInit, Gate!Init, GateMode, GateProbes, Closed, Open, HalfOpen
<1>2. BreakerTypeOK /\ CountMatchesState /\ [BreakerNext]_breakerVars
        => [Gate!Next]_Gate!vars
  BY GateStep
<1> QED
  BY <1>1, <1>2, BreakerTypeCorrect, CountCorrect, PTL
     DEF BreakerSpec, TwoProbeGate, Gate!Spec

-----------------------------------------------------------------------------
(***************************************************************************)
(* Every step of the gateway is one method of the breaker, or none.         *)
(***************************************************************************)

\* The incident steps that do not touch the breaker.
LEMMA QuietStep ==
  ASSUME \/ Connect
         \/ AgentStartsOrStops
         \/ \E i \in Incidents : \/ Detect(i) \/ Dispatch(i) \/ Answer(i)
                                 \/ Err(i) \/ Complete(i)
  PROVE  /\ UNCHANGED breakerVars
         /\ UNCHANGED <<probes, sinceHalfOpen>>
BY Zenon DEF Connect, AgentStartsOrStops, Detect, Dispatch, Answer, Err, Complete

\* A step of the gateway is a step of the breaker.
LEMMA DispatchIsBreakerStep ==
  ASSUME [Next]_vars
  PROVE  [BreakerNext]_breakerVars
<1>1. CASE \E i \in Incidents : Block(i) \/ Admit(i)
  BY <1>1, Zenon DEF Block, Admit, BreakerNext
<1>2. CASE \E i \in Incidents : ReportSuccess(i) \/ ReportFailure(i)
  BY <1>2, Zenon DEF ReportSuccess, ReportFailure, BreakerNext
<1>3. CASE Tick
  BY <1>3, Zenon DEF Tick, BreakerNext
<1>4. CASE UNCHANGED vars
  BY <1>4, Zenon DEF vars
<1>5. CASE \/ Connect
           \/ AgentStartsOrStops
           \/ \E i \in Incidents : \/ Detect(i) \/ Dispatch(i) \/ Answer(i)
                                   \/ Err(i) \/ Complete(i)
  BY <1>5, QuietStep, Zenon
<1> QED BY <1>1, <1>2, <1>3, <1>4, <1>5, Zenon DEF Next, Handle

\* The gateway uses the breaker as its specification allows.
THEOREM DispatchUsesBreaker == Spec => BreakerSpec
<1>1. Init => BreakerInit
  BY DEF Init
<1>2. [Next]_vars => [BreakerNext]_breakerVars
  BY DispatchIsBreakerStep
<1> QED BY <1>1, <1>2, PTL DEF Spec, BreakerSpec

-----------------------------------------------------------------------------
(***************************************************************************)
(* The types of the dispatch                                                *)
(***************************************************************************)

\* A step moves at most one incident from one stage to another.
LEMMA StageStep ==
  ASSUME TypeOK, [Next]_vars
  PROVE  stage' \in [Incidents -> Stages]
<1> USE DEF TypeOK, Stages, Move
<1>1. CASE \/ Connect \/ AgentStartsOrStops \/ Tick \/ UNCHANGED vars
  BY <1>1, Zenon DEF Connect, AgentStartsOrStops, Tick, vars, dispatchVars
<1>2. ASSUME NEW i \in Incidents, Detect(i) \/ Handle(i)
      PROVE  stage' \in [Incidents -> Stages]
  <2>1. \E from, to \in Stages : Move(i, from, to)
    BY <1>2, Zenon DEF Detect, Handle, Block, Admit, Dispatch, Answer, Err,
                       ReportSuccess, ReportFailure, Complete
  <2> QED BY <2>1
<1> QED BY <1>1, <1>2, Zenon DEF Next

LEMMA TypeStep ==
  ASSUME TypeOK, [Next]_vars
  PROVE  TypeOK'
<1>1. BreakerTypeOK'
  BY DispatchIsBreakerStep, BreakerTypeStep DEF TypeOK
<1>2. serving' \in BOOLEAN /\ connected' \in BOOLEAN /\ agentUp' \in BOOLEAN
  BY Zenon DEF TypeOK, Next, Connect, AgentStartsOrStops, Detect, Handle,
               Block, Admit, Dispatch, Answer, Err, ReportSuccess,
               ReportFailure, Complete, Tick, vars, dispatchVars
<1>3. queueDepth' \in Int /\ activeIncidents' \in Int
  <2>1. /\ queueDepth' \in {queueDepth, queueDepth + 1, queueDepth - 1}
        /\ activeIncidents' \in
             {activeIncidents, activeIncidents + 1, activeIncidents - 1}
    BY Zenon DEF Next, Connect, AgentStartsOrStops, Detect, Handle,
                 Block, Admit, Dispatch, Answer, Err, ReportSuccess,
                 ReportFailure, Complete, Tick, vars, dispatchVars
  <2>2. queueDepth \in Int /\ activeIncidents \in Int
    BY DEF TypeOK
  <2> QED BY <2>1, <2>2
<1>4. probes' \in SUBSET Incidents
  BY Zenon DEF TypeOK, Next, Connect, AgentStartsOrStops, Detect, Handle,
               Block, Admit, Dispatch, Answer, Err, ReportSuccess,
               ReportFailure, Complete, EndProbing, Tick, vars, dispatchVars
<1>5. sinceHalfOpen' \in 0..Timeout
  <2>1. \/ sinceHalfOpen' = 0
        \/ sinceHalfOpen' = sinceHalfOpen
        \/ sinceHalfOpen' = IF sinceHalfOpen < Timeout
                              THEN sinceHalfOpen + 1 ELSE Timeout
    BY Zenon DEF Next, Connect, AgentStartsOrStops, Detect, Handle,
                 Block, Admit, Dispatch, Answer, Err, ReportSuccess,
                 ReportFailure, Complete, Tick, vars, dispatchVars
  <2>2. sinceHalfOpen \in 0..Timeout
    BY DEF TypeOK
  <2> QED BY <2>1, <2>2, BreakerAssumption
<1> QED BY <1>1, <1>2, <1>3, <1>4, <1>5, StageStep DEF TypeOK

\* Every variable of the dispatch keeps its type.
THEOREM TypeCorrect == Spec => []TypeOK
<1>1. Init => TypeOK
  <2>1. ASSUME Init PROVE BreakerTypeOK
    <3>1. 0 \in 0..FailureLimit /\ Timeout \in 0..Timeout
      BY BreakerAssumption
    <3> QED BY <2>1, <3>1, Zenon DEF Init, BreakerInit, BreakerTypeOK
  <2>2. 0 \in Int /\ Timeout \in 0..Timeout
    BY BreakerAssumption
  <2>3. "undetected" \in Stages
    BY DEF Stages
  <2> QED BY <2>1, <2>2, <2>3, Zenon DEF Init, TypeOK
<1>2. TypeOK /\ [Next]_vars => TypeOK'
  BY TypeStep
<1> QED BY <1>1, <1>2, PTL DEF Spec

-----------------------------------------------------------------------------
(***************************************************************************)
(* The gauges                                                              *)
(***************************************************************************)

\* How the number of incidents in a set S of stages follows one incident.
LEMMA MoveCounts ==
  ASSUME TypeOK, NEW i \in Incidents, NEW from \in Stages, NEW to \in Stages,
         Move(i, from, to), NEW S
  PROVE  /\ from \in S /\ to \in S => InStage(S)' = InStage(S)
         /\ from \notin S /\ to \notin S => InStage(S)' = InStage(S)
         /\ from \notin S /\ to \in S =>
              Cardinality(InStage(S)') = Cardinality(InStage(S)) + 1
         /\ from \in S /\ to \notin S =>
              Cardinality(InStage(S)') = Cardinality(InStage(S)) - 1
<1>1. \A j \in Incidents : stage'[j] = IF j = i THEN to ELSE stage[j]
  BY DEF TypeOK, Move
<1>2. stage[i] = from
  BY DEF Move
<1>3. IsFiniteSet(InStage(S))
  BY IncidentsAssumption, FS_Subset DEF InStage
<1>4. CASE from \in S /\ to \in S
  BY <1>1, <1>2, <1>4, Zenon DEF InStage
<1>5. CASE from \notin S /\ to \notin S
  BY <1>1, <1>2, <1>5, Zenon DEF InStage
<1>6. CASE from \notin S /\ to \in S
  <2>1. InStage(S)' = InStage(S) \union {i}
    BY <1>1, <1>2, <1>6 DEF InStage
  <2>2. i \notin InStage(S)
    BY <1>2, <1>6 DEF InStage
  <2> QED BY <1>3, <1>6, <2>1, <2>2, FS_AddElement
<1>7. CASE from \in S /\ to \notin S
  <2>1. InStage(S)' = InStage(S) \ {i}
    BY <1>1, <1>2, <1>7 DEF InStage
  <2>2. i \in InStage(S)
    BY <1>2, <1>7 DEF InStage
  <2> QED BY <1>3, <1>7, <2>1, <2>2, FS_RemoveElement
<1> QED BY <1>4, <1>5, <1>6, <1>7

LEMMA GaugesStep ==
  ASSUME TypeOK, GaugesAccount, [Next]_vars
  PROVE  GaugesAccount'
<1> DEFINE Same == /\ InStage(Active)' = InStage(Active)
                   /\ InStage(Queued)' = InStage(Queued)
                   /\ UNCHANGED <<queueDepth, activeIncidents>>
<1>1. CASE Same
  BY <1>1 DEF GaugesAccount, Active, Queued
<1>2. CASE \/ Connect \/ AgentStartsOrStops \/ Tick \/ UNCHANGED vars
  <2>1. UNCHANGED <<stage, queueDepth, activeIncidents>>
    BY <1>2, Zenon DEF Connect, AgentStartsOrStops, Tick, vars, dispatchVars
  <2> QED BY <2>1, <1>1 DEF InStage
<1>3. ASSUME NEW i \in Incidents, Detect(i)
      PROVE  GaugesAccount'
  <2>1. Move(i, "undetected", "detected") /\ queueDepth' = queueDepth + 1
          /\ activeIncidents' = activeIncidents
    BY <1>3, Zenon DEF Detect
  <2>2. /\ InStage(Active)' = InStage(Active)
        /\ Cardinality(InStage(Queued)') = Cardinality(InStage(Queued)) + 1
    BY <2>1, MoveCounts DEF Stages, Active, Queued
  <2> QED BY <2>1, <2>2 DEF GaugesAccount, Active, Queued
<1>4. ASSUME NEW i \in Incidents, Dispatch(i)
      PROVE  GaugesAccount'
  <2>1. Move(i, "admitted", "analyzing") /\ queueDepth' = queueDepth - 1
          /\ activeIncidents' = activeIncidents + 1
    BY <1>4, Zenon DEF Dispatch
  <2>2. /\ Cardinality(InStage(Active)') = Cardinality(InStage(Active)) + 1
        /\ Cardinality(InStage(Queued)') = Cardinality(InStage(Queued)) - 1
    BY <2>1, MoveCounts DEF Stages, Active, Queued
  <2> QED BY <2>1, <2>2 DEF GaugesAccount, Active, Queued
<1>5. ASSUME NEW i \in Incidents, Complete(i)
      PROVE  GaugesAccount'
  <2>1. Move(i, "reported", "done") /\ queueDepth' = queueDepth
          /\ activeIncidents' = activeIncidents - 1
    BY <1>5, Zenon DEF Complete
  <2>2. /\ Cardinality(InStage(Active)') = Cardinality(InStage(Active)) - 1
        /\ InStage(Queued)' = InStage(Queued)
    BY <2>1, MoveCounts DEF Stages, Active, Queued
  <2> QED BY <2>1, <2>2 DEF GaugesAccount, Active, Queued
<1>6. ASSUME NEW i \in Incidents, Block(i) \/ Admit(i)
      PROVE  GaugesAccount'
  <2>1. PICK to \in {"blocked", "admitted"} :
          Move(i, "detected", to) /\ UNCHANGED <<queueDepth, activeIncidents>>
    BY <1>6, Zenon DEF Block, Admit
  <2>2. Same
    BY <2>1, MoveCounts DEF Stages, Active, Queued
  <2> QED BY <1>1, <2>2
<1>7. ASSUME NEW i \in Incidents,
             Answer(i) \/ Err(i) \/ ReportSuccess(i) \/ ReportFailure(i)
      PROVE  GaugesAccount'
  <2>1. PICK from \in Active, to \in Active :
          Move(i, from, to) /\ UNCHANGED <<queueDepth, activeIncidents>>
    BY <1>7, Zenon DEF Answer, Err, ReportSuccess, ReportFailure, Active
  <2>2. Same
    BY <2>1, MoveCounts DEF Stages, Active, Queued
  <2> QED BY <1>1, <2>2
<1> QED
  BY <1>2, <1>3, <1>4, <1>5, <1>6, <1>7, Zenon DEF Next, Handle

\* The two gauges are exact in every state: one counts the goroutines at
\* work, the other the undecided incidents and all those ever blocked.
THEOREM GaugesCorrect == Spec => []GaugesAccount
<1>1. Init => GaugesAccount
  <2>1. ASSUME Init, NEW S, "undetected" \notin S
        PROVE  Cardinality(InStage(S)) = 0
    <3>1. InStage(S) = {}
      BY <2>1 DEF Init, InStage
    <3> QED BY <3>1, FS_EmptySet
  <2> QED BY <2>1 DEF Init, GaugesAccount, Active, Queued
<1>2. TypeOK /\ GaugesAccount /\ [Next]_vars => GaugesAccount'
  BY GaugesStep
<1> QED BY <1>1, <1>2, TypeCorrect, PTL DEF Spec

-----------------------------------------------------------------------------
(***************************************************************************)
(* Half-open periods                                                       *)
(***************************************************************************)

\* Whoever reports, the breaker is not half-open afterwards.
LEMMA ReportDecides ==
  ASSUME TypeOK, Success \/ Failure
  PROVE  state' # HalfOpen
BY DEF TypeOK, BreakerTypeOK, Success, Failure, breakerVars,
       Closed, Open, HalfOpen

\* An admission leaves the breaker closed, starts a half-open period, or is
\* the second of one.
LEMMA AdmitCases ==
  ASSUME Allow(TRUE)
  PROVE  \/ state = Closed /\ UNCHANGED breakerVars
         \/ state = Open /\ CooledDown /\ state' = HalfOpen /\ ~halfOpenSent'
         \/ state = HalfOpen /\ ~halfOpenSent
              /\ state' = HalfOpen /\ halfOpenSent'
BY Zenon DEF Allow, AllowClosed, AllowFirstProbe, AllowNextProbe, Reject

\* The outstanding incidents after incident i has moved.
LEMMA MoveOutstanding ==
  ASSUME TypeOK, NEW i \in Incidents, NEW from \in Stages, NEW to \in Stages,
         Move(i, from, to)
  PROVE  /\ Outstanding \ {i} \subseteq Outstanding'
         /\ to \in {"admitted", "analyzing", "answered", "errored"} =>
              i \in Outstanding'
         /\ from \notin {"admitted", "analyzing", "answered", "errored"} =>
              i \notin Outstanding
<1>1. \A j \in Incidents : stage'[j] = IF j = i THEN to ELSE stage[j]
  BY DEF TypeOK, Move
<1>2. stage[i] = from
  BY DEF Move
<1> QED BY <1>1, <1>2 DEF Outstanding, InStage

LEMMA WatchedStep ==
  ASSUME TypeOK, HalfOpenIsWatched, [Next]_vars
  PROVE  HalfOpenIsWatched'
<1>1. ASSUME UNCHANGED breakerVars, UNCHANGED probes,
             Outstanding \subseteq Outstanding' \/ probes \subseteq Outstanding'
      PROVE  HalfOpenIsWatched'
  BY <1>1, Zenon DEF HalfOpenIsWatched, breakerVars
<1>2. CASE Connect \/ AgentStartsOrStops \/ Tick \/ UNCHANGED vars
  <2>1. UNCHANGED <<stage, probes, state, halfOpenSent>>
    BY <1>2, Zenon DEF Connect, AgentStartsOrStops, Tick, Age, vars,
                       breakerVars, dispatchVars
  <2> QED BY <2>1, Zenon DEF HalfOpenIsWatched, Outstanding, InStage
<1>3. ASSUME NEW i \in Incidents,
             Dispatch(i) \/ Answer(i) \/ Err(i)
      PROVE  HalfOpenIsWatched'
  <2>1. PICK from \in Stages, to \in {"analyzing", "answered", "errored"} :
          Move(i, from, to)
    BY <1>3, Zenon DEF Dispatch, Answer, Err, Stages
  <2>2. Outstanding \subseteq Outstanding'
    BY <2>1, MoveOutstanding DEF Stages
  <2> QED BY <1>1, <1>3, <2>2, QuietStep, Zenon
<1>4. ASSUME NEW i \in Incidents,
             Detect(i) \/ Block(i) \/ Complete(i)
      PROVE  HalfOpenIsWatched'
  <2>1. PICK from \in {"undetected", "detected", "reported"}, to \in Stages :
          Move(i, from, to)
    BY <1>4, Zenon DEF Detect, Block, Complete, Stages
  <2>2. Outstanding \subseteq Outstanding'
    BY <2>1, MoveOutstanding DEF Stages
  <2>3. UNCHANGED breakerVars /\ UNCHANGED probes
    BY <1>4, Zenon DEF Detect, Block, Complete, Allow, AllowClosed,
                       AllowFirstProbe, AllowNextProbe, Reject
  <2> QED BY <1>1, <2>2, <2>3, Zenon
<1>5. ASSUME NEW i \in Incidents, ReportSuccess(i) \/ ReportFailure(i)
      PROVE  HalfOpenIsWatched'
  <2>1. state' # HalfOpen
    BY <1>5, ReportDecides, Zenon DEF ReportSuccess, ReportFailure
  <2>2. probes' = {}
    BY <1>5, <2>1, Zenon DEF ReportSuccess, ReportFailure, EndProbing
  <2> QED BY <2>1, <2>2, Zenon DEF HalfOpenIsWatched
<1>6. ASSUME NEW i \in Incidents, Admit(i)
      PROVE  HalfOpenIsWatched'
  <2>1. /\ Move(i, "detected", "admitted")
        /\ Allow(TRUE)
        /\ probes' = IF state' = HalfOpen THEN probes \union {i} ELSE probes
    BY <1>6, Zenon DEF Admit
  <2>2. /\ Outstanding \subseteq Outstanding'
        /\ i \in Outstanding'
        /\ i \notin Outstanding
    BY <2>1, MoveOutstanding DEF Stages
  <2>3. probes' \subseteq Outstanding'
    BY <2>1, <2>2, Zenon DEF HalfOpenIsWatched
  <2>4. CASE state = Closed /\ UNCHANGED breakerVars
    <3>1. state' = state /\ state' # HalfOpen
      BY <2>4 DEF breakerVars, Closed, HalfOpen
    <3> QED BY <2>1, <2>3, <3>1, Zenon DEF HalfOpenIsWatched
  <2>5. CASE state = Open /\ state' = HalfOpen /\ ~halfOpenSent'
    <3>1. state # HalfOpen
      BY <2>5 DEF Open, HalfOpen
    <3>2. probes' = {i}
      BY <2>1, <2>5, <3>1, Zenon DEF HalfOpenIsWatched
    <3>3. Cardinality(probes') = 1
      BY <3>2, FS_Singleton, Zenon
    <3> QED BY <2>3, <2>5, <3>2, <3>3, Zenon DEF HalfOpenIsWatched
  <2>6. CASE /\ state = HalfOpen /\ ~halfOpenSent
             /\ state' = HalfOpen /\ halfOpenSent'
    <3>1. Cardinality(probes) = 1 /\ probes' = probes \union {i}
      BY <2>1, <2>6, Zenon DEF HalfOpenIsWatched
    <3>2. IsFiniteSet(probes)
      BY IncidentsAssumption, FS_Subset, Zenon DEF TypeOK
    <3>3. i \notin probes
      BY <2>2, Zenon DEF HalfOpenIsWatched
    <3>4. Cardinality(probes') = 2
      BY <3>1, <3>2, <3>3, FS_AddElement
    <3> QED BY <2>3, <2>6, <3>1, <3>4, Zenon DEF HalfOpenIsWatched
  <2> QED BY <2>1, <2>4, <2>5, <2>6, AdmitCases, Zenon
<1> QED
  BY <1>2, <1>3, <1>4, <1>5, <1>6, Zenon DEF Next, Handle

\* A half-open breaker is always being decided by one or two outstanding
\* probes, so it cannot be forgotten half-open.
THEOREM HalfOpenWatched == Spec => []HalfOpenIsWatched
<1>1. Init => HalfOpenIsWatched
  BY DEF Init, BreakerInit, HalfOpenIsWatched, Closed, HalfOpen
<1>2. TypeOK /\ HalfOpenIsWatched /\ [Next]_vars => HalfOpenIsWatched'
  BY WatchedStep
<1> QED BY <1>1, <1>2, TypeCorrect, PTL DEF Spec

\* An open breaker has failed since it was last half-open.
SpacingInv == state = Open => sinceFailure <= sinceHalfOpen

LEMMA SpacingStep ==
  ASSUME TypeOK, SpacingInv, [Next]_vars
  PROVE  SpacingInv'
<1> USE BreakerAssumption
<1>1. CASE UNCHANGED <<state, sinceFailure, sinceHalfOpen>>
  BY <1>1, Zenon DEF SpacingInv
<1>2. CASE Tick
  <2>1. /\ sinceFailure' = IF sinceFailure >= Timeout
                             THEN Timeout ELSE sinceFailure + 1
        /\ sinceHalfOpen' = IF sinceHalfOpen < Timeout
                              THEN sinceHalfOpen + 1 ELSE Timeout
        /\ state' = state
    BY <1>2, Zenon DEF Tick, Age, CooledDown
  <2>2. sinceFailure \in 0..Timeout /\ sinceHalfOpen \in 0..Timeout
    BY Zenon DEF TypeOK, BreakerTypeOK
  <2> QED BY <2>1, <2>2 DEF SpacingInv
<1>3. ASSUME NEW i \in Incidents, Admit(i)
      PROVE  SpacingInv'
  <2>1. Allow(TRUE)
    BY <1>3, Zenon DEF Admit
  <2>2. state' # Open
    <3>1. CASE state = Closed /\ UNCHANGED breakerVars
      BY <3>1 DEF breakerVars, Closed, Open
    <3>2. CASE state' = HalfOpen
      BY <3>2 DEF HalfOpen, Open
    <3> QED BY <2>1, <3>1, <3>2, AdmitCases, Zenon
  <2> QED BY <2>2, Zenon DEF SpacingInv
<1>4. ASSUME NEW i \in Incidents, ReportFailure(i)
      PROVE  SpacingInv'
  <2>1. sinceFailure' = 0 /\ sinceHalfOpen' = sinceHalfOpen
    BY <1>4, Zenon DEF ReportFailure, Failure
  <2>2. sinceHalfOpen \in 0..Timeout
    BY Zenon DEF TypeOK
  <2> QED BY <2>1, <2>2 DEF SpacingInv
<1>5. ASSUME NEW i \in Incidents, ReportSuccess(i)
      PROVE  SpacingInv'
  <2>1. state' = Closed \/ UNCHANGED breakerVars
    BY <1>5, Zenon DEF ReportSuccess, Success
  <2>2. CASE state' = Closed
    BY <2>2 DEF SpacingInv, Closed, Open
  <2>3. CASE UNCHANGED breakerVars
    BY <1>1, <1>5, <2>3, Zenon DEF ReportSuccess, breakerVars
  <2> QED BY <2>1, <2>2, <2>3, Zenon
<1>6. CASE \/ Connect \/ AgentStartsOrStops
           \/ \E i \in Incidents : \/ Detect(i) \/ Dispatch(i) \/ Answer(i)
                                   \/ Err(i) \/ Complete(i)
  BY <1>1, <1>6, QuietStep, Zenon DEF breakerVars
<1>7. CASE (\E i \in Incidents : Block(i)) \/ UNCHANGED vars
  <2>1. UNCHANGED <<state, sinceFailure, sinceHalfOpen>>
    BY <1>7, Zenon DEF Block, Allow, AllowClosed, AllowFirstProbe,
                       AllowNextProbe, Reject, breakerVars, dispatchVars, vars
  <2> QED BY <1>1, <2>1
<1> QED
  BY <1>2, <1>3, <1>4, <1>5, <1>6, <1>7, Zenon DEF Next, Handle

\* The breaker becomes half-open only from open, by an admission that found
\* it rested.
LEMMA HalfOpenStep ==
  ASSUME TypeOK, SpacingInv, [Next]_vars,
         state # HalfOpen, state' = HalfOpen
  PROVE  sinceHalfOpen >= Timeout
<1>1. CASE state = Open /\ CooledDown
  <2>1. sinceFailure <= sinceHalfOpen
    BY <1>1, Zenon DEF SpacingInv
  <2>2. sinceFailure \in 0..Timeout /\ sinceHalfOpen \in 0..Timeout
    BY Zenon DEF TypeOK, BreakerTypeOK
  <2> QED BY <1>1, <2>1, <2>2, BreakerAssumption DEF CooledDown
<1>2. CASE ~(state = Open /\ CooledDown)
  <2>1. ~Allow(TRUE) /\ ~Allow(FALSE)
    <3>1. ~Allow(TRUE)
      BY <1>2, AdmitCases, Zenon DEF breakerVars
    <3>2. Allow(FALSE) => UNCHANGED breakerVars
      BY Zenon DEF Allow, AllowClosed, AllowFirstProbe, AllowNextProbe, Reject
    <3> QED BY <3>1, <3>2, Zenon DEF breakerVars
  <2>2. ~Success /\ ~Failure
    BY ReportDecides, Zenon
  <2>3. UNCHANGED state
    BY <2>1, <2>2, Zenon
       DEF Next, Connect, AgentStartsOrStops, Detect, Handle, Block, Admit,
           Dispatch, Answer, Err, ReportSuccess, ReportFailure, Complete,
           Tick, Age, vars, breakerVars
  <2> QED BY <2>3, Zenon
<1> QED BY <1>1, <1>2, Zenon

\* Two half-open periods begin at least Timeout apart.
THEOREM ProbesSpaced == Spec => ProbeSpacing
<1>1. Init => SpacingInv
  BY DEF Init, BreakerInit, SpacingInv, Closed, Open
<1>2. TypeOK /\ SpacingInv /\ [Next]_vars => SpacingInv'
  BY SpacingStep
<1>3. TypeOK /\ SpacingInv /\ [Next]_vars
        => [state # HalfOpen /\ state' = HalfOpen
              => sinceHalfOpen >= Timeout]_vars
  BY HalfOpenStep, Zenon
<1> QED BY <1>1, <1>2, <1>3, TypeCorrect, PTL DEF Spec, ProbeSpacing

-----------------------------------------------------------------------------
(***************************************************************************)
(* The handlers detect, and trigger the analysis, as the dispatch allows.   *)
(***************************************************************************)

\* A step of a handler up to its Check leaves the dispatch alone.
LEMMA FrontStep ==
  ASSUME \/ \E h \in Handlers, s \in Services : IngestTrace(h, s) \/ IngestLog(h, s)
         \/ \E s \in Services : IngestMetric(s) \/ Refill(s)
         \/ \E h \in Handlers : RecordError(h) \/ Lookup(h) \/ PassCheck(h)
  PROVE  UNCHANGED vars
BY Zenon DEF IngestTrace, IngestLog, Ingest, IngestMetric, Refill, RecordError,
             Lookup, PassCheck

LEMMA GatewayIsDispatchStep ==
  ASSUME GatewayTypeOK, [GatewayNext]_gatewayVars
  PROVE  [Next]_vars
<1>1. CASE UNCHANGED gatewayVars
  BY <1>1, Zenon DEF gatewayVars
<1>2. ASSUME NEW h \in Handlers, DetectIncident(h)
      PROVE  Next
  BY <1>2, Zenon DEF DetectIncident, Next
<1>3. ASSUME NEW h \in Handlers, HasIncident(h)
      PROVE  handler[h].inc \in Incidents
  <2>1. handler[h] \in Working \union {Idle}
    BY DEF GatewayTypeOK
  <2> QED BY <1>3, <2>1 DEF HasIncident, At, Working, Idle
<1>4. ASSUME NEW h \in Handlers,
             TriggerBlocked(h) \/ TriggerAdmitted(h) \/ TriggerAnalysis(h)
      PROVE  Next
  <2>1. HasIncident(h)
    BY <1>4, Zenon DEF TriggerBlocked, TriggerAdmitted, TriggerAnalysis, HasIncident
  <2>2. Handle(handler[h].inc)
    BY <1>4, Zenon DEF TriggerBlocked, TriggerAdmitted, TriggerAnalysis, Handle
  <2> QED BY <1>3, <2>1, <2>2, Zenon DEF Next
<1>5. CASE Behind
  BY <1>5, Zenon DEF Behind, Next, Handle
<1>6. CASE \/ \E h \in Handlers, s \in Services : IngestTrace(h, s) \/ IngestLog(h, s)
           \/ \E s \in Services : IngestMetric(s) \/ Refill(s)
           \/ \E h \in Handlers : RecordError(h) \/ Lookup(h) \/ PassCheck(h)
  BY <1>6, FrontStep, Zenon
<1> QED BY <1>1, <1>2, <1>4, <1>5, <1>6, Zenon DEF GatewayNext, HandlerStep

-----------------------------------------------------------------------------
(***************************************************************************)
(* The types of the handlers                                                *)
(***************************************************************************)

LEMMA ErrorsOfIsNat ==
  ASSUME NEW s, NEW batch \in Seq(Services)
  PROVE  ErrorsOf(s, batch) \in Nat
<1>1. IsFiniteSet(1 .. Len(batch))
  BY FS_Interval
<1>2. IsFiniteSet({k \in DOMAIN batch : batch[k] = s})
  BY <1>1, FS_Subset
<1> QED BY <1>2, FS_CardinalityType DEF ErrorsOf

LEMMA BatchesOfRequests ==
  ASSUME NEW s \in Services, NEW batch \in Batches \union {<<>>, <<s>>}
  PROVE  batch \in Seq(Services)
<1>1. <<s>> \in Seq(Services) /\ <<>> \in Seq(Services)
  OBVIOUS
<1> QED BY <1>1, GatewayAssumption

\* The variables of limiter and detector, and the history.
LEMMA CountersStep ==
  ASSUME GatewayTypeOK, [GatewayNext]_gatewayVars
  PROVE  /\ tokens' \in [Services -> 0 .. Capacity]
         /\ errCount' \in [Services -> Nat]
         /\ services' \in [Incidents -> SUBSET Services]
         /\ own' \in [Services -> Nat]
         /\ carried' \in [Services -> Nat]
<1>1. /\ tokens \in [Services -> 0 .. Capacity]
      /\ errCount \in [Services -> Nat]
      /\ handler \in [Handlers -> Working \union {Idle}]
      /\ services \in [Incidents -> SUBSET Services]
      /\ own \in [Services -> Nat]
      /\ carried \in [Services -> Nat]
  BY Zenon DEF GatewayTypeOK
<1>2. CASE UNCHANGED <<tokens, errCount, services, own, carried>>
  BY <1>1, <1>2
<1>3. ASSUME NEW s \in Services, Admitted(s)
      PROVE  tokens' \in [Services -> 0 .. Capacity]
  BY <1>1, <1>3, GatewayAssumption DEF Admitted
<1>4. ASSUME NEW h \in Handlers, NEW s \in Services, NEW batch \in Batches \union {<<>>, <<s>>},
             Ingest(h, s, batch)
      PROVE  /\ own' \in [Services -> Nat]
             /\ carried' \in [Services -> Nat]
             /\ tokens' \in [Services -> 0 .. Capacity]
             /\ UNCHANGED <<errCount, services>>
  <2>1. \A r \in Services : ErrorsOf(r, batch) \in Nat
    BY BatchesOfRequests, ErrorsOfIsNat
  <2> QED BY <1>1, <1>3, <1>4, <2>1 DEF Ingest
<1>5. ASSUME NEW h \in Handlers, NEW s \in Services, IngestTrace(h, s) \/ IngestLog(h, s)
      PROVE  \E batch \in Batches \union {<<>>, <<s>>} : Ingest(h, s, batch)
  BY <1>5, Zenon DEF IngestTrace, IngestLog
<1>6. ASSUME NEW s \in Services, IngestMetric(s) \/ Refill(s)
      PROVE  /\ tokens' \in [Services -> 0 .. Capacity]
             /\ UNCHANGED <<errCount, services, own, carried>>
  <2>1. CASE IngestMetric(s)
    BY <1>3, <2>1 DEF IngestMetric
  <2>2. CASE Refill(s)
    BY <1>1, <2>2, GatewayAssumption DEF Refill
  <2> QED BY <1>6, <2>1, <2>2
<1>7. ASSUME NEW h \in Handlers, RecordError(h)
      PROVE  /\ errCount' \in [Services -> Nat]
             /\ UNCHANGED <<tokens, services, own, carried>>
  <2>1. handler[h].errors \in Seq(Services)
    <3>1. At(h, "recording")
      BY <1>7, Zenon DEF RecordError
    <3>2. handler[h] \in Working \union {Idle}
      BY <1>1, Zenon
    <3> QED BY <3>1, <3>2 DEF At, Working, Idle
  <2>2. Head(handler[h].errors) \in Services
    <3>1. handler[h].errors # <<>>
      BY <1>7, Zenon DEF RecordError
    <3> QED BY <2>1, <3>1
  <2> DEFINE s == Head(handler[h].errors)
  <2>3. errCount' = [errCount EXCEPT ![s] = errCount[s] + 1]
    BY <1>7, Zenon DEF RecordError
  <2>4. s \in Services
    BY <2>2
  <2> HIDE DEF s
  <2>5. errCount' \in [Services -> Nat]
    BY <1>1, <2>3, <2>4
  <2> QED BY <1>7, <2>5, Zenon DEF RecordError
<1>8. ASSUME NEW h \in Handlers, DetectIncident(h)
      PROVE  /\ services' \in [Incidents -> SUBSET Services]
             /\ UNCHANGED <<tokens, errCount, own, carried>>
  <2>1. handler[h].service \in Services
    BY <1>1, <1>8 DEF DetectIncident, At, Working, Idle
  <2> QED BY <1>1, <1>8, <2>1 DEF DetectIncident
<1>9. ASSUME NEW h \in Handlers,
             \/ Lookup(h) \/ PassCheck(h) \/ TriggerBlocked(h)
             \/ TriggerAdmitted(h) \/ TriggerAnalysis(h)
      PROVE  UNCHANGED <<tokens, errCount, services, own, carried>>
  BY <1>9, Zenon DEF Lookup, PassCheck, TriggerBlocked, TriggerAdmitted, TriggerAnalysis
<1>10. CASE Behind \/ UNCHANGED gatewayVars
  BY <1>2, <1>10, Zenon DEF Behind, gatewayVars
<1>11. CASE \E h \in Handlers, s \in Services : IngestTrace(h, s) \/ IngestLog(h, s)
  BY <1>1, <1>4, <1>5, <1>11
<1>12. CASE \E s \in Services : IngestMetric(s) \/ Refill(s)
  BY <1>1, <1>6, <1>12
<1>13. CASE \E h \in Handlers : HandlerStep(h)
  BY <1>1, <1>2, <1>7, <1>8, <1>9, <1>13 DEF HandlerStep
<1> QED BY <1>10, <1>11, <1>12, <1>13, Zenon DEF GatewayNext

\* What a step that is not in Behind does to the handlers: one of them goes on
\* to a state of the right form, or none does.
LEMMA HandlerStepType ==
  ASSUME GatewayTypeOK, [GatewayNext]_gatewayVars
  PROVE  handler' \in [Handlers -> Working \union {Idle}]
<1>1. /\ handler \in [Handlers -> Working \union {Idle}]
      /\ errCount \in [Services -> Nat]
  BY Zenon DEF GatewayTypeOK
<1>2. ASSUME NEW h \in Handlers, NEW v \in Working \union {Idle},
             handler' = [handler EXCEPT ![h] = v]
      PROVE  handler' \in [Handlers -> Working \union {Idle}]
  BY <1>1, <1>2, Zenon
<1>3. ASSUME NEW h \in Handlers, NEW s \in Services, NEW batch \in Batches \union {<<>>, <<s>>},
             Ingest(h, s, batch)
      PROVE  handler' \in [Handlers -> Working \union {Idle}]
  <2>1. Recording(s, batch) \in Working
    BY BatchesOfRequests DEF Recording, Working
  <2> QED BY <1>2, <1>3, <2>1, Zenon DEF Ingest
<1>4. ASSUME NEW h \in Handlers, RecordError(h)
      PROVE  handler' \in [Handlers -> Working \union {Idle}]
  <2>1. handler[h].service \in Services /\ handler[h].errors \in Seq(Services)
    BY <1>1, <1>4 DEF RecordError, At, Working, Idle
  <2>2. handler[h].errors # <<>>
    BY <1>4, Zenon DEF RecordError
  <2>3. Tail(handler[h].errors) \in Seq(Services)
    BY <2>1, <2>2
  <2>4. Recording(handler[h].service, Tail(handler[h].errors)) \in Working
    BY <2>1, <2>3 DEF Recording, Working
  <2> QED BY <1>2, <1>4, <2>4, Zenon DEF RecordError
<1>5. ASSUME NEW h \in Handlers, Return(h)
      PROVE  handler' \in [Handlers -> Working \union {Idle}]
  BY <1>2, <1>5, Zenon DEF Return
<1>6. ASSUME NEW h \in Handlers, Lookup(h)
      PROVE  handler' \in [Handlers -> Working \union {Idle}]
  <2>1. handler[h].service \in Services
    BY <1>1, <1>6 DEF Lookup, At, Working, Idle
  <2>2. Counting(handler[h].service, errCount[handler[h].service]) \in Working
    BY <1>1, <2>1 DEF Counting, Working
  <2> QED BY <1>2, <1>5, <1>6, <2>2, Zenon DEF Lookup
<1>7. ASSUME NEW h \in Handlers, DetectIncident(h)
      PROVE  handler' \in [Handlers -> Working \union {Idle}]
  <2>1. handler[h].service \in Services
    BY <1>1, <1>7 DEF DetectIncident, At, Working, Idle
  <2>2. \A i \in Incidents : Triggering("detected", handler[h].service, i) \in Working
    BY <2>1 DEF Triggering, Working
  <2> QED BY <1>2, <1>7, <2>2, Zenon DEF DetectIncident
<1>8. ASSUME NEW h \in Handlers, TriggerAdmitted(h)
      PROVE  handler' \in [Handlers -> Working \union {Idle}]
  <2>1. handler[h].service \in Services /\ handler[h].inc \in Incidents
    BY <1>1, <1>8 DEF TriggerAdmitted, At, Working, Idle
  <2>2. Triggering("admitted", handler[h].service, handler[h].inc) \in Working
    BY <2>1 DEF Triggering, Working
  <2> QED BY <1>2, <1>8, <2>2, Zenon DEF TriggerAdmitted
<1>9. CASE \E h \in Handlers, s \in Services : IngestTrace(h, s) \/ IngestLog(h, s)
  BY <1>3, <1>9, Zenon DEF IngestTrace, IngestLog
<1>10. CASE \E h \in Handlers : HandlerStep(h)
  BY <1>4, <1>5, <1>6, <1>7, <1>8, <1>10, Zenon
     DEF HandlerStep, PassCheck, TriggerBlocked, TriggerAnalysis
<1>11. CASE UNCHANGED handler
  BY <1>1, <1>11, Zenon
<1> QED BY <1>9, <1>10, <1>11, Zenon
        DEF GatewayNext, Behind, IngestMetric, Refill, gatewayVars

\* A handler that has an incident keeps it, and the incident its stage, in a
\* step that leaves the handler alone and moves no incident of its stages.
LEMMA IncidentsApart ==
  ASSUME GatewayTypeOK, NEW h \in Handlers, NEW k \in Handlers, h # k,
         HasIncident(h), HasIncident(k)
  PROVE  handler[h].inc # handler[k].inc
BY Zenon DEF GatewayTypeOK

\* What a handler has detected is moved by that handler alone.
LEMMA BehindStep ==
  ASSUME GatewayTypeOK, Behind, NEW h \in Handlers, HasIncident(h)
  PROVE  stage'[handler[h].inc] = stage[handler[h].inc]
<1>1. stage \in [Incidents -> Stages]
  BY Zenon DEF GatewayTypeOK, TypeOK
<1>2. stage[handler[h].inc] \in {"detected", "admitted"}
  BY DEF GatewayTypeOK, HasIncident, At
<1>3. CASE UNCHANGED stage
  BY <1>3
<1>4. ASSUME NEW i \in Incidents, NEW from, NEW to, Move(i, from, to),
             from \notin {"detected", "admitted"}
      PROVE  stage'[handler[h].inc] = stage[handler[h].inc]
  BY <1>1, <1>2, <1>4 DEF Move
<1>5. CASE \E i \in Incidents :
             Answer(i) \/ Err(i) \/ ReportSuccess(i) \/ ReportFailure(i) \/ Complete(i)
  <2>1. /\ "analyzing" \notin {"detected", "admitted"}
        /\ "answered" \notin {"detected", "admitted"}
        /\ "errored" \notin {"detected", "admitted"}
        /\ "reported" \notin {"detected", "admitted"}
    OBVIOUS
  <2> QED BY <1>4, <1>5, <2>1, Zenon
          DEF Answer, Err, ReportSuccess, ReportFailure, Complete
<1> QED BY <1>3, <1>5, Zenon DEF Behind, Connect, AgentStartsOrStops, Tick

LEMMA HandledStep ==
  ASSUME GatewayTypeOK, [GatewayNext]_gatewayVars
  PROVE  /\ \A h \in Handlers : HasIncident(h)' => stage'[handler'[h].inc] = handler'[h].pc
         /\ \A h, k \in Handlers :
              HasIncident(h)' /\ HasIncident(k)' /\ h # k => handler'[h].inc # handler'[k].inc
<1> DEFINE Stays(h) == handler'[h] = handler[h]
           Drops(h) == ~HasIncident(h)'
           StageKept(h) == HasIncident(h) => stage'[handler[h].inc] = stage[handler[h].inc]
<1>1. /\ handler \in [Handlers -> Working \union {Idle}]
      /\ stage \in [Incidents -> Stages]
      /\ \A h \in Handlers : HasIncident(h) => stage[handler[h].inc] = handler[h].pc
      /\ \A h, k \in Handlers :
           HasIncident(h) /\ HasIncident(k) /\ h # k => handler[h].inc # handler[k].inc
  BY Zenon DEF GatewayTypeOK, TypeOK
\* The handlers that go on have no incident afterwards, the others stay.
<1>2. ASSUME \A h \in Handlers : Drops(h) \/ (Stays(h) /\ StageKept(h))
      PROVE  /\ \A h \in Handlers : HasIncident(h)' => stage'[handler'[h].inc] = handler'[h].pc
             /\ \A h, k \in Handlers :
                  HasIncident(h)' /\ HasIncident(k)' /\ h # k
                    => handler'[h].inc # handler'[k].inc
  <2>1. ASSUME NEW h \in Handlers, HasIncident(h)'
        PROVE  /\ HasIncident(h) /\ handler'[h] = handler[h]
               /\ stage'[handler'[h].inc] = handler'[h].pc
    <3>1. handler'[h] = handler[h] /\ StageKept(h)
      BY <1>2, <2>1, Zenon
    <3>2. HasIncident(h)
      BY <2>1, <3>1, Zenon DEF HasIncident, At
    <3> QED BY <1>1, <3>1, <3>2, Zenon
  <2> HIDE DEF HasIncident
  <2>2. \A h, k \in Handlers :
          HasIncident(h)' /\ HasIncident(k)' /\ h # k => handler'[h].inc # handler'[k].inc
    BY <1>1, <2>1, Zenon
  <2> QED BY <2>1, <2>2, Zenon
\* One of them goes on with an incident that no other has.
<1>3. ASSUME NEW h \in Handlers,
             HasIncident(h)', stage'[handler'[h].inc] = handler'[h].pc,
             \A k \in Handlers \ {h} :
               /\ Stays(k) /\ StageKept(k)
               /\ HasIncident(k) => handler[k].inc # handler'[h].inc
      PROVE  /\ \A k \in Handlers : HasIncident(k)' => stage'[handler'[k].inc] = handler'[k].pc
             /\ \A k, l \in Handlers :
                  HasIncident(k)' /\ HasIncident(l)' /\ k # l
                    => handler'[k].inc # handler'[l].inc
  <2>1. ASSUME NEW k \in Handlers \ {h}, HasIncident(k)'
        PROVE  /\ HasIncident(k) /\ handler'[k] = handler[k]
               /\ handler'[k].inc # handler'[h].inc
               /\ stage'[handler'[k].inc] = handler'[k].pc
    <3>1. handler'[k] = handler[k] /\ StageKept(k)
      BY <1>3, Zenon
    <3>2. HasIncident(k)
      BY <2>1, <3>1, Zenon DEF HasIncident, At
    <3> QED BY <1>1, <1>3, <3>1, <3>2, Zenon
  <2>2. \A k \in Handlers : k = h \/ k \in Handlers \ {h}
    OBVIOUS
  <2>3. \A k \in Handlers : HasIncident(k)' => stage'[handler'[k].inc] = handler'[k].pc
    BY <1>3, <2>1, <2>2, Zenon
  <2>4. ASSUME NEW k \in Handlers, NEW l \in Handlers,
               HasIncident(k)', HasIncident(l)', k # l
        PROVE  handler'[k].inc # handler'[l].inc
    <3>1. CASE k = h
      BY <1>3, <2>1, <2>2, <2>4, <3>1, Zenon
    <3>2. CASE l = h
      BY <1>3, <2>1, <2>2, <2>4, <3>2, Zenon
    <3>3. CASE k # h /\ l # h
      BY <1>1, <2>1, <2>2, <2>4, <3>3, Zenon
    <3> QED BY <3>1, <3>2, <3>3, Zenon
  <2> QED BY <2>3, <2>4, Zenon
<1>4. ASSUME NEW h \in Handlers, NEW v, handler' = [handler EXCEPT ![h] = v]
      PROVE  handler'[h] = v /\ \A k \in Handlers \ {h} : Stays(k)
  BY <1>1, <1>4, Zenon
<1>5. CASE Behind \/ UNCHANGED gatewayVars
  <2>1. \A h \in Handlers : Stays(h)
    BY <1>5, Zenon DEF Behind, gatewayVars
  <2>2. CASE Behind
    BY <1>2, <2>1, <2>2, BehindStep, Zenon
  <2>3. CASE UNCHANGED gatewayVars
    BY <1>2, <2>1, <2>3, Zenon DEF gatewayVars, vars, dispatchVars
  <2> QED BY <1>5, <2>2, <2>3, Zenon
<1>6. CASE \/ \E h \in Handlers, s \in Services : IngestTrace(h, s) \/ IngestLog(h, s)
           \/ \E s \in Services : IngestMetric(s) \/ Refill(s)
           \/ \E h \in Handlers : RecordError(h) \/ Lookup(h) \/ PassCheck(h)
  <2>1. UNCHANGED stage
    BY <1>6, FrontStep, Zenon DEF vars, dispatchVars
  <2>2. ASSUME NEW h \in Handlers, NEW v, handler' = [handler EXCEPT ![h] = v],
               v.pc \notin {"detected", "admitted"}
        PROVE  \A k \in Handlers : Drops(k) \/ Stays(k)
    BY <1>4, <2>2, Zenon DEF HasIncident, At
  <2>3. /\ \A s, batch : Recording(s, batch).pc \notin {"detected", "admitted"}
        /\ \A s, n : Counting(s, n).pc \notin {"detected", "admitted"}
        /\ Idle.pc \notin {"detected", "admitted"}
    BY DEF Recording, Counting, Idle
  <2>4. \A k \in Handlers : Drops(k) \/ Stays(k)
    BY <1>6, <2>2, <2>3, Zenon
       DEF IngestTrace, IngestLog, Ingest, IngestMetric, Refill, RecordError,
           Lookup, PassCheck, Return
  <2> QED BY <1>2, <2>1, <2>4, Zenon
<1>7. ASSUME NEW h \in Handlers, DetectIncident(h)
      PROVE  \E i \in Incidents :
               /\ stage[i] = "undetected"
               /\ stage' = [stage EXCEPT ![i] = "detected"]
               /\ handler' = [handler EXCEPT ![h] = Triggering("detected", handler[h].service, i)]
  BY <1>7, Zenon DEF DetectIncident, Detect, Move
<1>8. \A label, s, i : /\ Triggering(label, s, i).pc = label
                       /\ Triggering(label, s, i).inc = i
  BY DEF Triggering
<1>9. CASE \E h \in Handlers : DetectIncident(h)
  <2>1. PICK h \in Handlers : DetectIncident(h)
    BY <1>9
  <2>2. PICK i \in Incidents :
          /\ stage[i] = "undetected"
          /\ stage' = [stage EXCEPT ![i] = "detected"]
          /\ handler' = [handler EXCEPT ![h] = Triggering("detected", handler[h].service, i)]
    BY <1>7, <2>1
  <2>3. /\ handler'[h].pc = "detected" /\ handler'[h].inc = i
        /\ \A k \in Handlers \ {h} : Stays(k)
    <3> DEFINE v == Triggering("detected", handler[h].service, i)
    <3>1. v.pc = "detected" /\ v.inc = i
      BY <1>8, Zenon
    <3>2. handler' = [handler EXCEPT ![h] = v]
      BY <2>2, Zenon
    <3> HIDE DEF v
    <3>3. handler'[h] = v /\ \A k \in Handlers \ {h} : Stays(k)
      BY <1>4, <3>2, Zenon
    <3> QED BY <3>1, <3>3, Zenon
  <2>4. stage'[i] = "detected" /\ \A j : j # i => stage'[j] = stage[j]
    BY <1>1, <2>2
  <2>5. \A k \in Handlers : HasIncident(k) => handler[k].inc # i
    <3>1. "undetected" # "detected" /\ "undetected" # "admitted"
      OBVIOUS
    <3> QED BY <1>1, <2>2, <3>1, Zenon DEF HasIncident, At
  <2>6. \A k \in Handlers : StageKept(k)
    BY <2>4, <2>5, Zenon
  <2>7. HasIncident(h)'
    BY <2>3, Zenon DEF HasIncident, At
  <2>8. stage'[handler'[h].inc] = handler'[h].pc
    BY <2>3, <2>4, Zenon
  <2>9. \A k \in Handlers \ {h} : HasIncident(k) => handler[k].inc # handler'[h].inc
    BY <2>3, <2>5, Zenon
  <2> QED BY <1>3, <2>3, <2>6, <2>7, <2>8, <2>9, Zenon
<1>10. ASSUME NEW h \in Handlers, HasIncident(h), NEW from, NEW to,
              Move(handler[h].inc, from, to)
       PROVE  /\ \A k \in Handlers \ {h} : StageKept(k)
              /\ handler[h].inc \in Incidents => stage'[handler[h].inc] = to
  <2>1. stage' = [stage EXCEPT ![handler[h].inc] = to]
    BY <1>10, Zenon DEF Move
  <2>2. \A j : j # handler[h].inc => stage'[j] = stage[j]
    BY <1>1, <2>1
  <2>3. \A k \in Handlers \ {h} : StageKept(k)
    BY <1>1, <1>10, <2>2, Zenon
  <2> QED BY <1>1, <2>1, <2>3, Zenon
<1>11. CASE \E h \in Handlers : TriggerBlocked(h) \/ TriggerAnalysis(h)
  <2>1. PICK h \in Handlers : TriggerBlocked(h) \/ TriggerAnalysis(h)
    BY <1>11
  <2>2. HasIncident(h)
    BY <2>1, Zenon DEF TriggerBlocked, TriggerAnalysis, HasIncident
  <2>3. handler'[h] = Idle /\ \A k \in Handlers \ {h} : Stays(k)
    BY <1>4, <2>1, Zenon DEF TriggerBlocked, TriggerAnalysis, Return
  <2>4. Drops(h)
    <3>1. Idle.pc # "detected" /\ Idle.pc # "admitted"
      BY DEF Idle
    <3> QED BY <2>3, <3>1, Zenon DEF HasIncident, At
  <2>5. \E from, to : Move(handler[h].inc, from, to)
    BY <2>1, Zenon DEF TriggerBlocked, TriggerAnalysis, Block, Dispatch
  <2> QED BY <1>2, <1>10, <2>2, <2>3, <2>4, <2>5, Zenon
<1>12. CASE \E h \in Handlers : TriggerAdmitted(h)
  <2>1. PICK h \in Handlers : TriggerAdmitted(h)
    BY <1>12
  <2>2. HasIncident(h) /\ Move(handler[h].inc, "detected", "admitted")
    BY <2>1, Zenon DEF TriggerAdmitted, HasIncident, Admit
  <2>3. /\ handler'[h].pc = "admitted" /\ handler'[h].inc = handler[h].inc
        /\ \A k \in Handlers \ {h} : Stays(k)
    <3> DEFINE v == Triggering("admitted", handler[h].service, handler[h].inc)
    <3>1. v.pc = "admitted" /\ v.inc = handler[h].inc
      BY DEF Triggering
    <3>2. handler' = [handler EXCEPT ![h] = v]
      BY <2>1, Zenon DEF TriggerAdmitted
    <3> HIDE DEF v
    <3>3. handler'[h] = v /\ \A k \in Handlers \ {h} : Stays(k)
      BY <1>4, <3>2, Zenon
    <3> QED BY <3>1, <3>3, Zenon
  <2>4. handler[h].inc \in Incidents
    BY <1>1, <2>2 DEF HasIncident, At, Working, Idle
  <2>5. HasIncident(h)'
    BY <2>3, Zenon DEF HasIncident, At
  <2>6. \A k \in Handlers \ {h} : HasIncident(k) => handler[k].inc # handler[h].inc
    BY <2>2, IncidentsApart, Zenon
  <2>7. stage'[handler'[h].inc] = handler'[h].pc
    <3>1. stage'[handler[h].inc] = "admitted"
      BY <1>10, <2>2, <2>4, Zenon
    <3> QED BY <2>3, <3>1, Zenon
  <2>8. \A k \in Handlers \ {h} : HasIncident(k) => handler[k].inc # handler'[h].inc
    BY <2>3, <2>6, Zenon
  <2>9. \A k \in Handlers \ {h} : StageKept(k)
    BY <1>10, <2>2, Zenon
  <2> QED BY <1>3, <2>3, <2>5, <2>7, <2>8, <2>9, Zenon
<1> HIDE DEF Stays, Drops, StageKept
<1> QED BY <1>5, <1>6, <1>9, <1>11, <1>12, Zenon DEF GatewayNext, HandlerStep

-----------------------------------------------------------------------------

\* The variables keep their types, and an incident has one handler, which is as
\* far with it as the dispatch says.
THEOREM GatewayTypeCorrect == GatewaySpec => []GatewayTypeOK
<1>1. Init => TypeOK
  <2>1. ASSUME Init PROVE BreakerTypeOK
    <3>1. 0 \in 0..FailureLimit /\ Timeout \in 0..Timeout
      BY BreakerAssumption
    <3> QED BY <2>1, <3>1, Zenon DEF Init, BreakerInit, BreakerTypeOK
  <2>2. 0 \in Int /\ Timeout \in 0..Timeout
    BY BreakerAssumption
  <2>3. "undetected" \in Stages
    BY DEF Stages
  <2> QED BY <2>1, <2>2, <2>3, Zenon DEF Init, TypeOK
<1>2. GatewayInit => GatewayTypeOK
  <2>1. ASSUME GatewayInit
        PROVE  /\ tokens \in [Services -> 0 .. Capacity]
               /\ errCount \in [Services -> Nat]
               /\ handler \in [Handlers -> Working \union {Idle}]
               /\ services \in [Incidents -> SUBSET Services]
               /\ own \in [Services -> Nat]
               /\ carried \in [Services -> Nat]
    <3>1. Capacity \in 0 .. Capacity /\ 0 \in Nat
      BY GatewayAssumption
    <3> QED BY <2>1, <3>1, Zenon DEF GatewayInit
  <2>2. ASSUME GatewayInit, NEW h \in Handlers PROVE ~HasIncident(h)
    <3>1. Idle.pc # "detected" /\ Idle.pc # "admitted"
      BY DEF Idle
    <3> QED BY <2>2, <3>1, Zenon DEF GatewayInit, HasIncident, At
  <2> QED BY <1>1, <2>1, <2>2, Zenon DEF GatewayInit, GatewayTypeOK
<1>3. GatewayTypeOK /\ [GatewayNext]_gatewayVars => GatewayTypeOK'
  <2>1. ASSUME GatewayTypeOK, [GatewayNext]_gatewayVars PROVE TypeOK'
    BY <2>1, GatewayIsDispatchStep, TypeStep DEF GatewayTypeOK
  <2> QED BY <2>1, CountersStep, HandlerStepType, HandledStep, Zenon DEF GatewayTypeOK
<1> QED BY <1>2, <1>3, PTL DEF GatewaySpec

\* Every behaviour of the gateway is one of the dispatch: what is proved of the
\* dispatch, and of the breaker in it, holds in the gateway.
THEOREM GatewayIsDispatch == GatewaySpec => IsDispatch
<1>1. GatewayInit => Init
  BY DEF GatewayInit
<1>2. GatewayTypeOK /\ [GatewayNext]_gatewayVars => [Next]_vars
  BY GatewayIsDispatchStep
<1> QED BY <1>1, <1>2, GatewayTypeCorrect, PTL DEF GatewaySpec, Spec, IsDispatch

-----------------------------------------------------------------------------
(***************************************************************************)
(* Bursts                                                                   *)
(***************************************************************************)

\* Where s is among the errors q that are left to record, counted from the end:
\* recording the head changes no other place.
Places(q, s) == {n \in 1 .. Len(q) : q[Len(q) + 1 - n] = s}

\* The handlers that record for s itself, and the errors of s they have left.
Recorders(s) == {h \in Handlers : At(h, "recording") /\ handler[h].service = s}

Left(s) == UNION {{h} \X Places(handler[h].errors, s) : h \in Recorders(s)}

\* A check of s that began when the counter had reached the threshold.
Sure(s) ==
  \E h \in Handlers :
    At(h, "counting") /\ handler[h].service = s /\ handler[h].found >= Threshold

\* The errors of s in its own requests are counted, or left to some handler.
LeftInv ==
  \A s \in Services :
    IsFiniteSet(Left(s)) /\ errCount[s] + Cardinality(Left(s)) >= own[s]

\* After a burst the last to record is sure to find it.
BurstInv ==
  \A s \in Services :
    own[s] >= Threshold =>
      (\E i \in Incidents : s \in services[i]) \/ Recorders(s) # {} \/ Sure(s)

\* What is not yet an incident has no services.
NoneYet == \A i \in Incidents : stage[i] = "undetected" => services[i] = {}

SeenInv == LeftInv /\ BurstInv /\ NoneYet
LEMMA PlacesFacts ==
  ASSUME NEW q \in Seq(Services), NEW s
  PROVE  IsFiniteSet(Places(q, s)) /\ Cardinality(Places(q, s)) = ErrorsOf(s, q)
<1> DEFINE P == {k \in DOMAIN q : q[k] = s}
           f == [k \in P |-> Len(q) + 1 - k]
<1>1. DOMAIN q = 1 .. Len(q) /\ Len(q) \in Nat
  OBVIOUS
<1>2. IsFiniteSet(P)
  <2>1. IsFiniteSet(1 .. Len(q))
    BY FS_Interval
  <2> QED BY <1>1, <2>1, FS_Subset
<1>3. f \in Bijection(P, Places(q, s))
  <2>1. \A k \in P : k \in 1 .. Len(q) /\ f[k] = Len(q) + 1 - k /\ f[k] \in Places(q, s)
    BY <1>1 DEF Places
  <2>2. \A n \in Places(q, s) : Len(q) + 1 - n \in P /\ n = f[Len(q) + 1 - n]
    BY <1>1 DEF Places
  <2>3. \A j, k \in P : f[j] = f[k] => j = k
    BY <2>1
  <2>4. f \in [P -> Places(q, s)]
    BY <2>1
  <2> HIDE DEF f, P
  <2>5. f \in Injection(P, Places(q, s))
    BY <2>3, <2>4 DEF Injection, IsInjective
  <2>6. f \in Surjection(P, Places(q, s))
    BY <2>2, <2>4 DEF Surjection
  <2> QED BY <2>5, <2>6 DEF Bijection
<1> QED BY <1>2, <1>3, FS_Bijection DEF ErrorsOf, ExistsBijection

LEMMA PlacesOfTail ==
  ASSUME NEW q \in Seq(Services), q # <<>>, NEW s
  PROVE  /\ Places(Tail(q), s) = Places(q, s) \ {Len(q)}
         /\ Len(q) \in Places(q, s) <=> Head(q) = s
<1>1. /\ Len(q) \in Nat \ {0} /\ Len(Tail(q)) = Len(q) - 1
      /\ \A k \in 1 .. Len(q) - 1 : Tail(q)[k] = q[k + 1]
      /\ Head(q) = q[1]
  OBVIOUS
<1>2. \A n \in 1 .. Len(q) - 1 : Tail(q)[Len(q) - n] = q[Len(q) + 1 - n]
  <2> SUFFICES ASSUME NEW n \in 1 .. Len(q) - 1
               PROVE  Tail(q)[Len(q) - n] = q[Len(q) + 1 - n]
    OBVIOUS
  <2>1. Len(q) - n \in 1 .. Len(q) - 1 /\ (Len(q) - n) + 1 = Len(q) + 1 - n
    BY <1>1
  <2> QED BY <1>1, <2>1
<1>3. \A n : n \in Places(Tail(q), s) <=> n \in Places(q, s) /\ n # Len(q)
  <2>1. \A n : n \in Places(Tail(q), s)
                 <=> n \in 1 .. Len(q) - 1 /\ Tail(q)[Len(q) - n] = s
    BY <1>1 DEF Places
  <2>2. \A n : n \in 1 .. Len(q) - 1 <=> n \in 1 .. Len(q) /\ n # Len(q)
    BY <1>1
  <2> QED BY <1>2, <2>1, <2>2 DEF Places
<1>4. Len(q) \in Places(q, s) <=> Head(q) = s
  BY <1>1 DEF Places
<1> QED BY <1>3, <1>4

LEMMA PlacesOfNone ==
  ASSUME NEW s
  PROVE  Places(<<>>, s) = {}
BY DEF Places
\* What is in a handler's record.
LEMMA HandlerForms ==
  ASSUME GatewayTypeOK, NEW h \in Handlers
  PROVE  /\ At(h, "recording") => /\ handler[h].service \in Services
                                  /\ handler[h].errors \in Seq(Services)
         /\ At(h, "counting") => /\ handler[h].service \in Services
                                 /\ handler[h].found \in Nat
<1>1. handler[h] \in Working \union {Idle}
  BY Zenon DEF GatewayTypeOK
<1>2. CASE At(h, "recording")
  BY <1>1, <1>2 DEF At, Working, Idle
<1>3. CASE At(h, "counting")
  BY <1>1, <1>3 DEF At, Working, Idle
<1>4. At(h, "recording") => ~At(h, "counting")
  BY DEF At
<1> QED BY <1>2, <1>3, <1>4

LEMMA LabelsDiffer ==
  /\ \A s, q : Recording(s, q).pc = "recording" /\ Recording(s, q).service = s
                                                /\ Recording(s, q).errors = q
  /\ \A s, n : Counting(s, n).pc = "counting" /\ Counting(s, n).service = s
                                              /\ Counting(s, n).found = n
  /\ \A label, s, i : Triggering(label, s, i).pc = label
  /\ Idle.pc = "idle"
BY DEF Recording, Counting, Triggering, Idle

\* The burst of s and the errors left of s are not affected by what a handler
\* does that is not recording for s, nor counting.
LEMMA LeftStays ==
  ASSUME NEW s,
         \A h \in Handlers :
           /\ At(h, "recording") /\ handler[h].service = s => handler'[h] = handler[h]
           /\ At(h, "recording")' /\ handler'[h].service = s => handler'[h] = handler[h]
  PROVE  Recorders(s)' = Recorders(s) /\ Left(s)' = Left(s)
<1>1. \A h \in Handlers : h \in Recorders(s)' <=> h \in Recorders(s)
  BY DEF Recorders, At
<1>2. Recorders(s)' = Recorders(s)
  BY <1>1 DEF Recorders
<1>3. \A h \in Recorders(s) : handler'[h] = handler[h]
  BY DEF Recorders
<1> QED BY <1>2, <1>3 DEF Left

\* A step that changes neither what was counted nor what is left.
LEMMA QuietSeen ==
  ASSUME SeenInv, UNCHANGED <<errCount, services, own>>,
         \A h \in Handlers :
           \/ handler'[h] = handler[h]
           \/ HasIncident(h) /\ handler'[h].pc \notin {"recording", "counting"},
         \A i \in Incidents : stage'[i] = "undetected" => stage[i] = "undetected"
  PROVE  SeenInv'
<1>1. ASSUME NEW s \in Services
      PROVE  Recorders(s)' = Recorders(s) /\ Left(s)' = Left(s) /\ (Sure(s) => Sure(s)')
  <2>1. \A h \in Handlers :
          /\ At(h, "recording") \/ At(h, "counting") => handler'[h] = handler[h]
          /\ At(h, "recording")' => handler'[h] = handler[h]
    BY DEF HasIncident, At
  <2>2. Recorders(s)' = Recorders(s) /\ Left(s)' = Left(s)
    BY <2>1, LeftStays
  <2>3. Sure(s) => Sure(s)'
    BY <2>1 DEF Sure, At
  <2> QED BY <2>2, <2>3
<1>2. LeftInv'
  BY <1>1 DEF SeenInv, LeftInv
<1>3. BurstInv'
  BY <1>1 DEF SeenInv, BurstInv
<1>4. NoneYet'
  BY DEF SeenInv, NoneYet
<1> QED BY <1>2, <1>3, <1>4 DEF SeenInv

LEMMA IngestSeen ==
  ASSUME GatewayTypeOK, SeenInv, NEW h \in Handlers, NEW s \in Services,
         NEW batch \in Seq(Services), Ingest(h, s, batch)
  PROVE  SeenInv'
<1>1. /\ handler[h] = Idle /\ handler' = [handler EXCEPT ![h] = Recording(s, batch)]
      /\ own' = [own EXCEPT ![s] = @ + ErrorsOf(s, batch)]
      /\ UNCHANGED <<stage, errCount, services>>
  BY Zenon DEF Ingest, vars, dispatchVars
<1>2. /\ handler \in [Handlers -> Working \union {Idle}]
      /\ errCount \in [Services -> Nat] /\ own \in [Services -> Nat]
  BY Zenon DEF GatewayTypeOK
<1>3. /\ handler'[h] = Recording(s, batch)
      /\ \A k \in Handlers \ {h} : handler'[k] = handler[k]
  BY <1>1, <1>2, Zenon
<1>4. /\ handler[h].pc = "idle" /\ handler'[h].pc = "recording"
      /\ handler'[h].service = s /\ handler'[h].errors = batch
  BY <1>1, <1>3, LabelsDiffer
<1>5. /\ own'[s] = own[s] + ErrorsOf(s, batch)
      /\ \A r \in Services \ {s} : own'[r] = own[r]
      /\ ErrorsOf(s, batch) \in Nat
  BY <1>1, <1>2, ErrorsOfIsNat
<1>6. ASSUME NEW r \in Services \ {s}
      PROVE  Recorders(r)' = Recorders(r) /\ Left(r)' = Left(r)
  <2>1. \A k \in Handlers :
          /\ At(k, "recording") /\ handler[k].service = r => handler'[k] = handler[k]
          /\ At(k, "recording")' /\ handler'[k].service = r => handler'[k] = handler[k]
    BY <1>3, <1>4 DEF At
  <2> QED BY <2>1, LeftStays
<1>7. Recorders(s)' = Recorders(s) \union {h} /\ h \notin Recorders(s)
  BY <1>3, <1>4 DEF Recorders, At
<1>8. /\ Left(s)' = Left(s) \union ({h} \X Places(batch, s))
      /\ Left(s) \intersect ({h} \X Places(batch, s)) = {}
  <2>1. \A k \in Recorders(s) : handler'[k] = handler[k]
    BY <1>3, <1>7 DEF Recorders
  <2>2. Left(s)' = UNION {{k} \X Places(handler'[k].errors, s) : k \in Recorders(s) \union {h}}
    BY <1>7 DEF Left
  <2>3. Left(s)' = Left(s) \union ({h} \X Places(batch, s))
    BY <1>4, <2>1, <2>2 DEF Left
  <2>4. \A x \in Left(s) : x[1] \in Recorders(s)
    BY DEF Left
  <2> QED BY <1>7, <2>3, <2>4
<1>9. IsFiniteSet(Left(s)') /\ Cardinality(Left(s)') = Cardinality(Left(s)) + ErrorsOf(s, batch)
  <2>1. IsFiniteSet(Left(s))
    BY DEF SeenInv, LeftInv
  <2>2. /\ IsFiniteSet({h} \X Places(batch, s))
        /\ Cardinality({h} \X Places(batch, s)) = ErrorsOf(s, batch)
    <3>1. IsFiniteSet({h}) /\ Cardinality({h}) = 1
      BY FS_Singleton
    <3>2. IsFiniteSet(Places(batch, s)) /\ Cardinality(Places(batch, s)) = ErrorsOf(s, batch)
      BY PlacesFacts
    <3>3. 1 * ErrorsOf(s, batch) = ErrorsOf(s, batch)
      BY <1>5
    <3> QED BY <3>1, <3>2, <3>3, FS_Product
  <2>3. Cardinality({}) = 0 /\ Cardinality(Left(s)) \in Nat
    BY <2>1, FS_EmptySet, FS_CardinalityType
  <2> DEFINE new == {h} \X Places(batch, s)
             old == Left(s)
  <2>4. /\ IsFiniteSet(old \union new)
        /\ Cardinality(old \union new) = Cardinality(old) + ErrorsOf(s, batch)
    <3>1. /\ IsFiniteSet(old) /\ IsFiniteSet(new) /\ old \intersect new = {}
          /\ Cardinality(new) = ErrorsOf(s, batch)
      BY <1>8, <2>1, <2>2
    <3> HIDE DEF old, new
    <3>2. Cardinality(old \union new) = Cardinality(old) + Cardinality(new) - Cardinality({})
      BY <3>1, FS_Union
    <3>3. IsFiniteSet(old \union new)
      BY <3>1, FS_Union
    <3>4. Cardinality(old) \in Nat
      BY <3>1, FS_CardinalityType
    <3> QED BY <1>5, <2>3, <3>1, <3>2, <3>3, <3>4
  <2> QED BY <1>8, <2>4
<1>10. LeftInv'
  <2>1. errCount'[s] + Cardinality(Left(s)') >= own'[s]
    <3>1. errCount[s] + Cardinality(Left(s)) >= own[s] /\ IsFiniteSet(Left(s))
      BY DEF SeenInv, LeftInv
    <3>2. Cardinality(Left(s)) \in Nat
      BY <3>1, FS_CardinalityType
    <3> QED BY <1>1, <1>2, <1>5, <1>9, <3>1, <3>2
  <2> QED BY <1>1, <1>5, <1>6, <1>9, <2>1 DEF SeenInv, LeftInv
<1>11. \A r \in Services : Sure(r) => Sure(r)'
  BY <1>3, <1>4 DEF Sure, At
<1>12. BurstInv'
  <2>1. Recorders(s)' # {}
    BY <1>7
  <2> QED BY <1>1, <1>5, <1>6, <1>11, <2>1 DEF SeenInv, BurstInv
<1>13. NoneYet'
  BY <1>1 DEF SeenInv, NoneYet
<1> QED BY <1>10, <1>12, <1>13 DEF SeenInv
LEMMA RecordSeen ==
  ASSUME GatewayTypeOK, SeenInv, NEW h \in Handlers, RecordError(h)
  PROVE  SeenInv'
<1>1. At(h, "recording") /\ handler[h].errors # <<>>
  BY Zenon DEF RecordError
<1>2. /\ handler \in [Handlers -> Working \union {Idle}]
      /\ errCount \in [Services -> Nat] /\ own \in [Services -> Nat]
  BY Zenon DEF GatewayTypeOK
<1>3. PICK s \in Services, q \in Seq(Services) : s = handler[h].service /\ q = handler[h].errors
  BY <1>1, HandlerForms
<1>4. PICK r \in Services : r = Head(q)
  BY <1>1, <1>3
<1>5. /\ handler' = [handler EXCEPT ![h] = Recording(s, Tail(q))]
       /\ errCount' = [errCount EXCEPT ![r] = @ + 1]
       /\ UNCHANGED <<stage, services, own>>
  BY <1>3, <1>4, Zenon DEF RecordError, vars, dispatchVars
<1>6. /\ handler'[h] = Recording(s, Tail(q))
      /\ \A k \in Handlers \ {h} : handler'[k] = handler[k]
  BY <1>2, <1>5, Zenon
<1>7. /\ handler[h].pc = "recording" /\ handler'[h].pc = "recording"
      /\ handler'[h].service = s /\ handler'[h].errors = Tail(q)
  <2>1. handler[h].pc = "recording"
    BY <1>1 DEF At
  <2>2. /\ Recording(s, Tail(q)).pc = "recording" /\ Recording(s, Tail(q)).service = s
        /\ Recording(s, Tail(q)).errors = Tail(q)
    BY LabelsDiffer
  <2> QED BY <1>6, <2>1, <2>2, Zenon
<1>8. \A x \in Services : Recorders(x)' = Recorders(x) /\ (Sure(x) => Sure(x)')
  BY <1>3, <1>6, <1>7 DEF Recorders, Sure, At
<1>9. /\ errCount'[r] = errCount[r] + 1
      /\ \A x \in Services \ {r} : errCount'[x] = errCount[x]
  BY <1>2, <1>5
<1>10. \A x \in Services : errCount[x] \in Nat /\ own[x] \in Nat
  BY <1>2
<1>11. ASSUME NEW x \in Services \ {s}
       PROVE  Left(x)' = Left(x)
  <2>1. \A k \in Handlers :
          /\ At(k, "recording") /\ handler[k].service = x => handler'[k] = handler[k]
          /\ At(k, "recording")' /\ handler'[k].service = x => handler'[k] = handler[k]
    BY <1>3, <1>6, <1>7 DEF At
  <2> QED BY <2>1, LeftStays
<1>12. Left(s)' = Left(s) \ {<<h, Len(q)>>}
  <2>1. h \in Recorders(s) /\ \A k \in Recorders(s) \ {h} : handler'[k] = handler[k]
    BY <1>3, <1>6, <1>7 DEF Recorders, At
  <2>2. ASSUME NEW k, NEW n
        PROVE  <<k, n>> \in Left(s)' <=> <<k, n>> \in Left(s) /\ <<k, n>> # <<h, Len(q)>>
    <3>1. /\ <<k, n>> \in Left(s) <=> k \in Recorders(s) /\ n \in Places(handler[k].errors, s)
          /\ <<k, n>> \in Left(s)' <=> k \in Recorders(s) /\ n \in Places(handler'[k].errors, s)
      <4>1. Left(s)' = UNION {{l} \X Places(handler'[l].errors, s) : l \in Recorders(s)}
        BY <1>8 DEF Left
      <4> QED BY <4>1 DEF Left
    <3>2. CASE k = h
      <4>1. n \in Places(Tail(q), s) <=> n \in Places(q, s) /\ n # Len(q)
        BY <1>1, <1>3, PlacesOfTail
      <4> QED BY <1>3, <1>7, <2>1, <3>1, <3>2, <4>1
    <3>3. CASE k # h
      BY <2>1, <3>1, <3>3
    <3> QED BY <3>2, <3>3
  <2>3. \A x \in Left(s) \union Left(s)' : x = <<x[1], x[2]>>
    BY DEF Left
  <2> QED BY <2>2, <2>3
<1>13. <<h, Len(q)>> \in Left(s) <=> r = s
  <2>1. h \in Recorders(s)
    BY <1>3, <1>7 DEF Recorders, At
  <2>2. <<h, Len(q)>> \in Left(s) <=> Len(q) \in Places(q, s)
    BY <1>3, <2>1 DEF Left
  <2> QED BY <1>1, <1>3, <1>4, <2>2, PlacesOfTail
<1>14. LeftInv'
  <2>1. \A x \in Services : IsFiniteSet(Left(x)) /\ errCount[x] + Cardinality(Left(x)) >= own[x]
    BY DEF SeenInv, LeftInv
  <2>2. /\ IsFiniteSet(Left(s)')
        /\ Cardinality(Left(s)') = IF r = s THEN Cardinality(Left(s)) - 1 ELSE Cardinality(Left(s))
    <3>1. IsFiniteSet(Left(s))
      BY <2>1
    <3> DEFINE old == Left(s)
    <3>2. /\ IsFiniteSet(old \ {<<h, Len(q)>>})
          /\ Cardinality(old \ {<<h, Len(q)>>})
               = IF <<h, Len(q)>> \in old THEN Cardinality(old) - 1 ELSE Cardinality(old)
      <4> HIDE DEF old
      <4> QED BY <3>1, FS_RemoveElement DEF old
    <3> QED BY <1>12, <1>13, <3>2
  <2>3. \A x \in Services : Cardinality(Left(x)) \in Nat
    BY <2>1, FS_CardinalityType
  <2>4. ASSUME NEW x \in Services
        PROVE  IsFiniteSet(Left(x)') /\ errCount'[x] + Cardinality(Left(x)') >= own'[x]
    <3>1. own'[x] = own[x]
      BY <1>5
    <3>2. CASE x = s
      BY <1>9, <1>10, <2>1, <2>2, <2>3, <3>1, <3>2
    <3>3. CASE x # s
      <4>1. Left(x)' = Left(x)
        BY <1>11, <3>3
      <4> QED BY <1>9, <1>10, <2>1, <2>3, <3>1, <4>1
    <3> QED BY <3>2, <3>3
  <2> QED BY <2>4 DEF LeftInv
<1>15. BurstInv'
  BY <1>8, <1>5 DEF SeenInv, BurstInv
<1>16. NoneYet'
  BY <1>5 DEF SeenInv, NoneYet
<1> QED BY <1>14, <1>15, <1>16 DEF SeenInv

\* The last handler to look the counter up finds all that it recorded for s,
\* and that the others did.
LEMMA LookupSeen ==
  ASSUME GatewayTypeOK, SeenInv, NEW h \in Handlers, Lookup(h)
  PROVE  SeenInv'
<1> DEFINE s == handler[h].service
<1>1. /\ At(h, "recording") /\ handler[h].errors = <<>>
      /\ handler' = [handler EXCEPT ![h] = IF errCount[s] = 0 THEN Idle
                                                             ELSE Counting(s, errCount[s])]
      /\ UNCHANGED <<stage, errCount, services, own>>
  BY Zenon DEF Lookup, Return, vars, dispatchVars
<1>2. /\ handler \in [Handlers -> Working \union {Idle}]
      /\ errCount \in [Services -> Nat] /\ own \in [Services -> Nat]
  BY Zenon DEF GatewayTypeOK
<1>3. s \in Services /\ errCount[s] \in Nat
  BY <1>1, <1>2, HandlerForms
<1>4. /\ handler'[h] = IF errCount[s] = 0 THEN Idle ELSE Counting(s, errCount[s])
      /\ \A k \in Handlers \ {h} : handler'[k] = handler[k]
  BY <1>1, <1>2, Zenon
<1>5. /\ handler[h].pc = "recording" /\ handler'[h].pc # "recording"
      /\ errCount[s] # 0 => /\ handler'[h].pc = "counting" /\ handler'[h].service = s
                            /\ handler'[h].found = errCount[s]
  BY <1>1, <1>4, LabelsDiffer DEF At
<1> HIDE DEF s
<1>6. ASSUME NEW x \in Services
      PROVE  Left(x)' = Left(x) /\ Recorders(x)' = Recorders(x) \ {h} /\ (Sure(x) => Sure(x)')
  <2>1. Recorders(x)' = Recorders(x) \ {h} /\ (Sure(x) => Sure(x)')
    BY <1>4, <1>5 DEF Recorders, Sure, At
  <2>2. \A k \in Recorders(x) \ {h} : handler'[k] = handler[k]
    BY <1>4 DEF Recorders
  <2>3. Left(x)' = UNION {{k} \X Places(handler[k].errors, x) : k \in Recorders(x) \ {h}}
    BY <2>1, <2>2 DEF Left
  <2>4. {h} \X Places(handler[h].errors, x) = {}
    BY <1>1, PlacesOfNone
  <2> QED BY <2>1, <2>3, <2>4 DEF Left
<1>7. LeftInv'
  BY <1>1, <1>6 DEF SeenInv, LeftInv
<1>8. ASSUME NEW x \in Services, own'[x] >= Threshold
      PROVE  (\E i \in Incidents : x \in services'[i]) \/ Recorders(x)' # {} \/ Sure(x)'
  <2>1. CASE Recorders(x) = {h}
    <3>1. x = s
      BY <2>1 DEF Recorders, s
    <3>2. Left(s) = {}
      <4>1. Places(handler[h].errors, s) = {}
        BY <1>1, PlacesOfNone
      <4> QED BY <2>1, <3>1, <4>1 DEF Left
    <3>3. errCount[s] >= own[s] /\ own[s] >= Threshold
      <4>1. errCount[s] + Cardinality({}) >= own[s]
        BY <1>3, <3>2 DEF SeenInv, LeftInv
      <4>2. own[s] \in Nat /\ own[s] >= Threshold
        BY <1>1, <1>2, <1>3, <1>8, <3>1
      <4> QED BY <1>3, <4>1, <4>2, FS_EmptySet
    <3>4. errCount[s] # 0 /\ errCount[s] >= Threshold
      BY <1>2, <1>3, <3>3, GatewayAssumption
    <3> QED BY <1>5, <3>1, <3>4 DEF Sure, At
  <2>2. CASE Recorders(x) # {h} /\ Recorders(x) # {}
    BY <1>6, <2>2
  <2>3. CASE Recorders(x) = {}
    BY <1>1, <1>6, <1>8, <2>3 DEF SeenInv, BurstInv
  <2> QED BY <2>1, <2>2, <2>3
<1>9. BurstInv'
  BY <1>8 DEF BurstInv
<1>10. NoneYet'
  BY <1>1 DEF SeenInv, NoneYet
<1> QED BY <1>7, <1>9, <1>10 DEF SeenInv
\* A check that finds less began with less.
LEMMA PassSeen ==
  ASSUME GatewayTypeOK, SeenInv, NEW h \in Handlers, PassCheck(h)
  PROVE  SeenInv'
<1>1. /\ At(h, "counting") /\ handler' = [handler EXCEPT ![h] = Idle]
      /\ \E n \in Totals(h) : n < Threshold
      /\ UNCHANGED <<stage, errCount, services, own>>
  BY Zenon DEF PassCheck, Return, vars, dispatchVars
<1>2. /\ handler \in [Handlers -> Working \union {Idle}] /\ errCount \in [Services -> Nat]
  BY Zenon DEF GatewayTypeOK
<1>3. /\ handler'[h] = Idle
      /\ \A k \in Handlers \ {h} : handler'[k] = handler[k]
  BY <1>1, <1>2, Zenon
<1>4. handler[h].pc = "counting" /\ handler'[h].pc = "idle"
  BY <1>1, <1>3, LabelsDiffer DEF At
<1>5. ~(handler[h].found >= Threshold)
  <2>1. handler[h].service \in Services /\ handler[h].found \in Nat
    BY <1>1, HandlerForms
  <2>2. errCount[handler[h].service] \in Nat /\ Threshold \in Nat
    BY <1>2, <2>1, GatewayAssumption
  <2> QED BY <1>1, <2>1, <2>2 DEF Totals
<1>6. ASSUME NEW s \in Services
      PROVE  Recorders(s)' = Recorders(s) /\ Left(s)' = Left(s) /\ (Sure(s) => Sure(s)')
  <2>1. \A k \in Handlers :
          /\ At(k, "recording") /\ handler[k].service = s => handler'[k] = handler[k]
          /\ At(k, "recording")' /\ handler'[k].service = s => handler'[k] = handler[k]
    BY <1>3, <1>4 DEF At
  <2>2. Sure(s) => Sure(s)'
    BY <1>3, <1>5 DEF Sure, At
  <2> QED BY <2>1, <2>2, LeftStays
<1>7. LeftInv'
  BY <1>1, <1>6 DEF SeenInv, LeftInv
<1>8. BurstInv'
  BY <1>1, <1>6 DEF SeenInv, BurstInv
<1>9. NoneYet'
  BY <1>1 DEF SeenInv, NoneYet
<1> QED BY <1>7, <1>8, <1>9 DEF SeenInv

LEMMA DetectSeen ==
  ASSUME GatewayTypeOK, SeenInv, NEW h \in Handlers, DetectIncident(h)
  PROVE  SeenInv'
<1>1. PICK s \in Services : s = handler[h].service
  BY HandlerForms, Zenon DEF DetectIncident
<1>2. PICK i \in Incidents :
        /\ stage[i] = "undetected" /\ stage' = [stage EXCEPT ![i] = "detected"]
        /\ services' = [services EXCEPT ![i] = {s}]
        /\ handler' = [handler EXCEPT ![h] = Triggering("detected", s, i)]
  BY <1>1, Zenon DEF DetectIncident, Detect, Move
<1>3. At(h, "counting") /\ UNCHANGED <<errCount, own>>
  BY Zenon DEF DetectIncident
<1>4. /\ handler \in [Handlers -> Working \union {Idle}]
      /\ services \in [Incidents -> SUBSET Services]
      /\ stage \in [Incidents -> Stages]
  BY Zenon DEF GatewayTypeOK, TypeOK
<1>5. /\ handler'[h] = Triggering("detected", s, i)
      /\ \A k \in Handlers \ {h} : handler'[k] = handler[k]
  BY <1>2, <1>4, Zenon
<1>6. handler[h].pc = "counting" /\ handler'[h].pc = "detected"
  <2>1. handler[h].pc = "counting"
    BY <1>3 DEF At
  <2>2. Triggering("detected", s, i).pc = "detected"
    BY DEF Triggering
  <2> QED BY <1>5, <2>1, <2>2, Zenon
<1>7. /\ services'[i] = {s} /\ services[i] = {}
      /\ \A j \in Incidents \ {i} : services'[j] = services[j]
  <2>1. services[i] = {}
    BY <1>2 DEF SeenInv, NoneYet
  <2> QED BY <1>2, <1>4, <2>1
<1>8. ASSUME NEW x \in Services
      PROVE  /\ Recorders(x)' = Recorders(x) /\ Left(x)' = Left(x)
             /\ x # s => (Sure(x) => Sure(x)')
  <2>1. \A k \in Handlers :
          /\ At(k, "recording") /\ handler[k].service = x => handler'[k] = handler[k]
          /\ At(k, "recording")' /\ handler'[k].service = x => handler'[k] = handler[k]
    BY <1>5, <1>6 DEF At
  <2>2. x # s => (Sure(x) => Sure(x)')
    BY <1>1, <1>5 DEF Sure, At
  <2> QED BY <2>1, <2>2, LeftStays
<1>9. LeftInv'
  BY <1>3, <1>8 DEF SeenInv, LeftInv
<1>10. BurstInv'
  <2>1. \A x \in Services :
          (\E j \in Incidents : x \in services[j]) => \E j \in Incidents : x \in services'[j]
    BY <1>7
  <2>2. \E j \in Incidents : s \in services'[j]
    BY <1>7
  <2> QED BY <1>3, <1>8, <2>1, <2>2 DEF SeenInv, BurstInv
<1>11. NoneYet'
  <2>1. stage'[i] = "detected" /\ \A j \in Incidents \ {i} : stage'[j] = stage[j]
    BY <1>2, <1>4
  <2> QED BY <1>7, <2>1 DEF SeenInv, NoneYet
<1> QED BY <1>9, <1>10, <1>11 DEF SeenInv

\* An incident that is moved was detected.
LEMMA NoneUndone ==
  ASSUME GatewayTypeOK, [GatewayNext]_gatewayVars
  PROVE  \A i \in Incidents : stage'[i] = "undetected" => stage[i] = "undetected"
<1>1. [Next]_vars
  BY GatewayIsDispatchStep
<1>2. stage \in [Incidents -> Stages]
  BY Zenon DEF GatewayTypeOK, TypeOK
<1>3. ASSUME NEW i \in Incidents, NEW from, NEW to, Move(i, from, to), to # "undetected"
      PROVE  \A j \in Incidents : stage'[j] = "undetected" => stage[j] = "undetected"
  BY <1>2, <1>3 DEF Move
<1>4. CASE UNCHANGED stage
  BY <1>4
<1>5. CASE \E i \in Incidents : Detect(i) \/ Handle(i)
  <2>1. "undetected" \notin {"detected", "blocked", "admitted", "analyzing", "answered",
                             "errored", "reported", "done"}
    OBVIOUS
  <2> QED BY <1>3, <1>5, <2>1, Zenon
          DEF Handle, Detect, Block, Admit, Dispatch, Answer, Err, ReportSuccess,
              ReportFailure, Complete
<1> QED BY <1>1, <1>4, <1>5, Zenon
        DEF Next, vars, dispatchVars, Connect, AgentStartsOrStops, Tick

LEMMA SeenStep ==
  ASSUME GatewayTypeOK, SeenInv, [GatewayNext]_gatewayVars
  PROVE  SeenInv'
<1>1. ASSUME NEW h \in Handlers, NEW s \in Services, IngestTrace(h, s) \/ IngestLog(h, s)
      PROVE  SeenInv'
  <2>1. PICK batch \in Batches \union {<<>>, <<s>>} : Ingest(h, s, batch)
    BY <1>1, Zenon DEF IngestTrace, IngestLog
  <2> QED BY <2>1, BatchesOfRequests, IngestSeen
<1>2. \A i \in Incidents : stage'[i] = "undetected" => stage[i] = "undetected"
  BY NoneUndone
<1>3. CASE \/ \E s \in Services : IngestMetric(s) \/ Refill(s)
           \/ Behind \/ UNCHANGED gatewayVars
  <2>1. UNCHANGED <<errCount, services, own, handler>>
    BY <1>3, Zenon DEF IngestMetric, Refill, Behind, gatewayVars
  <2> QED BY <1>2, <2>1, QuietSeen
<1>4. ASSUME NEW h \in Handlers,
             TriggerBlocked(h) \/ TriggerAdmitted(h) \/ TriggerAnalysis(h)
      PROVE  SeenInv'
  <2>1. UNCHANGED <<errCount, services, own>> /\ HasIncident(h)
    BY <1>4, Zenon DEF TriggerBlocked, TriggerAdmitted, TriggerAnalysis, HasIncident
  <2>2. \E v : v.pc \notin {"recording", "counting"} /\ handler' = [handler EXCEPT ![h] = v]
    <3>1. Idle.pc \notin {"recording", "counting"}
      BY LabelsDiffer
    <3>2. Triggering("admitted", handler[h].service, handler[h].inc).pc
            \notin {"recording", "counting"}
      BY LabelsDiffer
    <3> QED BY <1>4, <3>1, <3>2, Zenon
            DEF TriggerBlocked, TriggerAdmitted, TriggerAnalysis, Return
  <2>3. handler \in [Handlers -> Working \union {Idle}]
    BY Zenon DEF GatewayTypeOK
  <2>4. /\ handler'[h].pc \notin {"recording", "counting"}
        /\ \A k \in Handlers \ {h} : handler'[k] = handler[k]
    BY <2>2, <2>3, Zenon
  <2> QED BY <1>2, <2>1, <2>4, QuietSeen
<1>5. CASE \E h \in Handlers : HandlerStep(h)
  BY <1>4, <1>5, RecordSeen, LookupSeen, PassSeen, DetectSeen DEF HandlerStep
<1> QED BY <1>1, <1>3, <1>5, Zenon DEF GatewayNext

(***************************************************************************)
(* However a service's errors are split over its requests, and however the  *)
(* handlers of these overlap, a threshold of them makes an incident: the    *)
(* last handler to look the counter up is sure to reach it.                 *)
(***************************************************************************)
THEOREM BurstsAreSeen == GatewaySpec => []BurstIsSeen
<1>1. GatewayInit => SeenInv
  <2> SUFFICES ASSUME GatewayInit PROVE SeenInv
    OBVIOUS
  <2>1. \A s \in Services : Recorders(s) = {}
    BY LabelsDiffer DEF GatewayInit, Recorders, At
  <2>2. \A s \in Services : Left(s) = {}
    BY <2>1 DEF Left
  <2>3. \A s \in Services : own[s] = 0 /\ errCount[s] = 0
    BY DEF GatewayInit
  <2>4. LeftInv
    BY <2>2, <2>3, FS_EmptySet DEF LeftInv
  <2>5. BurstInv
    BY <2>3, GatewayAssumption DEF BurstInv
  <2>6. NoneYet
    BY DEF GatewayInit, NoneYet
  <2> QED BY <2>4, <2>5, <2>6 DEF SeenInv
<1>2. GatewayTypeOK /\ SeenInv /\ [GatewayNext]_gatewayVars => SeenInv'
  BY SeenStep
<1>3. GatewayTypeOK /\ SeenInv => BurstIsSeen
  <2> SUFFICES ASSUME SeenInv, NEW s \in Services, own[s] >= Threshold
               PROVE  \/ \E i \in Incidents : s \in services[i]
                      \/ \E h \in Handlers : handler[h] # Idle /\ handler[h].service = s
    BY DEF BurstIsSeen
  <2>1. \A h \in Handlers : At(h, "recording") \/ At(h, "counting") => handler[h] # Idle
    BY LabelsDiffer DEF At
  <2> QED BY <2>1 DEF SeenInv, BurstInv, Recorders, Sure
<1> QED BY <1>1, <1>2, <1>3, GatewayTypeCorrect, PTL DEF GatewaySpec
=============================================================================
