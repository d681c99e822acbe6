----------------------- MODULE FailureInjectionProofs -----------------------
(***************************************************************************)
(* The polled control plane, for every set of services and types and every  *)
(* period: a service lags behind the injector by at most a period and a     *)
(* request.                                                                 *)
(*                                                                          *)
(* Period - timer[s] is the time since s last asked.  An answer computed    *)
(* for a request sent after the last change is the present answer, and what *)
(* a service holds is the present answer if it last received one to such a  *)
(* request (Current); a request is lost only if the injector was down since *)
(* it was sent.                                                             *)
(***************************************************************************)
EXTENDS FailureInjection, TLAPS

Asked(s) == Period - timer[s]

Current(s) ==
  /\ poll[s] # "idle" => Asked(s) <= MaxDelay
  /\ poll[s] = "lost" => quiet[s] <= Asked(s)
  /\ poll[s] = "answered" /\ quiet[s] > Asked(s) => reply[s] = Answer(s)
  /\ poll[s] = "idle" /\ quiet[s] > Asked(s) => config[s] = Answer(s)
  /\ quiet[s] > Asked(s) + Period => config[s] = Answer(s)

\* The answers of an injector that is down are not quiet.
DownInv == ~injectorUp => \A s \in Services : quiet[s] = 0

IInv == TypeOK /\ DownInv /\ \A s \in Services : Current(s)

LEMMA NoFailureType == NoFailure \in FailureConfig
BY FailureInjectionAssumption DEF NoFailure, FailureConfig

LEMMA AgedType ==
  ASSUME NEW c \in FailureConfig
  PROVE  /\ Aged(c) \in FailureConfig
         /\ Aged(c).type = c.type
         /\ Aged(c).left = IF c.left < 0 THEN c.left ELSE c.left - 1
<1>1. c.type \in Types \union {None} /\ c.left \in -1 .. MaxDuration
  BY DEF FailureConfig
<1>2. CASE c.left < 0
  BY <1>2 DEF Aged, Expired
<1>3. CASE ~(c.left < 0)
  <2> DEFINE d == [type |-> c.type, left |-> c.left - 1]
  <2>1. c.left - 1 \in -1 .. MaxDuration
    BY <1>1, <1>3, FailureInjectionAssumption
  <2>2. d \in FailureConfig /\ d.type = c.type /\ d.left = c.left - 1
    BY <1>1, <2>1 DEF FailureConfig
  <2>3. Aged(c) = [c EXCEPT !.left = c.left - 1]
    BY <1>3, Zenon DEF Aged, Expired
  <2>4. Aged(c) = d
    BY <2>3 DEF FailureConfig
  <2> HIDE DEF d
  <2> QED BY <1>3, <2>2, <2>4
<1> QED BY <1>2, <1>3

LEMMA InitInvariant == Init => IInv
<1> SUFFICES ASSUME Init PROVE IInv
  OBVIOUS
<1>1. TypeOK
  BY NoFailureType, FailureInjectionAssumption DEF Init, TypeOK, Bound
<1>2. ASSUME NEW s \in Services PROVE Current(s)
  BY FailureInjectionAssumption DEF Init, Current, Asked
<1> QED BY <1>1, <1>2 DEF IInv, Init, DownInv

-----------------------------------------------------------------------------

LEMMA AnswerType ==
  ASSUME TypeOK, NEW s \in Services
  PROVE  /\ Answer(s) \in FailureConfig
         /\ ~(Answer(s).type # None /\ Expired(Answer(s)))
<1>1. failureStates[s] \in FailureConfig
  BY DEF TypeOK
<1>2. NoFailure.type = None
  BY DEF NoFailure
<1> QED BY <1>1, <1>2, NoFailureType, Zenon DEF Answer

\* An answer that does not expire with this tick only ages.
LEMMA AnswerAges ==
  ASSUME TypeOK, NEW s \in Services, Tick, failureStates[s].left # 0
  PROVE  Answer(s)' = Aged(Answer(s))
<1> DEFINE c == failureStates[s]
<1>1. c \in FailureConfig /\ failureStates'[s] = Aged(c)
  BY DEF TypeOK, Tick
<1>2. c.left \in -1 .. MaxDuration
  BY <1>1 DEF FailureConfig
<1>3. Answer(s) = IF Expired(c) THEN NoFailure ELSE c
  BY Zenon DEF Answer
<1>4. Answer(s)' = IF Expired(Aged(c)) THEN NoFailure ELSE Aged(c)
  BY <1>1, Zenon DEF Answer
<1> HIDE DEF c
<1>5. CASE Expired(c)
  <2>1. Aged(c) = c
    BY <1>5, Zenon DEF Aged
  <2>2. Aged(NoFailure) = NoFailure
    BY DEF Aged, Expired, NoFailure
  <2> QED BY <1>3, <1>4, <1>5, <2>1, <2>2, Zenon
<1>6. CASE ~Expired(c)
  <2>1. c.left > 0
    BY <1>2, <1>6 DEF Expired, c
  <2>2. ~Expired(Aged(c))
    BY <1>1, <1>2, <2>1, AgedType DEF Expired
  <2> QED BY <1>3, <1>4, <1>6, <2>2, Zenon
<1> QED BY <1>5, <1>6

-----------------------------------------------------------------------------
(***************************************************************************)
(* Steps                                                                   *)
(***************************************************************************)

\* The actions that change answers make them not quiet.
LEMMA InjectorStep ==
  ASSUME IInv,
         \/ \E s \in Services, type \in Types \union {None}, d \in Durations :
              Inject(s, type, d)
         \/ Reset \/ Stop \/ Start
  PROVE  IInv'
<1>1. /\ failureStates \in [Services -> FailureConfig]
      /\ poll \in [Services -> {"idle", "asked", "answered", "lost"}]
      /\ timer \in [Services -> 0 .. Period]
      /\ quiet \in [Services -> 0 .. Bound + 1]
      /\ 0 \in 0 .. Bound + 1 /\ Period \in Nat
  BY FailureInjectionAssumption DEF IInv, TypeOK, Bound
<1>2. ASSUME NEW s \in Services, NEW type \in Types \union {None},
             NEW d \in Durations, Inject(s, type, d)
      PROVE  IInv'
  <2>1. [type |-> type, left |-> d] \in FailureConfig
    BY FailureInjectionAssumption DEF FailureConfig
  <2>2. TypeOK'
    BY <1>1, <1>2, <2>1 DEF Inject, IInv, TypeOK, serviceVars
  <2>3. DownInv'
    BY <1>2 DEF Inject, DownInv
  <2>4. ASSUME NEW x \in Services PROVE Current(x)'
    <3>1. quiet'[x] = IF x = s THEN 0 ELSE quiet[x]
      BY <1>1, <1>2 DEF Inject
    <3>2. UNCHANGED <<config, poll, reply, timer>>
      BY <1>2 DEF Inject, serviceVars
    <3>3. x # s => Answer(x)' = Answer(x)
      BY <1>1, <1>2 DEF Inject, Answer
    <3>4. Current(x)
      BY DEF IInv
    <3>5. Asked(x) \in Nat /\ Asked(x)' = Asked(x)
      BY <1>1, <3>2 DEF Asked
    <3> QED BY <1>1, <3>1, <3>2, <3>3, <3>4, <3>5 DEF Current
  <2> QED BY <2>2, <2>3, <2>4 DEF IInv
<1>3. CASE Reset \/ Stop
  <2>1. TypeOK'
    BY <1>1, <1>3, NoFailureType, Zenon DEF Reset, Stop, IInv, TypeOK, serviceVars
  <2>2. quiet' = [s \in Services |-> 0]
    BY <1>3 DEF Reset, Stop
  <2>3. DownInv'
    BY <2>2 DEF DownInv
  <2>4. ASSUME NEW x \in Services PROVE Current(x)'
    <3>1. timer' = timer /\ (poll'[x] # "idle" => poll[x] # "idle")
      BY <1>1, <1>3 DEF Reset, Stop, serviceVars
    <3>2. Asked(x) \in Nat /\ Asked(x)' = Asked(x)
      BY <1>1, <3>1 DEF Asked
    <3>3. Current(x)
      BY DEF IInv
    <3> QED BY <1>1, <2>2, <3>1, <3>2, <3>3 DEF Current
  <2> QED BY <2>1, <2>3, <2>4 DEF IInv
<1>4. CASE Start
  <2>1. TypeOK'
    BY <1>4, Zenon DEF Start, IInv, TypeOK, serviceVars
  <2>2. DownInv'
    BY <1>4 DEF Start, DownInv
  <2>3. ASSUME NEW x \in Services PROVE Current(x)'
    BY <1>4, Zenon DEF Start, IInv, Current, Asked, Answer, serviceVars
  <2> QED BY <2>1, <2>2, <2>3 DEF IInv
<1> QED BY <1>2, <1>3, <1>4

\* A step of a poll changes its own service only, and no answer.
LEMMA PollInvariant ==
  ASSUME IInv, NEW s \in Services, PollStep(s)
  PROVE  IInv'
<1>1. /\ config \in [Services -> FailureConfig]
      /\ poll \in [Services -> {"idle", "asked", "answered", "lost"}]
      /\ reply \in [Services -> FailureConfig]
      /\ timer \in [Services -> 0 .. Period]
      /\ quiet \in [Services -> 0 .. Bound + 1]
      /\ Bound \in Nat /\ Period \in Nat /\ MaxDelay \in Nat
  BY FailureInjectionAssumption DEF IInv, TypeOK, Bound
<1>2. injectorUp' = injectorUp /\ failureStates' = failureStates /\ quiet' = quiet
  BY DEF PollStep, Ask, HandleGetState, FetchFails, Receive, injectorVars
<1>3. \A x \in Services : Answer(x)' = Answer(x)
  BY <1>2, Zenon DEF Answer
<1>4. Answer(s) \in FailureConfig /\ ~(Answer(s).type # None /\ Expired(Answer(s)))
  BY AnswerType DEF IInv
<1>5. DownInv'
  BY <1>2, Zenon DEF IInv, DownInv
<1>6. Current(s) /\ Asked(s) \in Nat /\ quiet[s] \in Nat
  BY <1>1 DEF IInv, Asked
<1>7. CASE Ask(s)
  <2>1. /\ timer[s] = 0 /\ poll[s] = "idle"
        /\ timer' = [timer EXCEPT ![s] = Period]
        /\ poll' = [poll EXCEPT ![s] = IF injectorUp THEN "asked" ELSE "lost"]
        /\ UNCHANGED <<config, reply>>
    BY <1>7 DEF Ask
  <2>2. TypeOK'
    BY <1>1, <1>2, <2>1 DEF IInv, TypeOK
  <2>3. Asked(s) = Period /\ Asked(s)' = 0
    BY <1>1, <2>1 DEF Asked
  <2>4. poll'[s] = "lost" => quiet[s] = 0
    BY <1>1, <2>1 DEF IInv, DownInv
  <2>5. poll'[s] \in {"asked", "lost"}
    BY <1>1, <2>1
  <2>6. Current(s)'
    BY <1>1, <1>2, <1>3, <1>6, <2>1, <2>3, <2>4, <2>5 DEF Current
  <2>7. ASSUME NEW x \in Services, x # s PROVE Current(x)'
    BY <1>1, <1>2, <1>3, <2>1, <2>7 DEF IInv, Current, Asked
  <2> QED BY <1>5, <2>2, <2>6, <2>7 DEF IInv
<1>8. CASE HandleGetState(s)
  <2>1. /\ poll[s] = "asked"
        /\ reply' = [reply EXCEPT ![s] = Answer(s)]
        /\ poll' = [poll EXCEPT ![s] = "answered"]
        /\ UNCHANGED <<config, timer>>
    BY <1>8 DEF HandleGetState
  <2>2. TypeOK'
    BY <1>1, <1>2, <1>4, <2>1 DEF IInv, TypeOK
  <2>3. Current(s)'
    BY <1>1, <1>2, <1>3, <1>6, <2>1 DEF Current, Asked
  <2>4. ASSUME NEW x \in Services, x # s PROVE Current(x)'
    BY <1>1, <1>2, <1>3, <2>1, <2>4 DEF IInv, Current, Asked
  <2> QED BY <1>5, <2>2, <2>3, <2>4 DEF IInv
<1>9. CASE FetchFails(s)
  <2>1. /\ poll[s] = "lost"
        /\ poll' = [poll EXCEPT ![s] = "idle"]
        /\ UNCHANGED <<config, reply, timer>>
    BY <1>9 DEF FetchFails
  <2>2. TypeOK'
    BY <1>1, <1>2, <2>1 DEF IInv, TypeOK
  <2>3. Current(s)'
    BY <1>1, <1>2, <1>3, <1>6, <2>1 DEF Current, Asked
  <2>4. ASSUME NEW x \in Services, x # s PROVE Current(x)'
    BY <1>1, <1>2, <1>3, <2>1, <2>4 DEF IInv, Current, Asked
  <2> QED BY <1>5, <2>2, <2>3, <2>4 DEF IInv
<1>10. CASE Receive(s)
  <2> DEFINE r == IF reply[s].type # None /\ Expired(reply[s])
                    THEN NoFailure ELSE reply[s]
  <2>1. /\ poll[s] = "answered"
        /\ config' = [config EXCEPT ![s] = r]
        /\ poll' = [poll EXCEPT ![s] = "idle"]
        /\ UNCHANGED <<reply, timer>>
    BY <1>10 DEF Receive
  <2>2. r \in FailureConfig
    BY <1>1, NoFailureType
  <2>3. reply[s] = Answer(s) => r = Answer(s)
    BY <1>4, Zenon
  <2> HIDE DEF r
  <2>4. TypeOK'
    BY <1>1, <1>2, <2>1, <2>2 DEF IInv, TypeOK
  <2>5. Current(s)'
    BY <1>1, <1>2, <1>3, <1>6, <2>1, <2>3 DEF Current, Asked
  <2>6. ASSUME NEW x \in Services, x # s PROVE Current(x)'
    BY <1>1, <1>2, <1>3, <2>1, <2>6 DEF IInv, Current, Asked
  <2> QED BY <1>5, <2>4, <2>5, <2>6 DEF IInv
<1> QED BY <1>7, <1>8, <1>9, <1>10 DEF PollStep

\* As time passes an answer and its copies age alike.
LEMMA TickInvariant ==
  ASSUME IInv, Tick
  PROVE  IInv'
<1>1. /\ failureStates \in [Services -> FailureConfig]
      /\ config \in [Services -> FailureConfig]
      /\ poll \in [Services -> {"idle", "asked", "answered", "lost"}]
      /\ reply \in [Services -> FailureConfig]
      /\ timer \in [Services -> 0 .. Period]
      /\ quiet \in [Services -> 0 .. Bound + 1]
      /\ Bound \in Nat /\ Period \in Nat /\ MaxDelay \in Nat
      /\ Bound = Period + MaxDelay
  BY FailureInjectionAssumption DEF IInv, TypeOK, Bound
<1>2. /\ injectorUp' = injectorUp /\ poll' = poll
      /\ timer' = [s \in Services |-> timer[s] - 1]
      /\ failureStates' = [s \in Services |-> Aged(failureStates[s])]
      /\ config' = [s \in Services |-> Aged(config[s])]
      /\ reply' = [s \in Services |-> Aged(reply[s])]
      /\ \A s \in Services :
           timer[s] > 0 /\ (poll[s] # "idle" => Period - timer[s] < MaxDelay)
  BY DEF Tick
<1>3. \A s \in Services :
        quiet'[s] = IF ~injectorUp \/ failureStates[s].left = 0 THEN 0
                    ELSE IF quiet[s] <= Bound THEN quiet[s] + 1 ELSE quiet[s]
  BY DEF Tick
<1>4. ASSUME NEW s \in Services
      PROVE  /\ quiet'[s] \in 0 .. Bound + 1
             /\ \/ quiet'[s] = 0
                \/ quiet'[s] = quiet[s] + 1
                \/ (quiet'[s] = quiet[s] /\ quiet[s] > Bound)
             /\ failureStates[s].left = 0 => quiet'[s] = 0
             /\ ~injectorUp => quiet'[s] = 0
  <2>1. CASE ~injectorUp \/ failureStates[s].left = 0
    <3>1. quiet'[s] = 0
      BY <1>3, <2>1, Zenon
    <3> QED BY <1>1, <3>1
  <2>2. CASE ~(~injectorUp \/ failureStates[s].left = 0)
    <3>1. quiet'[s] = IF quiet[s] <= Bound THEN quiet[s] + 1 ELSE quiet[s]
      BY <1>3, <2>2, Zenon
    <3>2. quiet'[s] \in 0 .. Bound + 1
          /\ (quiet'[s] = quiet[s] + 1 \/ (quiet'[s] = quiet[s] /\ quiet[s] > Bound))
      BY <1>1, <3>1
    <3> QED BY <2>2, <3>2, Zenon
  <2> QED BY <2>1, <2>2
<1>5. TypeOK'
  <2>1. quiet' \in [Services -> 0 .. Bound + 1]
    <3>1. quiet' = [s \in Services |-> quiet'[s]]
      BY DEF Tick
    <3> QED BY <1>4, <3>1, Zenon
  <2>2. timer' \in [Services -> 0 .. Period]
    BY <1>1, <1>2
  <2>3. /\ failureStates' \in [Services -> FailureConfig]
        /\ config' \in [Services -> FailureConfig]
        /\ reply' \in [Services -> FailureConfig]
    BY <1>1, <1>2, AgedType
  <2>4. injectorUp' \in BOOLEAN
    BY <1>2, Zenon DEF IInv, TypeOK
  <2> QED BY <1>1, <1>2, <2>1, <2>2, <2>3, <2>4, Zenon DEF TypeOK, Bound
<1>6. DownInv'
  BY <1>2, <1>4, Zenon DEF DownInv
<1>7. ASSUME NEW s \in Services PROVE Current(s)'
  <2>1. Asked(s) \in Nat /\ Asked(s)' = Asked(s) + 1 /\ Asked(s) < Period
    BY <1>1, <1>2 DEF Asked
  <2>2. poll[s] # "idle" => Asked(s) < MaxDelay
    BY <1>2 DEF Asked
  <2>3. Current(s) /\ quiet[s] \in Nat
    BY <1>1 DEF IInv
  <2>4. quiet'[s] # 0 => Answer(s)' = Aged(Answer(s))
    BY <1>4, AnswerAges DEF IInv
  <2>5. config'[s] = Aged(config[s]) /\ reply'[s] = Aged(reply[s]) /\ poll'[s] = poll[s]
    BY <1>2
  <2>6. poll[s] # "idle" => Asked(s)' <= MaxDelay
    BY <1>1, <2>1, <2>2
  <2>7. poll[s] = "lost" => quiet'[s] <= Asked(s)'
    BY <1>1, <1>4, <2>1, <2>2, <2>3 DEF Current
  <2>8. ASSUME quiet'[s] > Asked(s)'
        PROVE  quiet[s] > Asked(s) /\ quiet'[s] # 0
    BY <1>1, <1>4, <2>1, <2>3, <2>8
  <2>9. ASSUME quiet'[s] > Asked(s)' + Period
        PROVE  (quiet[s] > Asked(s) + Period \/ (poll[s] = "idle" /\ quiet[s] > Asked(s)))
               /\ quiet'[s] # 0
    BY <1>1, <1>4, <2>1, <2>2, <2>3, <2>9
  <2>10. poll[s] = "answered" /\ quiet'[s] > Asked(s)' => reply'[s] = Answer(s)'
    BY <2>3, <2>4, <2>5, <2>8, Zenon DEF Current
  <2>11. poll[s] = "idle" /\ quiet'[s] > Asked(s)' => config'[s] = Answer(s)'
    BY <2>3, <2>4, <2>5, <2>8, Zenon DEF Current
  <2>12. quiet'[s] > Asked(s)' + Period => config'[s] = Answer(s)'
    BY <2>3, <2>4, <2>5, <2>9, Zenon DEF Current
  <2> QED BY <1>2, <2>6, <2>7, <2>10, <2>11, <2>12, Zenon DEF Current
<1> QED BY <1>5, <1>6, <1>7 DEF IInv

LEMMA NextInvariant ==
  ASSUME IInv, [Next]_vars
  PROVE  IInv'
<1>1. CASE UNCHANGED vars
  BY <1>1, Zenon DEF vars, injectorVars, serviceVars, IInv, TypeOK, DownInv,
     Current, Asked, Answer
<1> QED BY <1>1, InjectorStep, PollInvariant, TickInvariant DEF Next

(***************************************************************************)
(* Type correctness of the injector, of the services and of their polls.    *)
(***************************************************************************)
THEOREM TypeCorrect == Spec => []TypeOK
<1>1. Init => IInv
  BY InitInvariant
<1>2. IInv /\ [Next]_vars => IInv'
  BY NextInvariant
<1>3. IInv => TypeOK
  BY DEF IInv
<1> QED BY <1>1, <1>2, <1>3, PTL DEF Spec

(***************************************************************************)
(* The lag of the polled control plane, through crashes, resets and answers *)
(* that cross them: at most a period and a request.                         *)
(***************************************************************************)
THEOREM TakesEffectCorrect == Spec => []TakesEffect
<1>1. Init => IInv
  BY InitInvariant
<1>2. IInv /\ [Next]_vars => IInv'
  BY NextInvariant
<1>3. ASSUME IInv, NEW s \in Services, quiet[s] > Bound
      PROVE  config[s] = Answer(s)
  <2>1. /\ Asked(s) \in Nat /\ Asked(s) <= Period /\ quiet[s] \in Nat
        /\ MaxDelay \in Nat /\ Period \in Nat /\ quiet[s] > Period + MaxDelay
    BY <1>3, FailureInjectionAssumption DEF IInv, TypeOK, Asked, Bound
  <2>2. Current(s)
    BY <1>3 DEF IInv
  <2>3. CASE poll[s] = "idle"
    BY <2>1, <2>2, <2>3 DEF Current
  <2>4. CASE poll[s] # "idle"
    BY <2>1, <2>2, <2>4 DEF Current
  <2> QED BY <2>3, <2>4
<1>4. IInv => TakesEffect
  BY <1>3 DEF TakesEffect
<1> QED BY <1>1, <1>2, <1>4, PTL DEF Spec
=============================================================================
