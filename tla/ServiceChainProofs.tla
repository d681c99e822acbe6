-------------------------- MODULE ServiceChainProofs --------------------------
(***************************************************************************)
(* Proofs about ServiceChain, for every timeout and any latencies, however  *)
(* the failures change: the three bounds hold together with an account of   *)
(* a handler's time and the order in which the handlers of a request begin. *)
(***************************************************************************)
EXTENDS ServiceChain, TLAPS

\* A handler's time is its sleep, what went by of it, and its call.
Account ==
  \A s \in Services :
    /\ pc[s] = "idle" => age[s] = 0 /\ called[s] = 0 /\ orphaned[s] = 0
    /\ pc[s] = "sleeping" => age[s] + left[s] = slept[s] /\ called[s] = 0
    /\ pc[s] = "awake" => age[s] = slept[s] /\ called[s] = 0
    /\ pc[s] = "calling" => age[s] = slept[s] + called[s]

\* Of an orphan's time there is no more than went by of its sleep.
OrphanAccount ==
  \A s \in Services :
    /\ pc[s] = "sleeping" => orphaned[s] + left[s] <= slept[s]
    /\ pc[s] \in {"awake", "calling"} => orphaned[s] <= slept[s]

\* A service calls the next one once, and nobody else does.
Order ==
  /\ pc[entry] = "idle" => \A s \in Services : pc[s] = "idle"
  /\ entry \in {"service_b", "service_c"} => pc["service_a"] = "idle"
  /\ entry = "service_c" => pc["service_b"] = "idle"
  /\ pc["service_a"] \in {"sleeping", "awake"} => pc["service_b"] = "idle"
  /\ pc["service_b"] \in {"idle", "sleeping", "awake"} /\ entry # "service_c"
       => pc["service_c"] = "idle"

\* Whom a handler waits for is not cancelled, nor is who did not begin.
Waited ==
  /\ \A s \in Callers : pc[s] = "calling" => ~cancelled[Downstream(s)]
  /\ \A s \in Services : pc[s] = "idle" => ~cancelled[s]

IInv ==
  /\ TypeOK
  /\ Account
  /\ OrphanAccount
  /\ Order
  /\ Waited
  /\ TrueSuccess
-----------------------------------------------------------------------------
(***************************************************************************)
(* The invariant is inductive                                              *)
(***************************************************************************)

\* The timeout is a number.
LEMMA TimeoutIsNat == Timeout \in Nat /\ Timeout > 0
  BY ChainAssumption

\* Latencies are numbers.
LEMMA LatencyIsNat == \A l \in Latencies \union {0} : l \in Nat
<1>1. \A l \in Latencies : l \in Nat \ {0}
  BY ChainAssumption, Zenon
<1>2. QED
  BY <1>1

\* Latencies are numbers, and a service without one sleeps for none.
LEMMA GetLatencyType ==
  ASSUME TypeOK, NEW s \in Services
  PROVE  GetLatency(s) \in Latencies \union {0} /\ GetLatency(s) \in Nat
<1>1. failure[s] \in Failures
  BY DEF TypeOK
<1>2. failure[s].latency \in Latencies \union {0}
  BY <1>1 DEF Failures, NoFailure
<1>3. QED
  BY <1>2, LatencyIsNat DEF GetLatency

\* The services.
LEMMA ServiceFacts ==
  /\ Callers \subseteq Services
  /\ \A s \in Callers : Downstream(s) \in Services /\ Downstream(s) # s
  BY DEF Callers, Services, Downstream

\* The initial states have the invariant.
LEMMA InitInvariant == Init => IInv
<1> SUFFICES ASSUME Init PROVE IInv
  OBVIOUS
<1>1. TypeOK
  BY TimeoutIsNat DEF Init, TypeOK, Zero, Failures, NoFailure, Services
<1>2. Account /\ OrphanAccount /\ Order /\ Waited /\ TrueSuccess
  BY DEF Init, Account, OrphanAccount, Order, Waited, TrueSuccess, Zero,
         Services, Callers, Downstream
<1>3. QED
  BY <1>1, <1>2 DEF IInv

\* Another failure changes nothing else that the invariant speaks of.
LEMMA UpdateKeeps ==
  ASSUME IInv, NEW s \in Services, Update(s)
  PROVE  IInv'
<1>1. failure' \in [Services -> Failures]
  BY DEF Update, IInv, TypeOK
<1>2. QED
  BY <1>1 DEF Update, IInv, TypeOK, Account, OrphanAccount, Order, Waited,
     TrueSuccess, handlerVars, Callers, Services, Downstream

\* The first handler begins: nobody else has.
LEMMA EnterKeeps ==
  ASSUME IInv, Enter
  PROVE  IInv'
<1>1. GetLatency(entry) \in Latencies \union {0} /\ GetLatency(entry) \in Nat
  BY GetLatencyType DEF IInv, TypeOK
<1>2. TypeOK'
  BY <1>1 DEF IInv, TypeOK, Enter, Begun
<1>3. Account'
  BY <1>1 DEF IInv, TypeOK, Account, Enter, Begun
<1>4. OrphanAccount'
  BY <1>1 DEF IInv, TypeOK, Account, OrphanAccount, Enter, Begun
<1>5. (Order /\ Waited /\ TrueSuccess)'
  BY <1>1 DEF IInv, TypeOK, Order, Waited, TrueSuccess, Enter, Begun,
     Services, Callers, Downstream
<1>6. QED
  BY <1>2, <1>3, <1>4, <1>5 DEF IInv

\* A sleep that is over is the handler's time.
LEMMA WakeKeeps ==
  ASSUME IInv, NEW s \in Services, Wake(s)
  PROVE  IInv'
<1>1. TypeOK'
  BY DEF IInv, TypeOK, Wake, Services
<1>2. (Account /\ OrphanAccount)'
  BY DEF IInv, TypeOK, Account, OrphanAccount, Wake
<1>3. (Order /\ Waited /\ TrueSuccess)'
  BY DEF IInv, TypeOK, Order, Waited, TrueSuccess, Wake, Services, Callers, Downstream
<1>4. QED
  BY <1>1, <1>2, <1>3 DEF IInv

\* What all ways to respond have in common.  Only a success of service_a has
\* to be shown to be true.
LEMMA RespondKeeps ==
  ASSUME IInv, NEW s \in Services, NEW code \in {200, 500, 502},
         pc[s] \in {"awake", "calling"},
         Respond(s, code),
         UNCHANGED <<failure, entry, left, called, slept, age, orphaned>>,
         cancelled' \in [Services -> BOOLEAN],
         \A t \in Services : cancelled'[t] # cancelled[t] =>
            s \in Callers /\ t = Downstream(s) /\ pc[s] = "calling" /\ Working(t),
         s = "service_a" /\ code = 200 =>
            status["service_b"] = 200 /\ ~cancelled'["service_b"]
  PROVE  IInv'
<1>1. TypeOK'
  BY DEF IInv, TypeOK, Respond, Services
<1>2. (Account /\ OrphanAccount)'
  BY DEF IInv, TypeOK, Account, OrphanAccount, Respond
<1>3. Order'
  BY DEF IInv, TypeOK, Order, Respond, Services
<1>4. Waited'
  BY DEF IInv, TypeOK, Order, Waited, Respond, Services, Callers, Downstream, Working
<1>5. TrueSuccess'
  BY DEF IInv, TypeOK, Order, Waited, TrueSuccess, Respond, Services, Callers,
     Downstream, Working
<1>6. QED
  BY <1>1, <1>2, <1>3, <1>4, <1>5 DEF IInv

\* The 500 of an injected failure is no success.
LEMMA FailKeeps ==
  ASSUME IInv, NEW s \in Services, Fail(s)
  PROVE  IInv'
  BY RespondKeeps DEF Fail, IInv, TypeOK

\* service_c's answer rests on nobody else's.
LEMMA FinishKeeps ==
  ASSUME IInv, Finish
  PROVE  IInv'
  BY RespondKeeps DEF Finish, IInv, TypeOK, Services

\* A call nobody listens to is answered with an error.
LEMMA RefusedKeeps ==
  ASSUME IInv, NEW s \in Callers, Refused(s)
  PROVE  IInv'
  BY RespondKeeps, ServiceFacts DEF Refused, IInv, TypeOK

\* service_a passes on success only from a service_b it waited for.
LEMMA ReturnKeeps ==
  ASSUME IInv, NEW s \in Callers, Return(s)
  PROVE  IInv'
<1>1. status[Downstream(s)] \in {200, 500, 502}
  BY ServiceFacts DEF Return, IInv, TypeOK
<1>2. PassOn(s) \in {200, 500, 502}
  BY <1>1 DEF PassOn
<1>3. s = "service_a" /\ PassOn(s) = 200 =>
        status["service_b"] = 200 /\ ~cancelled["service_b"]
  BY DEF Return, PassOn, IInv, Waited, Callers, Downstream
<1>4. QED
  BY <1>2, <1>3, RespondKeeps, ServiceFacts DEF Return, IInv, TypeOK

\* Who gives up a call cancels the handler it waited for, if it works.
LEMMA GiveUpKeeps ==
  ASSUME IInv, NEW s \in Callers, GiveUp(s)
  PROVE  IInv'
<1>1. ~cancelled[Downstream(s)]
  BY DEF GiveUp, IInv, Waited
<1>2. Working(Downstream(s)) \in BOOLEAN
  BY DEF Working
<1>3. /\ cancelled \in [Services -> BOOLEAN]
      /\ cancelled' = [cancelled EXCEPT ![Downstream(s)] = Working(Downstream(s))]
  BY DEF GiveUp, IInv, TypeOK
<1>4. cancelled' \in [Services -> BOOLEAN]
  BY <1>2, <1>3, Zenon
<1>5. \A t \in Services : cancelled'[t] # cancelled[t] =>
        t = Downstream(s) /\ Working(t)
  <2> SUFFICES ASSUME NEW t \in Services, cancelled'[t] # cancelled[t]
               PROVE  t = Downstream(s) /\ Working(t)
    OBVIOUS
  <2>1. t = Downstream(s)
    BY <1>3, Zenon
  <2>2. cancelled'[t] = Working(t)
    BY <1>3, <2>1, Zenon
  <2>3. cancelled[t] = FALSE
    BY <1>1, <1>3, <2>1, Zenon
  <2>4. QED
    BY <2>1, <2>2, <2>3, <1>2, Zenon
<1>6. QED
  BY <1>4, <1>5, RespondKeeps, ServiceFacts DEF GiveUp

\* A call begins a handler that has not begun.
LEMMA CallKeeps ==
  ASSUME IInv, NEW s \in Callers, Call(s)
  PROVE  IInv'
<1> DEFINE d == Downstream(s)
<1>1. GetLatency(d) \in Latencies \union {0} /\ GetLatency(d) \in Nat
  BY GetLatencyType, ServiceFacts DEF IInv
<1>2. d \in Services /\ d # s /\ s \in Services
  BY ServiceFacts
<1>3. pc[d] = "idle"
  BY DEF Call, IInv, Order, TypeOK, Callers, Services, Downstream
<1>4. TypeOK'
  <2>1. left' \in [Services -> Nat] /\ slept' \in [Services -> Latencies \union {0}]
    BY <1>1, <1>2 DEF IInv, TypeOK, Call, Begun
  <2>2. /\ pc' \in [Services -> {"idle", "sleeping", "awake", "calling", "done"}]
        /\ pc'["service_c"] # "calling"
        /\ \A t \in Services : pc'[t] = "done" <=> pc[t] = "done"
    BY <1>2, <1>3 DEF IInv, TypeOK, Call, Begun, Callers, Services
  <2>3. QED
    BY <2>1, <2>2 DEF IInv, TypeOK, Call
<1>5. (Account /\ OrphanAccount)'
  BY <1>1, <1>2, <1>3 DEF IInv, TypeOK, Account, OrphanAccount, Call, Begun
<1>6. (Order /\ Waited /\ TrueSuccess)'
  BY <1>1, <1>2, <1>3 DEF IInv, TypeOK, Order, Waited, TrueSuccess, Call, Begun,
     Services, Callers, Downstream
<1>7. QED
  BY <1>4, <1>5, <1>6 DEF IInv

\* A user who leaves cancels the first handler, for which no service waits.
LEMMA UserLeavesKeeps ==
  ASSUME IInv, UserLeaves
  PROVE  IInv'
<1>1. TypeOK'
  BY DEF IInv, TypeOK, UserLeaves
<1>2. (Account /\ OrphanAccount)'
  BY DEF IInv, TypeOK, Account, OrphanAccount, UserLeaves
<1>3. (Order /\ Waited /\ TrueSuccess)'
  BY DEF IInv, TypeOK, Order, Waited, TrueSuccess, UserLeaves, Working,
     Services, Callers, Downstream
<1>4. QED
  BY <1>1, <1>2, <1>3 DEF IInv

\* Time goes by for those who sleep, and for those who wait in time and are
\* not cancelled.
LEMMA TickKeeps ==
  ASSUME IInv, Tick
  PROVE  IInv'
<1>1. \A s \in Services : pc[s] = "sleeping" => left[s] \in Nat /\ left[s] > 0
  BY DEF IInv, TypeOK, Tick, Ready
<1>2. \A s \in Services :
        pc[s] = "calling" => called[s] \in 0 .. Timeout - 1 /\ ~cancelled[s]
  BY TimeoutIsNat DEF IInv, TypeOK, Tick, Ready, Due
<1>3. \A s \in Services : pc[s] # "awake"
  BY DEF Tick, Ready
<1>4. /\ left' \in [Services -> Nat]
      /\ called' \in [Services -> 0 .. Timeout]
      /\ age' \in [Services -> Nat]
      /\ orphaned' \in [Services -> Nat]
  BY <1>1, <1>2, TimeoutIsNat DEF IInv, TypeOK, Tick
<1>5. TypeOK'
  BY <1>4 DEF IInv, TypeOK, Tick
<1>6. \A s \in Services : slept[s] \in Nat
  BY LatencyIsNat DEF IInv, TypeOK
<1>7. Account'
  <2> SUFFICES ASSUME NEW s \in Services
               PROVE  /\ pc[s] = "idle" => age'[s] = 0 /\ called'[s] = 0 /\ orphaned'[s] = 0
                      /\ pc[s] = "sleeping" => age'[s] + left'[s] = slept[s] /\ called'[s] = 0
                      /\ pc[s] = "calling" => age'[s] = slept[s] + called'[s]
    BY <1>3 DEF Account, Tick
  <2>1. /\ left[s] \in Nat /\ age[s] \in Nat /\ called[s] \in Nat
    BY TimeoutIsNat DEF IInv, TypeOK
  <2>2. QED
    BY <1>1, <1>6, <2>1 DEF IInv, Account, Tick, Working
<1>8. OrphanAccount'
  <2> SUFFICES ASSUME NEW s \in Services
               PROVE  /\ pc[s] = "sleeping" => orphaned'[s] + left'[s] <= slept[s]
                      /\ pc[s] = "calling" => orphaned'[s] <= slept[s]
    BY <1>3 DEF OrphanAccount, Tick
  <2>1. /\ left[s] \in Nat /\ orphaned[s] \in Nat
    BY DEF IInv, TypeOK
  <2>2. QED
    BY <1>1, <1>2, <1>6, <2>1 DEF IInv, OrphanAccount, Tick, Working
<1>9. (Order /\ Waited /\ TrueSuccess)'
  BY DEF IInv, Order, Waited, TrueSuccess, Tick
<1>10. QED
  BY <1>5, <1>7, <1>8, <1>9 DEF IInv

\* Every step keeps the invariant.
LEMMA NextInvariant == IInv /\ [Next]_vars => IInv'
<1> SUFFICES ASSUME IInv, [Next]_vars PROVE IInv'
  OBVIOUS
<1>1. CASE \E s \in Services : Update(s)
  BY <1>1, UpdateKeeps
<1>2. CASE Enter
  BY <1>2, EnterKeeps
<1>3. CASE HandlerStep
  BY <1>3, WakeKeeps, FailKeeps, FinishKeeps, CallKeeps, RefusedKeeps,
     ReturnKeeps, GiveUpKeeps DEF HandlerStep
<1>4. CASE UserLeaves
  BY <1>4, UserLeavesKeeps
<1>5. CASE Tick
  BY <1>5, TickKeeps
<1>6. CASE UNCHANGED vars
  BY <1>6 DEF IInv, TypeOK, Account, OrphanAccount, Order, Waited, TrueSuccess,
     vars, handlerVars
<1>7. QED
  BY <1>1, <1>2, <1>3, <1>4, <1>5, <1>6 DEF Next

\* All behaviours have the invariant.
LEMMA ChainInvariant == Spec => []IInv
  BY InitInvariant, NextInvariant, PTL DEF Spec
-----------------------------------------------------------------------------
(***************************************************************************)
(* Theorems                                                                *)
(***************************************************************************)

\* For any timeout and latencies the variables keep their types: no call is
\* longer than the timeout, and a handler has a status when it is done.
THEOREM TypeCorrect == Spec => []TypeOK
  BY ChainInvariant, PTL DEF IInv

(***************************************************************************)
(* Every handler of the chain is done after the latency that it took on and *)
(* one timeout, whatever the services behind it do.                         *)
(***************************************************************************)
THEOREM AnswersInTimeCorrect == Spec => []AnswersInTime
<1>1. IInv => AnswersInTime
  <2> SUFFICES ASSUME IInv, NEW s \in Services, Working(s)
               PROVE  age[s] <= slept[s] + Timeout
    BY DEF AnswersInTime
  <2>1. slept[s] \in Nat /\ age[s] \in Nat /\ left[s] \in Nat /\ called[s] \in 0 .. Timeout
    BY LatencyIsNat DEF IInv, TypeOK
  <2>2. QED
    BY <2>1, TimeoutIsNat DEF IInv, Account, Working
<1>2. QED
  BY <1>1, ChainInvariant, PTL

(***************************************************************************)
(* A handler whose request nobody waits for any more works on for no longer *)
(* than its own injected latency.                                           *)
(***************************************************************************)
THEOREM OrphansEndCorrect == Spec => []OrphansEnd
<1>1. IInv => OrphansEnd
  <2> SUFFICES ASSUME IInv, NEW s \in Services, Working(s)
               PROVE  orphaned[s] <= slept[s]
    BY DEF OrphansEnd
  <2>1. slept[s] \in Nat /\ orphaned[s] \in Nat /\ left[s] \in Nat
    BY LatencyIsNat DEF IInv, TypeOK
  <2>2. QED
    BY <2>1 DEF IInv, OrphanAccount, Working
<1>2. QED
  BY <1>1, ChainInvariant, PTL

\* service_a claims success only of an answer of service_b's that was a
\* success and came while service_a waited for it.
THEOREM SuccessIsTrue == Spec => []TrueSuccess
  BY ChainInvariant, PTL DEF IInv
=============================================================================
