---------------------------- MODULE AgentProofs -----------------------------
(***************************************************************************)
(* Proofs about what an agent runs: its loop and the node it is part of     *)
(* (Investigation), and the tools it calls (Telemetry).                     *)
(***************************************************************************)
EXTENDS Investigation, Telemetry, FiniteSetTheorems, TLAPS

(***************************************************************************)
(* Investigation, for any analyzers, samples and incidents and any limits   *)
(* of the loop.  The three properties hold together: that the model is      *)
(* asked only after data was seen rests on the order of the nodes; that no  *)
(* agent but triage builds a querier, on data having been seen with one;    *)
(* and that samples are not stored late, on that.                           *)
(***************************************************************************)
\* One node runs, or the analyzers do, and what runs has begun.
Stages ==
  /\ active \in {{}, Analyzers} \union {{a} : a \in Others}
  /\ \A a \in active : pc[a] # "idle"
  /\ \A a \in Agents \ {"triage"} : pc[a] \notin {"preflight", "traces"}
  /\ pc["postmortem_writer"] \in {"idle", "asking", "done", "failed"}

\* Who asks, or will, has iterations left; who waits for tools, calls open.
LoopCounts ==
  \A a \in Agents :
    /\ pc[a] \in {"preflight", "traces", "asking"} => turn[a] < MaxIterations
    /\ pc[a] = "calling" => pending[a] > 0

\* Triage leaves its preflight, and a node but the writer begins, only after
\* data was seen; the writer also after a preflight that saw none.
OnlyAfterSeen ==
  /\ pc["triage"] \notin {"idle", "preflight", "traces", "no data"} => seen
  /\ \A a \in Agents \ {"triage", "postmortem_writer"} : pc[a] # "idle" => seen
  /\ pc["postmortem_writer"] # "idle" /\ pc["triage"] # "no data" => seen
  /\ SeenBeforeAsked

\* What was seen was seen with the querier.
SeenWithQuerier ==
  /\ active # {} /\ seen => cached
  /\ pc["triage"] = "traces" => cached

\* Only triage builds one, and waits for it.
TriageBuilds ==
  /\ OneQuerier
  /\ \A a \in building : pc[a] \in {"preflight", "calling", "storing"}

\* Samples that are yet to be stored come before every report.
SamplesFirst ==
  \A a \in building : unseeded[a] # {} => collection \intersect Incidents = {}

IInv ==
  /\ TypeOK
  /\ Stages
  /\ LoopCounts
  /\ OnlyAfterSeen
  /\ SeenWithQuerier
  /\ TriageBuilds
  /\ SamplesFirst
-----------------------------------------------------------------------------
(***************************************************************************)
(* The invariant is inductive                                              *)
(***************************************************************************)

\* The limits are positive numbers.
LEMMA Limits == MaxIterations \in Nat /\ MaxIterations > 0 /\ MaxCalls \in Nat
  BY InvestigationAssumption

\* The initial states have the invariant.
LEMMA InitInvariant == Init => IInv
<1> SUFFICES ASSUME Init PROVE IInv
  OBVIOUS
<1>1. TypeOK
  <2>1. /\ pc \in [Agents -> {"idle", "preflight", "traces", "asking", "calling",
                              "storing"} \union Ended]
        /\ turn \in [Agents -> 0 .. MaxIterations]
        /\ pending \in [Agents -> 0 .. MaxCalls]
    BY Limits DEF Init
  <2>2. unseeded \in [Agents -> SUBSET Samples]
    BY DEF Init
  <2>3. QED
    BY <2>1, <2>2 DEF Init, TypeOK
<1>2. {"triage", "postmortem_writer"} \subseteq Agents
  BY DEF Agents, Others
<1>3. Stages /\ LoopCounts /\ OnlyAfterSeen
  BY <1>2 DEF Init, Stages, LoopCounts, OnlyAfterSeen, SeenBeforeAsked
<1>4. SeenWithQuerier /\ TriageBuilds /\ SamplesFirst
  BY <1>2 DEF Init, SeenWithQuerier, TriageBuilds, OneQuerier, SamplesFirst
<1>5. QED
  BY <1>1, <1>3, <1>4 DEF IInv

\* A step keeps the types.
LEMMA TypeStep == IInv /\ [Next]_vars => TypeOK'
<1> SUFFICES ASSUME IInv, [Next]_vars PROVE TypeOK'
  OBVIOUS
<1> USE DEF IInv, TypeOK, agentVars, querierVars, runVars
<1>1. ASSUME NEW i \in Incidents, Begin(i) PROVE TypeOK'
  <2>1. building' \subseteq active'
    BY <1>1 DEF Begin
  <2>2. /\ active' \subseteq Agents
        /\ pc' \in [Agents -> {"idle", "preflight", "traces", "asking", "calling",
                               "storing"} \union Ended]
        /\ turn' \in [Agents -> 0 .. MaxIterations]
        /\ pending' \in [Agents -> 0 .. MaxCalls]
    BY <1>1, Limits DEF Begin, Agents, Others
  <2>3. QED
    BY <1>1, <2>1, <2>2 DEF Begin
<1>2. ASSUME NEW a \in Agents, Construct(a) PROVE TypeOK'
  BY <1>2 DEF Construct, NeedsQuerier
<1>3. ASSUME NEW a \in Agents, Seed(a) PROVE TypeOK'
  BY <1>3 DEF Seed
<1>4. ASSUME NEW a \in Agents, Cache(a) PROVE TypeOK'
  BY <1>4 DEF Cache
<1>5. ASSUME NEW a \in Agents, AskLast(a) PROVE TypeOK'
  BY <1>5 DEF AskLast, Goto, Ended
<1>6. ASSUME NEW a \in Agents, Call(a) PROVE TypeOK'
  <2>1. turn[a] + 1 \in 0 .. MaxIterations
    <3>1. turn[a] < MaxIterations
      BY <1>6 DEF Call, MayAsk, LoopCounts
    <3>2. turn[a] \in 0 .. MaxIterations
      OBVIOUS
    <3>3. QED
      BY <3>1, <3>2, Limits
  <2>2. QED
    BY <1>6, <2>1 DEF Call, Goto
<1>7. ASSUME NEW a \in Agents, AnswerCall(a) PROVE TypeOK'
  <2>1. pending[a] - 1 \in 0 .. MaxCalls
    <3>1. pending[a] > 0
      BY <1>7 DEF AnswerCall, LoopCounts
    <3>2. pending[a] \in 0 .. MaxCalls
      OBVIOUS
    <3>3. QED
      BY <3>1, <3>2, Limits
  <2>2. QED
    BY <1>7, <2>1 DEF AnswerCall, Goto, Ended
<1>8. CASE QueryErrorRate \/ QueryTraces \/ PreflightFails
  BY <1>8 DEF QueryErrorRate, QueryTraces, PreflightFails, See, SeeNothing, Goto, Ended
<1>9. CASE WriteNoDataReport
  BY <1>9 DEF WriteNoDataReport, Goto, Ended
<1>10. CASE StorePostmortem
  BY <1>10 DEF StorePostmortem, Goto, Ended
<1>11. CASE EndStep
  <2>1. PICK next \in {Analyzers, {}} \union {{a} : a \in Others} :
          /\ active' = next
          /\ pc' = [a \in Agents |-> IF a \notin next THEN pc[a]
                                     ELSE IF a = "store_postmortem" THEN "storing"
                                     ELSE "asking"]
          /\ turn' = [a \in Agents |-> IF a \in next THEN 0 ELSE turn[a]]
    BY <1>11 DEF EndStep
  <2>2. next \subseteq Agents
    BY <2>1 DEF Agents
  <2>3. building = {}
    BY <1>11 DEF EndStep, TriageBuilds, Ended
  <2>4. /\ pc' \in [Agents -> {"idle", "preflight", "traces", "asking", "calling",
                               "storing"} \union Ended]
        /\ turn' \in [Agents -> 0 .. MaxIterations]
    BY <2>1, Limits
  <2>5. QED
    BY <1>11, <2>1, <2>2, <2>3, <2>4 DEF EndStep
<1>12. CASE Restart
  <2>1. /\ pc' \in [Agents -> {"idle", "preflight", "traces", "asking", "calling",
                               "storing"} \union Ended]
        /\ turn' \in [Agents -> 0 .. MaxIterations]
        /\ pending' \in [Agents -> 0 .. MaxCalls]
    BY <1>12, Limits DEF Restart
  <2>2. unseeded' \in [Agents -> SUBSET Samples]
    BY <1>12 DEF Restart
  <2>3. QED
    BY <1>12, <2>1, <2>2 DEF Restart
<1>13. CASE UNCHANGED vars
  BY <1>13 DEF vars
<1>14. QED
  BY <1>1, <1>2, <1>3, <1>4, <1>5, <1>6, <1>7, <1>8, <1>9, <1>10, <1>11, <1>12, <1>13
  DEF Next, AgentStep

\* Every node is an agent, none but the analyzers is an analyzer, and neither
\* the writer nor the store has tools.
LEMMA Names ==
  /\ Others \subseteq Agents /\ Analyzers \subseteq Agents
  /\ Analyzers # {}
  /\ "postmortem_writer" \notin Reasoners /\ "store_postmortem" \notin Reasoners
  /\ \A a \in Others : a \notin Analyzers
  BY InvestigationAssumption DEF Agents, Others, Reasoners

\* A step keeps the order of the nodes.
LEMMA StagesStep == IInv /\ [Next]_vars => Stages'
<1> SUFFICES ASSUME IInv, [Next]_vars PROVE Stages'
  OBVIOUS
<1> USE DEF IInv, Stages, agentVars
<1>0. /\ pc \in [Agents -> {"idle", "preflight", "traces", "asking", "calling",
                            "storing"} \union Ended]
      /\ active \subseteq Agents
      /\ {"triage", "postmortem_writer"} \subseteq Agents
  BY Names DEF TypeOK, Others
<1>1. ASSUME NEW i \in Incidents, Begin(i) PROVE Stages'
  BY <1>1, Names DEF Begin, Others
<1>2. ASSUME NEW a \in Agents, Construct(a) \/ Seed(a) \/ Cache(a) PROVE Stages'
  BY <1>2 DEF Construct, Seed, Cache
<1>3. ASSUME NEW a \in Agents, AskLast(a) PROVE Stages'
  BY <1>0, <1>3 DEF AskLast, Goto
<1>4. ASSUME NEW a \in Agents, Call(a) PROVE Stages'
  BY <1>0, <1>4, Names DEF Call, Goto
<1>5. ASSUME NEW a \in Agents, AnswerCall(a) PROVE Stages'
  <2>1. a # "postmortem_writer"
    BY <1>5 DEF AnswerCall
  <2>2. PICK place \in {"calling", "asking", "done"} : pc' = [pc EXCEPT ![a] = place]
    BY <1>5 DEF AnswerCall, Goto
  <2>3. QED
    BY <1>0, <1>5, <2>1, <2>2 DEF AnswerCall
<1>6. CASE QueryErrorRate \/ QueryTraces \/ PreflightFails
  <2>1. PICK place \in {"asking", "traces", "no data"} :
          pc' = [pc EXCEPT !["triage"] = place]
    BY <1>6 DEF QueryErrorRate, QueryTraces, PreflightFails, See, SeeNothing, Goto
  <2>2. UNCHANGED active
    BY <1>6 DEF QueryErrorRate, QueryTraces, PreflightFails, See, SeeNothing
  <2>3. QED
    BY <1>0, <2>1, <2>2
<1>7. CASE WriteNoDataReport
  BY <1>0, <1>7 DEF WriteNoDataReport, Goto
<1>8. CASE StorePostmortem
  <2>1. PICK place \in {"done", "failed"} : pc' = [pc EXCEPT !["store_postmortem"] = place]
    BY <1>8 DEF StorePostmortem, Goto
  <2>2. UNCHANGED active
    BY <1>8 DEF StorePostmortem
  <2>3. QED
    BY <1>0, <2>1, <2>2
<1>9. CASE EndStep
  <2>1. PICK next \in {Analyzers, {}} \union {{a} : a \in Others} :
          /\ Route(next)
          /\ active' = next
          /\ pc' = [a \in Agents |-> IF a \notin next THEN pc[a]
                                     ELSE IF a = "store_postmortem" THEN "storing"
                                     ELSE "asking"]
    BY <1>9 DEF EndStep
  <2>2. next \subseteq Agents
    BY <2>1, Names
  <2>3. "postmortem_writer" \in Agents
    BY Names DEF Others
  <2>4. active' \in {{}, Analyzers} \union {{a} : a \in Others}
    BY <2>1
  <2>5. /\ \A a \in active' : pc'[a] # "idle"
        /\ \A a \in Agents \ {"triage"} : pc'[a] \notin {"preflight", "traces"}
    BY <2>1, <2>2
  <2>6. pc'["postmortem_writer"] \in {"idle", "asking", "done", "failed"}
    BY <2>1, <2>3
  <2>7. QED
    BY <2>4, <2>5, <2>6
<1>10. CASE Restart
  <2>1. active' = {} /\ \A a \in Agents : pc'[a] = "idle"
    BY <1>10 DEF Restart
  <2>2. "postmortem_writer" \in Agents
    BY Names DEF Others
  <2>3. QED
    BY <2>1, <2>2
<1>11. CASE UNCHANGED vars
  BY <1>11 DEF vars
<1>12. QED
  BY <1>1, <1>2, <1>3, <1>4, <1>5, <1>6, <1>7, <1>8, <1>9, <1>10, <1>11
  DEF Next, AgentStep

\* A step keeps the loop within its limits.
LEMMA LoopStep == IInv /\ [Next]_vars => LoopCounts'
<1> SUFFICES ASSUME IInv, [Next]_vars PROVE LoopCounts'
  OBVIOUS
<1> USE DEF IInv, LoopCounts, agentVars
<1>0. /\ pc \in [Agents -> {"idle", "preflight", "traces", "asking", "calling",
                            "storing"} \union Ended]
      /\ turn \in [Agents -> 0 .. MaxIterations]
      /\ pending \in [Agents -> 0 .. MaxCalls]
  BY DEF TypeOK
<1>1. ASSUME NEW i \in Incidents, Begin(i) PROVE LoopCounts'
  BY <1>1, Limits DEF Begin
<1>2. ASSUME NEW a \in Agents, Construct(a) \/ Seed(a) \/ Cache(a) PROVE LoopCounts'
  BY <1>2 DEF Construct, Seed, Cache
<1>3. ASSUME NEW a \in Agents, AskLast(a) PROVE LoopCounts'
  BY <1>0, <1>3 DEF AskLast, Goto
<1>4. ASSUME NEW a \in Agents, Call(a) PROVE LoopCounts'
  <2>1. PICK n \in 1 .. MaxCalls : pending' = [pending EXCEPT ![a] = n]
    BY <1>4 DEF Call
  <2>2. pending'[a] > 0 /\ pc'[a] = "calling"
    BY <1>0, <1>4, <2>1, Limits DEF Call, Goto
  <2>3. \A b \in Agents \ {a} : pc'[b] = pc[b] /\ turn'[b] = turn[b] /\ pending'[b] = pending[b]
    BY <1>0, <1>4, <2>1 DEF Call, Goto
  <2>4. QED
    BY <2>2, <2>3
<1>5. ASSUME NEW a \in Agents, AnswerCall(a) PROVE LoopCounts'
  <2>1. /\ pc'[a] \in {"preflight", "traces", "asking"} => turn'[a] < MaxIterations
        /\ pc'[a] = "calling" => pending[a] > 1
        /\ pending'[a] = pending[a] - 1
    BY <1>0, <1>5 DEF AnswerCall, Goto
  <2>2. pc'[a] = "calling" => pending'[a] > 0
    BY <1>0, <2>1, Limits
  <2>3. \A b \in Agents \ {a} : pc'[b] = pc[b] /\ turn'[b] = turn[b] /\ pending'[b] = pending[b]
    BY <1>0, <1>5 DEF AnswerCall, Goto
  <2>4. QED
    BY <2>1, <2>2, <2>3
<1>6. CASE QueryErrorRate \/ QueryTraces \/ PreflightFails
  <2>1. /\ pc["triage"] \in {"preflight", "traces"} /\ UNCHANGED <<turn, pending>>
        /\ \E place \in {"asking", "traces", "no data"} :
             pc' = [pc EXCEPT !["triage"] = place]
    BY <1>6 DEF QueryErrorRate, QueryTraces, PreflightFails, See, SeeNothing, Goto
  <2>2. turn["triage"] < MaxIterations
    BY <2>1, Names DEF Others
  <2>3. QED
    BY <1>0, <2>1, <2>2
<1>7. CASE WriteNoDataReport \/ StorePostmortem
  <2>1. /\ UNCHANGED <<turn, pending>>
        /\ \E a \in Agents, place \in {"done", "failed"} : pc' = [pc EXCEPT ![a] = place]
    BY <1>7, Names DEF WriteNoDataReport, StorePostmortem, Goto, Others
  <2>2. QED
    BY <1>0, <2>1
<1>8. CASE EndStep
  <2>1. PICK next \in {Analyzers, {}} \union {{a} : a \in Others} :
          /\ pc' = [a \in Agents |-> IF a \notin next THEN pc[a]
                                     ELSE IF a = "store_postmortem" THEN "storing"
                                     ELSE "asking"]
          /\ turn' = [a \in Agents |-> IF a \in next THEN 0 ELSE turn[a]]
    BY <1>8 DEF EndStep
  <2>2. UNCHANGED pending
    BY <1>8 DEF EndStep
  <2>3. QED
    BY <2>1, <2>2, Limits
<1>9. CASE Restart
  BY <1>9 DEF Restart
<1>10. CASE UNCHANGED vars
  BY <1>10 DEF vars
<1>11. QED
  BY <1>1, <1>2, <1>3, <1>4, <1>5, <1>6, <1>7, <1>8, <1>9, <1>10 DEF Next, AgentStep

\* A step leaves the preflight, or begins a node, only after data was seen.
LEMMA SeenStep == IInv /\ [Next]_vars => OnlyAfterSeen'
<1> SUFFICES ASSUME IInv, [Next]_vars PROVE OnlyAfterSeen'
  OBVIOUS
<1> USE DEF IInv, OnlyAfterSeen, SeenBeforeAsked, agentVars, runVars
<1>0. /\ pc \in [Agents -> {"idle", "preflight", "traces", "asking", "calling",
                            "storing"} \union Ended]
      /\ {"triage", "postmortem_writer", "store_postmortem"} \subseteq Agents
  BY Names DEF TypeOK, Others
<1>1. ASSUME NEW i \in Incidents, Begin(i) PROVE OnlyAfterSeen'
  BY <1>0, <1>1 DEF Begin
<1>2. ASSUME NEW a \in Agents, Construct(a) \/ Seed(a) \/ Cache(a) PROVE OnlyAfterSeen'
  <2>1. UNCHANGED <<pc, seen, asked>>
    BY <1>2 DEF Construct, Seed, Cache
  <2>2. QED
    BY <2>1
<1>3. ASSUME NEW a \in Agents, AskLast(a) \/ Call(a) PROVE OnlyAfterSeen'
  <2>1. seen
    BY <1>0, <1>3 DEF AskLast, Call, MayAsk
  <2>2. seen' = seen
    BY <1>3 DEF AskLast, Call
  <2>3. QED
    BY <2>1, <2>2
<1>4. ASSUME NEW a \in Agents, AnswerCall(a) PROVE OnlyAfterSeen'
  <2>1. seen
    BY <1>0, <1>4 DEF AnswerCall, Stages
  <2>2. seen' = seen
    BY <1>4 DEF AnswerCall
  <2>3. QED
    BY <2>1, <2>2
<1>5. CASE See("preflight") \/ See("traces")
  BY <1>5 DEF See
<1>6. CASE SeeNothing("preflight", "traces") \/ PreflightFails
                  \/ SeeNothing("traces", "no data")
  <2>1. /\ UNCHANGED <<seen, asked>> /\ pc["triage"] \in {"preflight", "traces"}
        /\ \E place \in {"traces", "no data"} : pc' = [pc EXCEPT !["triage"] = place]
    BY <1>6 DEF SeeNothing, PreflightFails, Goto
  <2>2. QED
    BY <1>0, <2>1
<1>7. CASE WriteNoDataReport
  BY <1>0, <1>7 DEF WriteNoDataReport, Goto
<1>8. CASE StorePostmortem
  <2>1. seen
    BY <1>0, <1>8 DEF StorePostmortem
  <2>2. seen' = seen
    BY <1>8 DEF StorePostmortem
  <2>3. QED
    BY <2>1, <2>2
<1>9. CASE EndStep
  <2>1. PICK next \in {Analyzers, {}} \union {{a} : a \in Others} :
          /\ Route(next)
          /\ active' = next
          /\ pc' = [a \in Agents |-> IF a \notin next THEN pc[a]
                                     ELSE IF a = "store_postmortem" THEN "storing"
                                     ELSE "asking"]
    BY <1>9 DEF EndStep
  <2>2. UNCHANGED <<seen, asked>>
    BY <1>9 DEF EndStep
  <2>3. CASE seen
    BY <2>2, <2>3
  <2>4. CASE ~seen
    <3>1. active = {"triage"} \/ active = {"postmortem_writer"}
      <4>1. \A a \in active : a \in {"triage", "postmortem_writer"}
        BY <2>4 DEF Stages, TypeOK
      <4>2. active # {}
        BY <1>9 DEF EndStep
      <4>3. QED
        BY <4>1, <4>2, Names DEF Stages, Others
    <3>2. CASE active = {"triage"}
      <4>1. pc["triage"] = "no data"
        BY <1>9, <2>4, <3>2 DEF EndStep, Ended, Stages
      <4>2. next = {"postmortem_writer"}
        BY <2>1, <3>2, <4>1, Names DEF Route, Others
      <4>3. QED
        BY <1>0, <2>1, <2>2, <4>1, <4>2
    <3>3. CASE active = {"postmortem_writer"}
      <4>1. next = {} \/ Qualifies
        BY <2>1, <3>3, Names DEF Route, Others
      <4>2. ~Qualifies
        BY <2>4, Names DEF Qualifies, Others
      <4>3. QED
        BY <1>0, <2>1, <2>2, <4>1, <4>2
    <3>4. QED
      BY <3>1, <3>2, <3>3
  <2>5. QED
    BY <2>3, <2>4
<1>10. CASE Restart
  BY <1>0, <1>10 DEF Restart
<1>11. CASE UNCHANGED vars
  BY <1>11 DEF vars
<1>12. QED
  BY <1>1, <1>2, <1>3, <1>4, <1>5, <1>6, <1>7, <1>8, <1>9, <1>10, <1>11
  DEF Next, AgentStep, QueryErrorRate, QueryTraces

\* A step keeps the querier with which data was seen.
LEMMA QuerierStep == IInv /\ [Next]_vars => SeenWithQuerier'
<1> SUFFICES ASSUME IInv, [Next]_vars PROVE SeenWithQuerier'
  OBVIOUS
<1> USE DEF IInv, SeenWithQuerier, agentVars, querierVars, runVars
<1>0. /\ pc \in [Agents -> {"idle", "preflight", "traces", "asking", "calling",
                            "storing"} \union Ended]
      /\ "triage" \in Agents
  BY Names DEF TypeOK, Others
<1>1. ASSUME NEW i \in Incidents, Begin(i) PROVE SeenWithQuerier'
  BY <1>0, <1>1 DEF Begin
<1>2. ASSUME NEW a \in Agents, Construct(a) \/ Seed(a) \/ Cache(a) PROVE SeenWithQuerier'
  BY <1>2 DEF Construct, Seed, Cache
<1>3. ASSUME NEW a \in Agents, AskLast(a) \/ Call(a) PROVE SeenWithQuerier'
  BY <1>0, <1>3 DEF AskLast, Call, Goto
<1>4. ASSUME NEW a \in Agents, AnswerCall(a) PROVE SeenWithQuerier'
  <2>1. PICK place \in {"calling", "asking", "done"} : pc' = [pc EXCEPT ![a] = place]
    BY <1>4 DEF AnswerCall, Goto
  <2>2. UNCHANGED <<active, seen, cached>>
    BY <1>4 DEF AnswerCall
  <2>3. pc'["triage"] = "traces" => pc["triage"] = "traces"
    BY <1>0, <2>1
  <2>4. QED
    BY <2>2, <2>3
<1>5. CASE QueryErrorRate \/ QueryTraces
  <2>1. cached /\ cached' = cached
    BY <1>5 DEF QueryErrorRate, QueryTraces, See, SeeNothing
  <2>2. QED
    BY <2>1
<1>6. CASE PreflightFails
  <2>1. pc'["triage"] = "no data" /\ UNCHANGED <<active, seen, cached>>
    BY <1>0, <1>6 DEF PreflightFails, SeeNothing, Goto
  <2>2. QED
    BY <2>1
<1>7. CASE WriteNoDataReport \/ StorePostmortem
  <2>1. PICK a \in {"postmortem_writer", "store_postmortem"}, place \in {"done", "failed"} :
          pc' = [pc EXCEPT ![a] = place]
    BY <1>7 DEF WriteNoDataReport, StorePostmortem, Goto
  <2>2. UNCHANGED <<active, seen, cached>>
    BY <1>7 DEF WriteNoDataReport, StorePostmortem
  <2>3. QED
    BY <1>0, <2>1, <2>2
<1>8. CASE EndStep
  BY <1>0, <1>8 DEF EndStep
<1>9. CASE Restart
  BY <1>0, <1>9 DEF Restart
<1>10. CASE UNCHANGED vars
  BY <1>10 DEF vars
<1>11. QED
  BY <1>1, <1>2, <1>3, <1>4, <1>5, <1>6, <1>7, <1>8, <1>9, <1>10 DEF Next, AgentStep

\* No node but triage is about to build a querier.
LEMMA BuilderIsTriage ==
  ASSUME IInv, NEW a \in Agents, NeedsQuerier(a)
  PROVE  a = "triage" /\ active = {"triage"}
<1>1. ~seen
  BY DEF IInv, SeenWithQuerier, NeedsQuerier
<1>2. a \in active /\ pc[a] \in {"preflight", "calling", "storing"}
  BY DEF NeedsQuerier
<1>3. a # "postmortem_writer"
  BY <1>2 DEF IInv, Stages
<1>4. a = "triage"
  BY <1>1, <1>2, <1>3 DEF IInv, OnlyAfterSeen
<1>5. QED
  BY <1>2, <1>4, Names DEF IInv, Stages, Others

\* A step lets no other node build, and none while there is one.
LEMMA BuildStep == IInv /\ [Next]_vars => TriageBuilds'
<1> SUFFICES ASSUME IInv, [Next]_vars PROVE TriageBuilds'
  OBVIOUS
<1> USE DEF IInv, TriageBuilds, OneQuerier, agentVars, querierVars
<1>0. /\ pc \in [Agents -> {"idle", "preflight", "traces", "asking", "calling",
                            "storing"} \union Ended]
      /\ building \subseteq active /\ active \subseteq Agents
  BY DEF TypeOK
<1>1. ASSUME NEW i \in Incidents, Begin(i) PROVE TriageBuilds'
  BY <1>0, <1>1 DEF Begin
<1>2. ASSUME NEW a \in Agents, Construct(a) PROVE TriageBuilds'
  <2>1. a = "triage" /\ active = {"triage"} /\ pc[a] \in {"preflight", "calling", "storing"}
    BY <1>2, BuilderIsTriage DEF Construct, NeedsQuerier
  <2>2. QED
    BY <1>2, <2>1 DEF Construct, NeedsQuerier
<1>3. ASSUME NEW a \in Agents, Seed(a) PROVE TriageBuilds'
  BY <1>3 DEF Seed
<1>4. ASSUME NEW a \in Agents, Cache(a) PROVE TriageBuilds'
  BY <1>0, <1>4 DEF Cache
<1>5. ASSUME NEW a \in Agents, UNCHANGED <<active, cached, building>>,
             NEW place \in {"traces", "asking", "calling"} \union Ended,
             pc' = [pc EXCEPT ![a] = place], a \notin building
      PROVE  TriageBuilds'
  BY <1>0, <1>5
<1>6. ASSUME NEW a \in Agents, AskLast(a) \/ Call(a) PROVE TriageBuilds'
  <2>1. /\ UNCHANGED <<active, cached, building>> /\ a \notin building
        /\ \E place \in {"calling", "done", "failed"} : pc' = [pc EXCEPT ![a] = place]
    BY <1>6 DEF AskLast, Call, MayAsk, Goto
  <2>2. QED
    BY <1>5, <2>1 DEF Ended
<1>7. ASSUME NEW a \in Agents, AnswerCall(a) PROVE TriageBuilds'
  <2>1. /\ UNCHANGED <<active, cached, building>> /\ a \notin building
        /\ \E place \in {"calling", "asking", "done"} : pc' = [pc EXCEPT ![a] = place]
    BY <1>7 DEF AnswerCall, Goto
  <2>2. QED
    BY <1>5, <2>1 DEF Ended
<1>8. CASE QueryErrorRate \/ QueryTraces \/ PreflightFails
  <2>1. /\ UNCHANGED <<active, cached, building>> /\ "triage" \in active \ building
        /\ \E place \in {"traces", "asking", "no data"} :
             pc' = [pc EXCEPT !["triage"] = place]
    BY <1>8 DEF QueryErrorRate, QueryTraces, PreflightFails, See, SeeNothing, Goto
  <2>2. QED
    BY <1>0, <1>5, <2>1 DEF Ended
<1>9. CASE WriteNoDataReport
  <2>1. /\ UNCHANGED <<active, cached, building>>
        /\ "postmortem_writer" \in active \ building
        /\ pc' = [pc EXCEPT !["postmortem_writer"] = "done"]
    BY <1>9 DEF WriteNoDataReport, Goto
  <2>2. QED
    BY <1>0, <1>5, <2>1 DEF Ended
<1>10. CASE StorePostmortem
  <2>1. /\ UNCHANGED <<active, cached, building>>
        /\ "store_postmortem" \in active \ building
        /\ \E place \in {"done", "failed"} : pc' = [pc EXCEPT !["store_postmortem"] = place]
    BY <1>10 DEF StorePostmortem, Goto
  <2>2. QED
    BY <1>0, <1>5, <2>1 DEF Ended
<1>11. CASE EndStep
  <2>1. building = {} /\ building' = building
    BY <1>0, <1>11 DEF EndStep, Ended
  <2>2. QED
    BY <2>1
<1>12. CASE Restart
  BY <1>12 DEF Restart
<1>13. CASE UNCHANGED vars
  BY <1>13 DEF vars
<1>14. QED
  BY <1>1, <1>2, <1>3, <1>4, <1>6, <1>7, <1>8, <1>9, <1>10, <1>11, <1>12, <1>13
  DEF Next, AgentStep

\* Where a report is stored, no querier is being built.
LEMMA SamplesStep == IInv /\ [Next]_vars => SamplesFirst'
<1> SUFFICES ASSUME IInv, [Next]_vars PROVE SamplesFirst'
  OBVIOUS
<1> USE DEF IInv, SamplesFirst, querierVars
<1>0. /\ unseeded \in [Agents -> SUBSET Samples]
      /\ building \subseteq Agents
  BY DEF TypeOK
<1>1. ASSUME NEW a \in Agents, Construct(a) PROVE SamplesFirst'
  BY <1>0, <1>1 DEF Construct
<1>2. ASSUME NEW a \in Agents, Seed(a) PROVE SamplesFirst'
  <2>1. PICK s \in unseeded[a] : /\ a \in building
                                 /\ unseeded' = [unseeded EXCEPT ![a] = @ \ {s}]
                                 /\ collection' \in {collection, collection \union {s}}
    BY <1>2 DEF Seed
  <2>2. s \notin Incidents
    BY <1>0, <2>1, InvestigationAssumption
  <2>3. building' = building
    BY <1>2 DEF Seed
  <2>4. QED
    BY <1>0, <2>1, <2>2, <2>3
<1>3. ASSUME NEW a \in Agents, Cache(a) PROVE SamplesFirst'
  BY <1>3 DEF Cache
<1>4. CASE UNCHANGED <<building, unseeded, collection>>
  BY <1>4
<1>5. CASE StorePostmortem
  <2>1. building = {}
    BY <1>5 DEF StorePostmortem, TriageBuilds, OneQuerier
  <2>2. QED
    BY <1>5, <2>1 DEF StorePostmortem
<1>6. CASE Restart
  BY <1>6 DEF Restart
<1>7. (\E i \in Incidents : Begin(i)) \/ EndStep \/ UNCHANGED vars
        => UNCHANGED <<building, unseeded, collection>>
  BY DEF Begin, EndStep, vars
<1>8. ASSUME NEW a \in Agents,
             \/ AskLast(a) \/ Call(a) \/ AnswerCall(a)
             \/ QueryErrorRate \/ QueryTraces \/ PreflightFails \/ WriteNoDataReport
      PROVE  UNCHANGED <<building, unseeded, collection>>
  BY <1>8 DEF AskLast, Call, AnswerCall, QueryErrorRate, QueryTraces, PreflightFails,
              WriteNoDataReport, See, SeeNothing
<1>9. QED
  BY <1>1, <1>2, <1>3, <1>4, <1>5, <1>6, <1>7, <1>8 DEF Next, AgentStep

\* The invariant is inductive.
LEMMA Invariance == IInv /\ [Next]_vars => IInv'
  BY TypeStep, StagesStep, LoopStep, SeenStep, QuerierStep, BuildStep, SamplesStep DEF IInv

\* Every state of a behaviour has the invariant.
LEMMA InvariantHolds == Spec => []IInv
<1>1. Init => IInv
  BY InitInvariant
<1>2. IInv /\ [Next]_vars => IInv'
  BY Invariance
<1>3. QED
  BY <1>1, <1>2, PTL DEF Spec

-----------------------------------------------------------------------------
(***************************************************************************)
(* The properties                                                          *)
(***************************************************************************)

\* Type correctness: no loop runs past its limit, and no more tool calls are
\* open than were made (node_utils.py:45).
THEOREM TypeCorrect == Spec => []TypeOK
<1>1. IInv => TypeOK
  BY DEF IInv
<1>2. QED
  BY <1>1, InvariantHolds, PTL

\* The model is asked nothing in a run whose preflight saw no data, for any
\* analyzers, any number of iterations and whatever fails
\* (docs/no_data_hallucination.md:65).
THEOREM OnlyAskedOnData == Spec => []SeenBeforeAsked
<1>1. IInv => SeenBeforeAsked
  BY DEF IInv, OnlyAfterSeen
<1>2. QED
  BY <1>1, InvariantHolds, PTL

\* However many analyzers run in parallel, the cache of get_querier has no
\* race (registry.py:13).
THEOREM QuerierBuiltOnce == Spec => []OneQuerier
<1>1. IInv => OneQuerier
  BY DEF IInv, TriageBuilds
<1>2. QED
  BY <1>1, InvariantHolds, PTL

\* Samples are stored together, by the first querier, or never
\* (chromadb_client.py:217).
THEOREM SamplesSettled == Spec => SeedsSettle
<1> DEFINE Settled == (collection # {} /\ building = {}) \/ collection \intersect Incidents # {}
           Same == collection' \intersect Samples = collection \intersect Samples
<1>1. IInv /\ [Next]_vars => [Settled => Same]_vars
  <2> SUFFICES ASSUME IInv, [Next]_vars, Settled PROVE Same
    OBVIOUS
  <2>1. ASSUME NEW a \in Agents, Seed(a) PROVE FALSE
    <3>1. a \in building /\ unseeded[a] # {}
      BY <2>1 DEF Seed
    <3>2. collection \intersect Incidents = {}
      BY <3>1 DEF IInv, SamplesFirst
    <3>3. QED
      BY <3>1, <3>2
  <2>2. CASE StorePostmortem
    <3>1. collection' \in {collection, collection \union {incident}}
      BY <2>2 DEF StorePostmortem
    <3>2. incident \notin Samples
      BY InvestigationAssumption DEF IInv, TypeOK
    <3>3. QED
      BY <3>1, <3>2
  <2>3. CASE UNCHANGED collection
    BY <2>3
  <2>4. (\E i \in Incidents : Begin(i)) \/ EndStep \/ Restart \/ UNCHANGED vars
          => UNCHANGED collection
    BY DEF Begin, EndStep, Restart, vars
  <2>5. ASSUME NEW a \in Agents,
               \/ Construct(a) \/ Cache(a) \/ AskLast(a) \/ Call(a) \/ AnswerCall(a)
               \/ QueryErrorRate \/ QueryTraces \/ PreflightFails \/ WriteNoDataReport
        PROVE  UNCHANGED collection
    BY <2>5 DEF Construct, Cache, AskLast, Call, AnswerCall, QueryErrorRate, QueryTraces,
                PreflightFails, WriteNoDataReport, See, SeeNothing
  <2> HIDE DEF Same, Settled
  <2>6. QED
    BY <2>1, <2>2, <2>3, <2>4, <2>5 DEF Next, AgentStep
<1>2. QED
  BY <1>1, InvariantHolds, PTL DEF Spec, SeedsSettle

-----------------------------------------------------------------------------
(***************************************************************************)
(* Telemetry, for stores of any contents and any limits of the queries.     *)
(***************************************************************************)

(***************************************************************************)
(* What is told of the stores is about what is in them: they do not change  *)
(* before the tool returns.                                                 *)
(***************************************************************************)
ToolsIInv ==
  /\ jaeger \subseteq Span
  /\ IsFiniteSet(DOMAIN chromadb)
  /\ chromadb \in [DOMAIN chromadb -> Nat]
  /\ prometheus \in [gauge : Seq(Int), ok : Seq(Int), failed : Seq(Int)]
  /\ FirstErrorTimes
  /\ SearchIsTopN
  /\ SpikeIsShort

-----------------------------------------------------------------------------
(***************************************************************************)
(* Least numbers                                                           *)
(***************************************************************************)

\* A set of natural numbers has a least one, as the intervals from zero to its
\* numbers are ordered by inclusion, which is well-founded.
LEMMA Least ==
  ASSUME NEW S \in SUBSET Nat, S # {}
  PROVE  \E x \in S : \A y \in S : x <= y
<1>1. PICK n \in S : TRUE
  OBVIOUS
<1> DEFINE up == 0 .. n
           T == {U \in SUBSET up : \E k \in S : U = 0 .. k}
<1>2. IsWellFoundedOn(StrictSubsetOrdering(up), SUBSET up)
  <2>1. IsFiniteSet(up)
    BY <1>1, FS_Interval
  <2> HIDE DEF up
  <2>2. QED
    BY <2>1, FS_FiniteSubsetsOfFinite, FS_StrictSubsetOrderingWellFounded
<1>3. T \subseteq SUBSET up /\ up \in T
  BY <1>1
<1>4. PICK U \in T : \A V \in T : ~(<<V, U>> \in StrictSubsetOrdering(up))
  <2> HIDE DEF T, up
  <2>1. QED
    BY <1>2, <1>3, WFMin
<1>5. PICK k \in S : U = 0 .. k
  OBVIOUS
<1>6. \A y \in S : ~(y < k)
  <2> SUFFICES ASSUME NEW y \in S, y < k
               PROVE  FALSE
    OBVIOUS
  <2>1. 0 .. y \in SUBSET up /\ 0 .. y \in T
    BY <1>4, <1>5
  <2>2. 0 .. y \subseteq U /\ 0 .. y # U
    BY <1>5
  <2>3. <<0 .. y, U>> \in StrictSubsetOrdering(up)
    BY <2>1, <2>2, <1>4 DEF StrictSubsetOrdering
  <2>4. QED
    BY <1>4, <2>1, <2>3
<1>7. QED
  BY <1>6

LEMMA MinFacts ==
  ASSUME NEW S \in SUBSET Nat, S # {}
  PROVE  Min(S) \in S /\ \A y \in S : Min(S) <= y
  BY Least DEF Min

LEMMA EarliestFacts ==
  ASSUME NEW S \in SUBSET Nat
  PROVE  /\ S = {} <=> Earliest(S) = -1
         /\ S # {} => Earliest(S) \in S
         /\ \A y \in S : Earliest(S) <= y
<1>1. CASE S = {}
  BY <1>1 DEF Earliest
<1>2. CASE S # {}
  <2>1. Earliest(S) = Min(S)
    BY <1>2 DEF Earliest
  <2>2. Min(S) \in S /\ Min(S) \in Nat /\ \A y \in S : Min(S) <= y
    BY <1>2, MinFacts
  <2>3. QED
    BY <1>2, <2>1, <2>2
<1>3. QED
  BY <1>1, <1>2

LEMMA MinOfTwo ==
  ASSUME NEW a \in Nat, NEW b \in Nat
  PROVE  Min({a, b}) = IF a <= b THEN a ELSE b
<1>1. Min({a, b}) \in {a, b} /\ Min({a, b}) <= a /\ Min({a, b}) <= b
  BY MinFacts
<1>2. QED
  BY <1>1

-----------------------------------------------------------------------------
(***************************************************************************)
(* Loops over a sequence                                                    *)
(***************************************************************************)

\* What holds before the first step and is kept by each holds after the last.
LEMMA Upto ==
  ASSUME NEW n \in Nat, NEW G, 0 \in G,
         \A k \in 0 .. n - 1 : k \in G => k + 1 \in G
  PROVE  0 .. n \subseteq G
<1> SUFFICES ASSUME ~(0 .. n \subseteq G)
             PROVE  FALSE
  OBVIOUS
<1> DEFINE S == {k \in 0 .. n : k \notin G}
<1>1. S \in SUBSET Nat /\ S # {}
  OBVIOUS
<1>2. PICK x \in S : \A y \in S : x <= y
  <2> HIDE DEF S
  <2> QED BY <1>1, Least
<1>3. x \in 1 .. n /\ x - 1 \in 0 .. n - 1
  BY <1>2
<1>4. x - 1 \in G
  <2>1. x - 1 \notin S
    BY <1>2, <1>3
  <2> QED BY <1>3, <2>1
<1>5. (x - 1) + 1 \in G /\ (x - 1) + 1 = x
  BY <1>3, <1>4
<1> QED BY <1>2, <1>5

\* What a loop of n steps goes through.
Iterates(f, n, start, step) ==
  f[0] = start /\ \A k \in 1 .. n : f[k] = step[<<k, f[k - 1]>>]

\* There is such: the values of n steps are one more than those of n - 1.
LEMMA Loop ==
  ASSUME NEW n \in Nat, NEW V, NEW start \in V, NEW step \in [(1 .. n) \X V -> V]
  PROVE  \E f \in [0 .. n -> V] : Iterates(f, n, start, step)
<1> DEFINE Runs(m, f) ==
             /\ f \in [0 .. m -> V]
             /\ f[0] = start
             /\ \A k \in 1 .. m : f[k] = step[<<k, f[k - 1]>>]
           G == {m \in 0 .. n : \E f : Runs(m, f)}
<1>1. 0 \in G
  <2> DEFINE f == [k \in 0 .. 0 |-> start]
  <2>1. Runs(0, f)
    OBVIOUS
  <2> HIDE DEF f
  <2> QED BY <2>1
<1>2. ASSUME NEW m \in 0 .. n - 1, m \in G
      PROVE  m + 1 \in G
  <2>1. PICK f : Runs(m, f)
    BY <1>2
  <2> DEFINE g == [k \in 0 .. m + 1 |-> IF k = m + 1 THEN step[<<m + 1, f[m]>>] ELSE f[k]]
  <2>2. m + 1 \in 1 .. n /\ f[m] \in V
    BY <2>1
  <2>3. step[<<m + 1, f[m]>>] \in V
    BY <2>2
  <2>4. g \in [0 .. m + 1 -> V]
    BY <2>1, <2>3
  <2>5. \A k \in 0 .. m : g[k] = f[k]
    OBVIOUS
  <2>6. g[m + 1] = step[<<m + 1, f[m]>>]
    OBVIOUS
  <2> HIDE DEF g
  <2>7. g[0] = start
    BY <2>1, <2>5
  <2>8. \A k \in 1 .. m + 1 : g[k] = step[<<k, g[k - 1]>>]
    <3> SUFFICES ASSUME NEW k \in 1 .. m + 1
                 PROVE  g[k] = step[<<k, g[k - 1]>>]
      OBVIOUS
    <3>1. k - 1 \in 0 .. m /\ g[k - 1] = f[k - 1]
      BY <2>5
    <3>2. CASE k = m + 1
      BY <2>6, <3>1, <3>2
    <3>3. CASE k \in 1 .. m
      BY <2>1, <2>5, <3>1, <3>3
    <3> QED BY <3>2, <3>3
  <2>9. Runs(m + 1, g)
    BY <2>4, <2>7, <2>8
  <2> HIDE DEF Runs
  <2> QED BY <2>2, <2>9
<1>3. n \in G
  <2> HIDE DEF G
  <2>1. 0 .. n \subseteq G
    BY <1>1, <1>2, Upto
  <2> QED BY <2>1
<1>4. PICK f : Runs(n, f)
  BY <1>3
<1> QED BY <1>4 DEF Iterates

\* A function has values in V if its first is, and with one the next.
LEMMA LoopType ==
  ASSUME NEW n \in Nat, NEW V, NEW f, f = [k \in 0 .. n |-> f[k]], f[0] \in V,
         \A k \in 1 .. n : f[k - 1] \in V => f[k] \in V
  PROVE  f \in [0 .. n -> V]
<1> DEFINE G == {k \in 0 .. n : f[k] \in V}
<1>1. 0 \in G
  OBVIOUS
<1>2. ASSUME NEW k \in 0 .. n - 1, k \in G
      PROVE  k + 1 \in G
  <2>1. k + 1 \in 1 .. n /\ (k + 1) - 1 = k
    OBVIOUS
  <2>2. f[k + 1] \in V
    BY <1>2, <2>1
  <2> QED BY <2>1, <2>2
<1>3. 0 .. n \subseteq G
  <2> HIDE DEF G
  <2> QED BY <1>1, <1>2, Upto
<1> QED BY <1>3

-----------------------------------------------------------------------------
(***************************************************************************)
(* Times of errors                                                         *)
(***************************************************************************)

\* The failures of the service.
Failures == {y \in jaeger : y.service = "asked" /\ y.kind = "error"}

\* Any of its failures has a time, and the first is the least.
LEMMA FailureFacts ==
  ASSUME jaeger \subseteq Span
  PROVE  /\ \A x \in jaeger : x.start \in Nat
         /\ Failures = {} <=> FirstFailure = -1
         /\ Failures # {} => \E x \in Failures : FirstFailure = x.start
         /\ \A x \in Failures : FirstFailure <= x.start
<1> DEFINE times == {x.start : x \in Failures}
<1>1. \A x \in jaeger : x.start \in Nat
  BY TelemetryAssumption DEF Span
<1>2. times \in SUBSET Nat
  BY <1>1 DEF Failures
<1>3. FirstFailure = Earliest(times)
  BY DEF FirstFailure, Failures
<1>4. /\ times = {} <=> Failures = {}
      /\ \A t \in times : \E x \in Failures : t = x.start
      /\ \A x \in Failures : x.start \in times
  OBVIOUS
<1> HIDE DEF times
<1>5. QED
  BY <1>1, <1>2, <1>3, <1>4, EarliestFacts

\* The trace tool, if all traces were read: the trace of the service's first
\* failure is one of them, and begins no later than this.
LEMMA TracesTell ==
  ASSUME jaeger \subseteq Span, NEW onlyErrors \in BOOLEAN, FirstFailure # -1
  PROVE  Earliest({StartTime(t) : t \in {u \in Matches(onlyErrors) : HasError(u)}})
           \in 0 .. FirstFailure
<1> DEFINE failed == {u \in Matches(onlyErrors) : HasError(u)}
           times == {StartTime(t) : t \in failed}
<1>1. PICK x \in Failures : FirstFailure = x.start
  BY FailureFacts
<1>2. /\ x \in jaeger /\ x.service = "asked" /\ x.kind = "error"
      /\ \A y \in jaeger : y.start \in Nat
  BY FailureFacts DEF Failures
<1>3. x.trace \in failed
  <2>1. x.trace \in Matches(onlyErrors)
    BY <1>2 DEF Matches
  <2>2. HasError(x.trace)
    BY <1>2 DEF HasError, SpansOf
  <2>3. QED
    BY <2>1, <2>2
<1>4. \A t : {y.start : y \in SpansOf(t)} \in SUBSET Nat
  BY <1>2 DEF SpansOf
<1>5. StartTime(x.trace) <= FirstFailure
  <2>1. x.start \in {y.start : y \in SpansOf(x.trace)}
    BY <1>2 DEF SpansOf
  <2>2. QED
    BY <1>1, <1>4, <2>1, EarliestFacts DEF StartTime
<1>6. \A t \in failed : StartTime(t) \in Nat
  <2> SUFFICES ASSUME NEW t \in failed
               PROVE  StartTime(t) \in Nat
    OBVIOUS
  <2>1. PICK y \in SpansOf(t) : TRUE
    BY DEF HasError
  <2>2. {z.start : z \in SpansOf(t)} # {}
    BY <2>1
  <2>3. QED
    BY <1>4, <2>2, EarliestFacts DEF StartTime
<1>7. times \in SUBSET Nat /\ StartTime(x.trace) \in times
  BY <1>3, <1>6
<1>8. Earliest(times) \in times /\ Earliest(times) <= StartTime(x.trace)
  <2> HIDE DEF times
  <2>1. QED
    BY <1>7, EarliestFacts
<1>9. QED
  <2>1. Earliest(times) \in Nat /\ FirstFailure \in Nat /\ StartTime(x.trace) \in Nat
    BY <1>1, <1>2, <1>7, <1>8
  <2> HIDE DEF times
  <2>2. Earliest(times) \in 0 .. FirstFailure
    BY <1>5, <1>8, <2>1
  <2>3. QED
    BY <2>2 DEF times

\* The log tool: what it reads at level ERROR are failures of the service, all
\* of them if all traces were read.
LEMMA LogsTell ==
  ASSUME jaeger \subseteq Span, NEW told \in SUBSET Failures
  PROVE  LET first == Earliest({x.start : x \in told}) IN
         /\ first # -1 => FirstFailure # -1 /\ first >= FirstFailure
         /\ told = Failures => first = FirstFailure
<1> DEFINE times == {x.start : x \in told}
<1>1. \A x \in jaeger : x.start \in Nat
  BY FailureFacts
<1>2. times \in SUBSET Nat
  BY <1>1 DEF Failures
<1>3. ASSUME Earliest(times) # -1
      PROVE  FirstFailure # -1 /\ Earliest(times) >= FirstFailure
  <2>1. Earliest(times) \in times
    <3> HIDE DEF times
    <3>1. QED
      BY <1>2, <1>3, EarliestFacts
  <2>2. PICK x \in told : Earliest(times) = x.start
    BY <2>1
  <2>3. x \in Failures /\ x.start \in Nat
    BY <1>1 DEF Failures
  <2>4. FirstFailure # -1 /\ FirstFailure <= x.start /\ FirstFailure \in Nat
    BY <1>1, <2>3, FailureFacts DEF Failures
  <2>5. QED
    BY <2>2, <2>3, <2>4
<1>4. told = Failures => Earliest(times) = FirstFailure
  BY DEF FirstFailure, Failures
<1>5. QED
  BY <1>3, <1>4

LEMMA EntriesFacts ==
  /\ \A traces : Entries(traces, "ERROR") \subseteq Failures
  /\ Entries(Matches(TRUE), "ERROR") = Failures
<1>1. \A traces : Entries(traces, "ERROR") \subseteq Failures
  BY DEF Entries, Failures
<1>2. \A x \in Failures : x \in Entries(Matches(TRUE), "ERROR")
  BY DEF Entries, Failures, Matches
<1>3. QED
  BY <1>1, <1>2

-----------------------------------------------------------------------------
(***************************************************************************)
(* Metrics                                                                  *)
(***************************************************************************)

\* The total is the last of the sums that the loop goes through.
LEMMA TotalFacts ==
  ASSUME NEW values \in Seq(Int)
  PROVE  \E sum \in [0 .. Len(values) -> Int] :
           /\ sum[0] = 0
           /\ \A k \in 1 .. Len(values) : sum[k] = sum[k - 1] + values[k]
           /\ Total(values) = sum[Len(values)]
<1> DEFINE n == Len(values)
           Add(k, v) == v + values[k]
           step == [x \in (1 .. n) \X Int |-> Add(x[1], x[2])]
<1>1. n \in Nat
  OBVIOUS
<1>2. \A k \in 1 .. n : \A v \in Int : Add(k, v) \in Int
  OBVIOUS
<1>3. 0 \in Int
  OBVIOUS
<1>4. step \in [(1 .. n) \X Int -> Int]
  <2> HIDE DEF Add, n
  <2> QED BY <1>1, <1>2
<1>5. \A k \in 1 .. n : \A v \in Int : step[<<k, v>>] = Add(k, v)
  <2> HIDE DEF Add, n
  <2> QED BY <1>1, <1>2
<1>6. PICK g \in [0 .. n -> Int] :
        g[0] = 0 /\ \A k \in 1 .. n : g[k] = step[<<k, g[k - 1]>>]
  <2> HIDE DEF step, n
  <2>1. \E g \in [0 .. n -> Int] : Iterates(g, n, 0, step)
    BY <1>1, <1>3, <1>4, Loop
  <2> QED BY <2>1 DEF Iterates
<1>7. g = [k \in 0 .. n |-> IF k = 0 THEN 0 ELSE Add(k, g[k - 1])]
  <2> HIDE DEF Add, n, step
  <2> SUFFICES ASSUME NEW k \in 0 .. n
               PROVE  g[k] = IF k = 0 THEN 0 ELSE Add(k, g[k - 1])
    BY <1>6
  <2>1. k # 0 => k \in 1 .. n /\ k - 1 \in 0 .. n
    BY <1>1
  <2> QED BY <1>5, <1>6, <2>1
<1>8. PICK sum : /\ sum = [k \in 0 .. n |-> IF k = 0 THEN 0 ELSE Add(k, sum[k - 1])]
              /\ Total(values) = sum[n]
  BY <1>7 DEF Total
<1>9. sum[0] = 0 /\ \A k \in 1 .. n : sum[k] = Add(k, sum[k - 1])
  <2> HIDE DEF Add, n
  <2>1. sum[0] = 0
    BY <1>1, <1>8
  <2>2. ASSUME NEW k \in 1 .. n
        PROVE  sum[k] = Add(k, sum[k - 1])
    <3>1. k \in 0 .. n /\ k # 0
      BY <1>1
    <3> QED BY <1>8, <3>1
  <2> QED BY <2>1, <2>2
<1>10. sum \in [0 .. n -> Int]
  <2> HIDE DEF Add, n
  <2>1. sum = [k \in 0 .. n |-> sum[k]]
    BY <1>8
  <2>2. \A k \in 1 .. n : sum[k - 1] \in Int => sum[k] \in Int
    BY <1>2, <1>9
  <2>3. sum[0] \in Int
    BY <1>3, <1>9
  <2> QED BY <1>1, <2>1, <2>2, <2>3, LoopType
<1> QED BY <1>8, <1>9, <1>10

LEMMA DataPointsType ==
  ASSUME NEW series \in Seq(Int)
  PROVE  DataPoints(series) \in Seq(Nat)
<1> DEFINE n == Len(series)
           Take(k, q) == IF series[k] >= 0 THEN Append(q, series[k]) ELSE q
           step == [x \in (1 .. n) \X Seq(Nat) |-> Take(x[1], x[2])]
<1>1. n \in Nat
  OBVIOUS
<1>2. \A k \in 1 .. n : \A q \in Seq(Nat) : Take(k, q) \in Seq(Nat)
  <2> SUFFICES ASSUME NEW k \in 1 .. n, NEW q \in Seq(Nat)
               PROVE  Take(k, q) \in Seq(Nat)
    OBVIOUS
  <2>1. series[k] >= 0 => series[k] \in Nat
    OBVIOUS
  <2> QED BY <2>1
<1>3. <<>> \in Seq(Nat)
  OBVIOUS
<1>4. step \in [(1 .. n) \X Seq(Nat) -> Seq(Nat)]
  <2> HIDE DEF Take, n
  <2> QED BY <1>1, <1>2
<1>5. \A k \in 1 .. n : \A v \in Seq(Nat) : step[<<k, v>>] = Take(k, v)
  <2> HIDE DEF Take, n
  <2> QED BY <1>1, <1>2
<1>6. PICK g \in [0 .. n -> Seq(Nat)] :
        g[0] = <<>> /\ \A k \in 1 .. n : g[k] = step[<<k, g[k - 1]>>]
  <2> HIDE DEF step, n
  <2>1. \E g \in [0 .. n -> Seq(Nat)] : Iterates(g, n, <<>>, step)
    BY <1>1, <1>3, <1>4, Loop
  <2> QED BY <2>1 DEF Iterates
<1>7. g = [k \in 0 .. n |-> IF k = 0 THEN <<>> ELSE Take(k, g[k - 1])]
  <2> HIDE DEF Take, n, step
  <2> SUFFICES ASSUME NEW k \in 0 .. n
               PROVE  g[k] = IF k = 0 THEN <<>> ELSE Take(k, g[k - 1])
    BY <1>6
  <2>1. k # 0 => k \in 1 .. n /\ k - 1 \in 0 .. n
    BY <1>1
  <2> QED BY <1>5, <1>6, <2>1
<1>8. PICK points : /\ points = [k \in 0 .. n |-> IF k = 0 THEN <<>> ELSE Take(k, points[k - 1])]
                 /\ DataPoints(series) = points[n]
  BY <1>7 DEF DataPoints
<1>9. points[0] = <<>> /\ \A k \in 1 .. n : points[k] = Take(k, points[k - 1])
  <2> HIDE DEF Take, n
  <2>1. points[0] = <<>>
    BY <1>1, <1>8
  <2>2. ASSUME NEW k \in 1 .. n
        PROVE  points[k] = Take(k, points[k - 1])
    <3>1. k \in 0 .. n /\ k # 0
      BY <1>1
    <3> QED BY <1>8, <3>1
  <2> QED BY <2>1, <2>2
<1>10. points \in [0 .. n -> Seq(Nat)]
  <2> HIDE DEF Take, n
  <2>1. points = [k \in 0 .. n |-> points[k]]
    BY <1>8
  <2>2. \A k \in 1 .. n : points[k - 1] \in Seq(Nat) => points[k] \in Seq(Nat)
    BY <1>2, <1>9
  <2>3. points[0] \in Seq(Nat)
    BY <1>3, <1>9
  <2> QED BY <1>1, <2>1, <2>2, <2>3, LoopType
<1>11. points[n] \in Seq(Nat)
  <2> HIDE DEF n
  <2> QED BY <1>1, <1>10
<1> QED BY <1>8, <1>11

\* The values of a query, whatever the series.
LEMMA QueryType ==
  ASSUME prometheus \in [gauge : Seq(Int), ok : Seq(Int), failed : Seq(Int)],
         NEW metric, NEW values \in RangeQuery(metric)
  PROVE  values \in Seq(Nat)
<1>1. ASSUME NEW rates \in Seq(Int), NEW s \in Exported(rates)
      PROVE  s \in Seq(Int)
  <2> DEFINE counted == {k \in DOMAIN rates : rates[k] > 0}
  <2>1. counted # {} /\ counted \in SUBSET Nat /\ s = SubSeq(rates, Min(counted), Len(rates))
    BY <1>1 DEF Exported
  <2>2. Min(counted) \in counted
    <3> HIDE DEF counted
    <3> QED BY <2>1, MinFacts
  <2>3. Min(counted) \in 1 .. Len(rates)
    BY <2>2
  <2> HIDE DEF counted
  <2> QED BY <2>1, <2>3
<1>2. ASSUME NEW s \in Seq(Int)
      PROVE  [k \in DOMAIN s |-> IF s[k] = 0 THEN -1 ELSE 1] \in Seq(Int)
  <2>1. DOMAIN s = 1 .. Len(s) /\ Len(s) \in Nat
    OBVIOUS
  <2> QED BY <2>1
<1>3. \A s \in Results(metric) : s \in Seq(Int)
  BY <1>1, <1>2 DEF Results
<1>4. <<>> \in Seq(Nat)
  OBVIOUS
<1> QED BY <1>3, <1>4, DataPointsType DEF RangeQuery

LEMMA TimesMonotone ==
  ASSUME NEW a \in Nat, NEW b \in Nat, NEW c \in Nat, a <= b
  PROVE  a * c <= b * c
<1>1. PICK d \in Nat : b = a + d
  <2>1. b - a \in Nat /\ b = a + (b - a)
    OBVIOUS
  <2> QED BY <2>1
<1>2. b * c = a * c + d * c /\ d * c \in Nat /\ a * c \in Nat
  BY <1>1
<1> QED BY <1>2

\* The values as high as the latest make up no more than the total.
LEMMA SpikeFacts ==
  ASSUME NEW values \in Seq(Nat), Anomalous(values)
  PROVE  LET high == {k \in DOMAIN values : values[k] >= values[Len(values)]} IN
         3 * Cardinality(high) < Len(values)
<1> DEFINE n == Len(values)
           latest == values[n]
           High(k) == {j \in 1 .. k : values[j] >= latest}
           size(k) == Cardinality(High(k))
<1>1. n \in Nat /\ \A k \in 1 .. n : values[k] \in Nat
  OBVIOUS
<1>2. n > 0 /\ Total(values) > 0 /\ n * latest > 3 * Total(values) /\ latest \in Nat
  BY <1>1 DEF Anomalous
<1>3. PICK sum \in [0 .. n -> Int] :
        /\ sum[0] = 0
        /\ \A k \in 1 .. n : sum[k] = sum[k - 1] + values[k]
        /\ Total(values) = sum[n]
  BY TotalFacts
<1>4. ASSUME NEW k \in 0 .. n
      PROVE  IsFiniteSet(High(k)) /\ size(k) \in Nat
  <2>1. IsFiniteSet(1 .. k)
    BY FS_Interval
  <2>2. IsFiniteSet(High(k))
    BY <2>1, FS_Subset
  <2> QED BY <2>2, FS_CardinalityType
<1>5. ASSUME NEW k \in 0 .. n - 1
      PROVE  size(k + 1) = IF values[k + 1] >= latest THEN size(k) + 1 ELSE size(k)
  <2>1. k + 1 \notin High(k) /\ IsFiniteSet(High(k))
    <3>1. k \in 0 .. n
      BY <1>1
    <3> QED BY <1>4, <3>1
  <2>2. High(k + 1) = IF values[k + 1] >= latest THEN High(k) \union {k + 1} ELSE High(k)
    BY <1>1
  <2> HIDE DEF High
  <2> QED BY <2>1, <2>2, FS_AddElement
<1> DEFINE G == {k \in 0 .. n : latest * size(k) <= sum[k]}
<1>6. 0 \in G
  <2>1. High(0) = {}
    OBVIOUS
  <2>2. size(0) = 0
    BY <2>1, FS_EmptySet
  <2> HIDE DEF latest, size
  <2> QED BY <1>1, <1>2, <1>3, <2>2
<1>7. ASSUME NEW k \in 0 .. n - 1, k \in G
      PROVE  k + 1 \in G
  <2> DEFINE v == values[k + 1]
             c == size(k)
  <2>1. /\ c \in Nat /\ v \in Nat /\ latest \in Nat /\ k + 1 \in 0 .. n
        /\ sum[k] \in Int /\ sum[k + 1] = sum[k] + v /\ latest * c <= sum[k]
    <3>1. k \in 0 .. n /\ k + 1 \in 1 .. n /\ (k + 1) - 1 = k /\ k + 1 \in 0 .. n
      BY <1>1
    <3>2. latest * c <= sum[k]
      BY <1>7
    <3>3. c \in Nat
      BY <1>4, <3>1
    <3>4. v \in Nat
      BY <1>1, <3>1
    <3>5. sum[k] \in Int /\ sum[k + 1] = sum[k] + v
      BY <1>3, <3>1
    <3> HIDE DEF c, v, latest
    <3> QED BY <1>2, <3>1, <3>2, <3>3, <3>4, <3>5
  <2>2. size(k + 1) = IF v >= latest THEN c + 1 ELSE c
    BY <1>5
  <2> HIDE DEF latest, size, v, c
  <2>3. latest * (c + 1) = latest * c + latest
    BY <2>1
  <2>4. latest * c \in Nat
    BY <2>1
  <2>5. latest * size(k + 1) <= sum[k + 1]
    <3>1. CASE v >= latest
      <4>1. latest * size(k + 1) = latest * c + latest
        BY <2>2, <2>3, <3>1
      <4> QED BY <2>1, <2>4, <3>1, <4>1
    <3>2. CASE ~(v >= latest)
      <4>1. latest * size(k + 1) = latest * c
        BY <2>2, <3>2
      <4> QED BY <2>1, <2>4, <3>2, <4>1
    <3> QED BY <3>1, <3>2
  <2> QED BY <2>1, <2>5
<1>8. latest * size(n) <= Total(values)
  <2>1. 0 .. n \subseteq G
    <3> HIDE DEF G, n
    <3> QED BY <1>1, <1>6, <1>7, Upto
  <2> QED BY <1>1, <1>3, <2>1
<1>9. 3 * size(n) < n
  <2>1. size(n) \in Nat /\ Total(values) \in Int
    <3>1. n \in 0 .. n
      BY <1>1
    <3>2. Total(values) \in Int
      BY <1>3, <3>1
    <3> QED BY <1>4, <3>1, <3>2
  <2> HIDE DEF size, latest, n
  <2>2. SUFFICES ASSUME n <= 3 * size(n)
                 PROVE  FALSE
    BY <1>1, <2>1
  <2>3. n * latest <= (3 * size(n)) * latest
    <3> DEFINE m == 3 * size(n)
    <3>1. m \in Nat /\ n <= m
      BY <2>1, <2>2
    <3> HIDE DEF m
    <3>2. n * latest <= m * latest
      BY <1>1, <1>2, <3>1, TimesMonotone
    <3> QED BY <3>2 DEF m
  <2>4. (3 * size(n)) * latest = 3 * (latest * size(n))
    BY <1>2, <2>1
  <2>5. latest * size(n) \in Nat /\ n * latest \in Nat
    BY <1>1, <1>2, <2>1
  <2> QED BY <1>2, <1>8, <2>1, <2>3, <2>4, <2>5
<1>10. High(n) = {k \in DOMAIN values : values[k] >= values[Len(values)]}
  BY <1>1
<1> QED BY <1>9, <1>10

-----------------------------------------------------------------------------
(***************************************************************************)
(* The search                                                              *)
(***************************************************************************)

\* One more than asked for is enough: if a similar incident was not fetched, all
\* that were are similar, and there are more of them than were asked for.
LEMMA SearchFacts ==
  ASSUME IsFiniteSet(DOMAIN chromadb), chromadb \in [DOMAIN chromadb -> Nat],
         NEW n \in Nat, NEW fetched \in Nearest(n + 1),
         NEW r \in FirstOf(n, Similar(fetched))
  PROVE  LET similar == Similar(DOMAIN chromadb) IN
         /\ r \subseteq similar
         /\ Cardinality(r) = Min({n, Cardinality(similar)})
         /\ \A i \in r : \A j \in similar \ r : chromadb[i] <= chromadb[j]
<1> DEFINE D == DOMAIN chromadb
           S == Similar(D)
           F == Similar(fetched)
<1>1. /\ fetched \in SUBSET D /\ Cardinality(fetched) = Min({n + 1, Cardinality(D)})
      /\ \A i \in fetched : \A j \in D \ fetched : chromadb[i] <= chromadb[j]
  BY DEF Nearest, kSubset
<1>2. /\ r \in SUBSET F /\ Cardinality(r) = Min({n, Cardinality(F)})
      /\ \A i \in r : \A j \in F \ r : chromadb[i] <= chromadb[j]
  BY DEF FirstOf, kSubset
<1>3. F \subseteq S /\ S \subseteq D /\ F = S \intersect fetched
  BY <1>1 DEF Similar
<1>4. /\ IsFiniteSet(S) /\ IsFiniteSet(F) /\ IsFiniteSet(fetched)
      /\ Cardinality(S) \in Nat /\ Cardinality(F) \in Nat /\ Cardinality(D) \in Nat
      /\ Cardinality(F) <= Cardinality(S)
      /\ Cardinality(fetched) = Cardinality(D) => fetched = D
  <2>1. IsFiniteSet(S) /\ IsFiniteSet(fetched)
        /\ (Cardinality(fetched) = Cardinality(D) => fetched = D)
    BY <1>1, <1>3, FS_Subset
  <2>2. IsFiniteSet(F) /\ Cardinality(F) <= Cardinality(S)
    BY <1>3, <2>1, FS_Subset
  <2>3. QED
    BY <2>1, <2>2, FS_CardinalityType
<1>5. Cardinality(r) = Min({n, Cardinality(S)})
  <2>1. CASE S \subseteq fetched
    <3>1. F = S
      BY <1>3, <2>1
    <3>2. QED
      BY <1>2, <3>1
  <2>2. CASE ~(S \subseteq fetched)
    <3>1. PICK j \in S : j \notin fetched
      BY <2>2
    <3>2. \A i \in fetched : i \in S
      <4> SUFFICES ASSUME NEW i \in fetched
                   PROVE  i \in S
        OBVIOUS
      <4>1. j \in D /\ i \in D /\ chromadb[j] <= MaxDistance
        BY <1>1, <1>3 DEF Similar
      <4>2. chromadb[i] <= chromadb[j]
        BY <1>1, <3>1, <4>1
      <4>3. chromadb[i] \in Nat /\ chromadb[j] \in Nat
        BY <4>1
      <4>4. chromadb[i] <= MaxDistance
        BY <4>1, <4>2, <4>3, TelemetryAssumption
      <4>5. QED
        BY <4>1, <4>4 DEF Similar
    <3>3. F = fetched
      BY <1>3, <3>2
    <3>4. Cardinality(F) = n + 1
      <4>1. fetched # D
        BY <1>3, <3>1
      <4>2. Cardinality(fetched) # Cardinality(D)
        BY <1>4, <4>1
      <4>3. QED
        BY <1>1, <1>4, <3>3, <4>2, MinOfTwo
    <3>5. Cardinality(r) = n /\ Min({n, Cardinality(S)}) = n
      BY <1>2, <1>4, <3>4, MinOfTwo
    <3>6. QED
      BY <3>5
  <2>3. QED
    BY <2>1, <2>2
<1>6. ASSUME NEW i \in r, NEW j \in S \ r
      PROVE  chromadb[i] <= chromadb[j]
  <2>1. CASE j \in fetched
    BY <1>2, <1>3, <1>6, <2>1
  <2>2. CASE j \notin fetched
    BY <1>1, <1>2, <1>3, <1>6, <2>2
  <2>3. QED
    BY <2>1, <2>2
<1>7. QED
  BY <1>2, <1>3, <1>5, <1>6

-----------------------------------------------------------------------------
(***************************************************************************)
(* The invariant is inductive                                              *)
(***************************************************************************)

\* As long as no tool has anything to tell, it holds of any stores.
LEMMA NothingTold == call.tool = "none" => FirstErrorTimes /\ SearchIsTopN /\ SpikeIsShort
  BY DEF FirstErrorTimes, SearchIsTopN, SpikeIsShort, Metrics

LEMMA ToolsInitInvariant == ToolsInit => ToolsIInv
<1> SUFFICES ASSUME ToolsInit PROVE ToolsIInv
  OBVIOUS
<1>1. call.tool = "none" /\ jaeger = {}
  BY DEF ToolsInit, NoCall
<1>2. DOMAIN chromadb = {} /\ chromadb \in [DOMAIN chromadb -> Nat]
  BY DEF ToolsInit, NoIncidents
<1>3. IsFiniteSet(DOMAIN chromadb)
  BY <1>2, FS_EmptySet
<1>4. prometheus \in [gauge : Seq(Int), ok : Seq(Int), failed : Seq(Int)]
  BY DEF ToolsInit, NoSeries
<1>5. QED
  BY <1>1, <1>2, <1>3, <1>4, NothingTold DEF ToolsIInv

LEMMA ExportKeeps ==
  ASSUME ToolsIInv, NEW span \in Span, Export(span)
  PROVE  ToolsIInv'
<1>1. /\ call' = NoCall /\ jaeger' = jaeger \union {span}
      /\ prometheus' = prometheus /\ chromadb' = chromadb
  BY DEF Export
<1>2. (FirstErrorTimes /\ SearchIsTopN /\ SpikeIsShort)'
  BY <1>1 DEF NoCall, FirstErrorTimes, SearchIsTopN, SpikeIsShort, Metrics
<1>3. QED
  BY <1>1, <1>2 DEF ToolsIInv

LEMMA StoreKeeps ==
  ASSUME ToolsIInv, NEW i \in Past, NEW d \in Distances, Store(i, d)
  PROVE  ToolsIInv'
<1>1. /\ call' = NoCall /\ jaeger' = jaeger /\ prometheus' = prometheus
      /\ chromadb' = [j \in DOMAIN chromadb \union {i} |-> IF j = i THEN d ELSE chromadb[j]]
  BY DEF Store
<1>2. (FirstErrorTimes /\ SearchIsTopN /\ SpikeIsShort)'
  BY <1>1 DEF NoCall, FirstErrorTimes, SearchIsTopN, SpikeIsShort, Metrics
<1>3. d \in Nat
  BY TelemetryAssumption
<1>4. /\ DOMAIN chromadb' = DOMAIN chromadb \union {i}
      /\ chromadb' \in [DOMAIN chromadb' -> Nat]
  BY <1>1, <1>3 DEF ToolsIInv
<1>5. IsFiniteSet(DOMAIN chromadb')
  <2>1. IsFiniteSet(DOMAIN chromadb)
    BY DEF ToolsIInv
  <2> QED BY <1>4, <2>1, FS_AddElement
<1>6. QED
  BY <1>1, <1>2, <1>4, <1>5 DEF ToolsIInv

\* A scrape, or the end of a call.
LEMMA NoCallKeeps ==
  ASSUME ToolsIInv, call' = NoCall, UNCHANGED <<jaeger, chromadb>>,
         (prometheus \in [gauge : Seq(Int), ok : Seq(Int), failed : Seq(Int)])'
  PROVE  ToolsIInv'
<1>1. (FirstErrorTimes /\ SearchIsTopN /\ SpikeIsShort)'
  BY DEF NoCall, FirstErrorTimes, SearchIsTopN, SpikeIsShort, Metrics
<1>2. QED
  BY <1>1 DEF ToolsIInv

LEMMA ToolQueryTracesKeeps ==
  ASSUME ToolsIInv, NEW onlyErrors \in BOOLEAN, ToolQueryTraces(onlyErrors)
  PROVE  ToolsIInv'
<1>1. PICK traces :
        /\ call' = [tool |-> "traces",
                    all |-> traces = Matches(onlyErrors),
                    total |-> Cardinality(traces),
                    first |-> Earliest({StartTime(t) : t \in {u \in traces : HasError(u)}})]
        /\ UNCHANGED <<jaeger, prometheus, chromadb>>
  BY DEF ToolQueryTraces
<1>2. call'.tool = "traces" /\ (call'.all <=> traces = Matches(onlyErrors))
      /\ call'.first = Earliest({StartTime(t) : t \in {u \in traces : HasError(u)}})
  BY <1>1
<1>3. SearchIsTopN' /\ SpikeIsShort'
  BY <1>2 DEF SearchIsTopN, SpikeIsShort, Metrics
<1>4. call'.all /\ FirstFailure # -1 => call'.first \in 0 .. FirstFailure
  BY <1>2, TracesTell DEF ToolsIInv
<1>5. FirstFailure' = FirstFailure
  BY <1>1 DEF FirstFailure, Earliest
<1>6. FirstErrorTimes'
  BY <1>2, <1>4, <1>5 DEF FirstErrorTimes
<1>7. QED
  BY <1>1, <1>3, <1>6 DEF ToolsIInv

LEMMA ToolQueryLogsKeeps ==
  ASSUME ToolsIInv, NEW level \in {"ERROR", "WARN"}, ToolQueryLogs(level)
  PROVE  ToolsIInv'
<1>1. PICK traces : \E told \in SUBSET Entries(traces, level) :
        /\ call' = [tool |-> "logs",
                    level |-> level,
                    all |-> traces = Matches(level = "ERROR") /\ told = Entries(traces, level),
                    total |-> Cardinality(told),
                    first |-> Earliest({x.start : x \in told})]
        /\ UNCHANGED <<jaeger, prometheus, chromadb>>
  BY DEF ToolQueryLogs, kSubset
<1>2. PICK told \in SUBSET Entries(traces, level) :
        /\ call' = [tool |-> "logs",
                    level |-> level,
                    all |-> traces = Matches(level = "ERROR") /\ told = Entries(traces, level),
                    total |-> Cardinality(told),
                    first |-> Earliest({x.start : x \in told})]
        /\ UNCHANGED <<jaeger, prometheus, chromadb>>
  BY <1>1
<1>3. call'.tool = "logs" /\ call'.level = level
      /\ (call'.all <=> traces = Matches(level = "ERROR") /\ told = Entries(traces, level))
      /\ call'.first = Earliest({x.start : x \in told})
  BY <1>2
<1>4. SearchIsTopN' /\ SpikeIsShort'
  BY <1>3 DEF SearchIsTopN, SpikeIsShort, Metrics
<1>5. ASSUME level = "ERROR"
      PROVE  /\ call'.first # -1 => FirstFailure # -1 /\ call'.first >= FirstFailure
             /\ call'.all => call'.first = FirstFailure
  <2>1. told \in SUBSET Failures
    BY <1>5, EntriesFacts
  <2>2. call'.all => told = Failures
    BY <1>3, <1>5, EntriesFacts
  <2>3. QED
    BY <1>3, <2>1, <2>2, LogsTell DEF ToolsIInv
<1>6. FirstFailure' = FirstFailure
  BY <1>2 DEF FirstFailure, Earliest
<1>7. FirstErrorTimes'
  BY <1>3, <1>5, <1>6 DEF FirstErrorTimes
<1>8. QED
  BY <1>2, <1>4, <1>7 DEF ToolsIInv

LEMMA ToolSearchKeeps ==
  ASSUME ToolsIInv, NEW n \in Nat, ToolSearchSimilarIncidents(n)
  PROVE  ToolsIInv'
<1>1. PICK fetched \in Nearest(n + 1) :
        \E r \in FirstOf(n, Similar(fetched)) :
          /\ call' = [tool |-> "search", n |-> n, incidents |-> r]
          /\ UNCHANGED <<jaeger, prometheus, chromadb>>
  BY DEF ToolSearchSimilarIncidents
<1>2. PICK r \in FirstOf(n, Similar(fetched)) :
        /\ call' = [tool |-> "search", n |-> n, incidents |-> r]
        /\ UNCHANGED <<jaeger, prometheus, chromadb>>
  BY <1>1
<1>3. call'.tool = "search" /\ call'.n = n /\ call'.incidents = r
  BY <1>2
<1>4. FirstErrorTimes' /\ SpikeIsShort'
  BY <1>3 DEF FirstErrorTimes, SpikeIsShort, Metrics
<1>5. LET similar == Similar(DOMAIN chromadb) IN
      /\ r \subseteq similar
      /\ Cardinality(r) = Min({n, Cardinality(similar)})
      /\ \A i \in r : \A j \in similar \ r : chromadb[i] <= chromadb[j]
  BY SearchFacts DEF ToolsIInv
<1>6. SearchIsTopN'
  BY <1>2, <1>3, <1>5 DEF SearchIsTopN, Similar
<1>7. QED
  BY <1>2, <1>4, <1>6 DEF ToolsIInv

LEMMA ToolQueryMetricKeeps ==
  ASSUME ToolsIInv, NEW metric \in Metrics, ToolQueryMetric(metric)
  PROVE  ToolsIInv'
<1>1. PICK values \in RangeQuery(metric) :
        /\ call' = [tool |-> metric,
                    values |-> values,
                    latest |-> IF values = <<>> THEN 0 ELSE Last(values),
                    isAnomalous |-> Anomalous(values)]
        /\ UNCHANGED <<jaeger, prometheus, chromadb>>
  BY DEF ToolQueryMetric
<1>2. values \in Seq(Nat)
  BY QueryType DEF ToolsIInv
<1>3. /\ call'.tool = metric /\ call'.values = values
      /\ call'.latest = (IF values = <<>> THEN 0 ELSE Last(values))
      /\ call'.isAnomalous = Anomalous(values)
  BY <1>1
<1>4. (FirstErrorTimes /\ SearchIsTopN)'
  BY <1>3 DEF FirstErrorTimes, SearchIsTopN, Metrics
<1>5. ASSUME Anomalous(values)
      PROVE  LET high == {k \in DOMAIN values : values[k] >= call'.latest} IN
             3 * Cardinality(high) < Len(values)
  <2>1. values # <<>>
    BY <1>2, <1>5 DEF Anomalous
  <2>2. call'.latest = values[Len(values)]
    BY <1>2, <1>3, <2>1 DEF Last
  <2> QED BY <1>2, <1>5, <2>2, SpikeFacts
<1>6. SpikeIsShort'
  BY <1>3, <1>5 DEF SpikeIsShort
<1> QED BY <1>1, <1>4, <1>6 DEF ToolsIInv

LEMMA ToolsNextInvariant == ToolsIInv /\ [ToolsNext]_toolsVars => ToolsIInv'
<1> SUFFICES ASSUME ToolsIInv, [ToolsNext]_toolsVars
             PROVE  ToolsIInv'
  OBVIOUS
<1>1. ASSUME NEW span \in Span, Export(span)
      PROVE  ToolsIInv'
  BY <1>1, ExportKeeps
<1>2. ASSUME NEW well \in 0 .. MaxValue, NEW ill \in 0 .. MaxValue, ScrapeRequests(well, ill)
      PROVE  ToolsIInv'
  <2>1. well \in Int /\ ill \in Int
    BY <1>2, TelemetryAssumption
  <2>2. (prometheus \in [gauge : Seq(Int), ok : Seq(Int), failed : Seq(Int)])'
    <3>1. /\ prometheus.ok \in Seq(Int) /\ prometheus.failed \in Seq(Int)
          /\ prometheus.gauge \in Seq(Int)
          /\ prometheus = [gauge |-> prometheus.gauge, ok |-> prometheus.ok,
                           failed |-> prometheus.failed]
      BY DEF ToolsIInv
    <3>2. prometheus' = [gauge |-> prometheus.gauge, ok |-> Append(prometheus.ok, well),
                         failed |-> Append(prometheus.failed, ill)]
      BY <1>2, <3>1 DEF ScrapeRequests
    <3>3. Append(prometheus.ok, well) \in Seq(Int) /\ Append(prometheus.failed, ill) \in Seq(Int)
      BY <2>1, <3>1
    <3> QED BY <3>1, <3>2, <3>3
  <2> QED BY <1>2, <2>2, NoCallKeeps DEF ScrapeRequests
<1>3. ASSUME NEW value \in -1 .. MaxValue, ScrapeGauge(value)
      PROVE  ToolsIInv'
  <2>1. value \in Int
    BY <1>3, TelemetryAssumption
  <2>2. (prometheus \in [gauge : Seq(Int), ok : Seq(Int), failed : Seq(Int)])'
    <3>1. /\ prometheus.ok \in Seq(Int) /\ prometheus.failed \in Seq(Int)
          /\ prometheus.gauge \in Seq(Int)
          /\ prometheus = [gauge |-> prometheus.gauge, ok |-> prometheus.ok,
                           failed |-> prometheus.failed]
      BY DEF ToolsIInv
    <3>2. prometheus' = [gauge |-> Append(prometheus.gauge, value), ok |-> prometheus.ok,
                         failed |-> prometheus.failed]
      BY <1>3, <3>1 DEF ScrapeGauge
    <3>3. Append(prometheus.gauge, value) \in Seq(Int)
      BY <2>1, <3>1
    <3> QED BY <3>1, <3>2, <3>3
  <2> QED BY <1>3, <2>2, NoCallKeeps DEF ScrapeGauge
<1>4. ASSUME NEW i \in Past, NEW d \in Distances, Store(i, d)
      PROVE  ToolsIInv'
  BY <1>4, StoreKeeps
<1>5. ASSUME NEW onlyErrors \in BOOLEAN, ToolQueryTraces(onlyErrors)
      PROVE  ToolsIInv'
  BY <1>5, ToolQueryTracesKeeps
<1>6. CASE ToolGetTraceErrorRate
  <2>1. call'.tool = "rate" /\ UNCHANGED <<jaeger, prometheus, chromadb>>
    BY <1>6 DEF ToolGetTraceErrorRate
  <2>2. (FirstErrorTimes /\ SearchIsTopN /\ SpikeIsShort)'
    BY <2>1 DEF FirstErrorTimes, SearchIsTopN, SpikeIsShort, Metrics
  <2>3. QED
    BY <2>1, <2>2 DEF ToolsIInv
<1>7. ASSUME NEW level \in {"ERROR", "WARN"}, ToolQueryLogs(level)
      PROVE  ToolsIInv'
  BY <1>7, ToolQueryLogsKeeps
<1>8. ASSUME NEW metric \in Metrics, ToolQueryMetric(metric)
      PROVE  ToolsIInv'
  BY <1>8, ToolQueryMetricKeeps
<1>9. ASSUME NEW n \in 0 .. MaxResults, ToolSearchSimilarIncidents(n)
      PROVE  ToolsIInv'
  BY <1>9, ToolSearchKeeps
<1>10. CASE Return
  BY <1>10, NoCallKeeps DEF Return, ToolsIInv
<1>11. CASE UNCHANGED toolsVars
  BY <1>11 DEF toolsVars, ToolsIInv, FirstErrorTimes, SearchIsTopN, SpikeIsShort,
     FirstFailure, Earliest, Similar
<1>12. QED
  BY <1>1, <1>2, <1>3, <1>4, <1>5, <1>6, <1>7, <1>8, <1>9, <1>10, <1>11
     DEF ToolsNext

LEMMA ToolsInvariant == ToolsSpec => []ToolsIInv
  BY ToolsInitInvariant, ToolsNextInvariant, PTL DEF ToolsSpec

(***************************************************************************)
(* Whatever is in the stores and whatever limits cut, the times of first    *)
(* errors are as far apart as the property says, and no more.               *)
(***************************************************************************)
THEOREM ErrorTimesCorrect == ToolsSpec => []FirstErrorTimes
<1>1. ToolsIInv => FirstErrorTimes
  BY DEF ToolsIInv
<1>2. QED
  BY <1>1, ToolsInvariant, PTL

(***************************************************************************)
(* The search returns the nearest of the similar incidents, for any store,  *)
(* any threshold and any number asked for.                                  *)
(***************************************************************************)
THEOREM SearchCorrect == ToolsSpec => []SearchIsTopN
<1>1. ToolsIInv => SearchIsTopN
  BY DEF ToolsIInv
<1>2. QED
  BY <1>1, ToolsInvariant, PTL

(***************************************************************************)
(* Whatever the series and however long, an anomaly is a short spike.       *)
(***************************************************************************)
THEOREM SpikesAreShort == ToolsSpec => []SpikeIsShort
<1>1. ToolsIInv => SpikeIsShort
  BY DEF ToolsIInv
<1>2. QED
  BY <1>1, ToolsInvariant, PTL
=============================================================================
