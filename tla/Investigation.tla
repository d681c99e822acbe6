---------------------------- MODULE Investigation ----------------------------
(***************************************************************************)
(* What the agents of a run do inside their nodes: the preflight check of   *)
(* triage (agents/triage/agent.py), the ReAct loop of the agents with tools *)
(* (agents/shared/node_utils.py), the querier they share                    *)
(* (get_querier in agents/tools/registry.py), which seeds the collection of *)
(* past incidents as it is built, and the node that adds to it.             *)
(*                                                                          *)
(* Pipeline has the same nodes from outside, with the state they hand on.   *)
(* Here a run is of a new incident, a language model can be had, and of the *)
(* state there is only how each node ended.  Every request to a backend or  *)
(* to the model may fail.  The analyzers are threads of one process, which  *)
(* may stop and start at any time; the collection is not in it.             *)
(***************************************************************************)
EXTENDS Naturals, FiniteSets

CONSTANTS
  Analyzers,      \* trace_analyzer, log_correlator, metric_reasoner
  Incidents,      \* incidents that are analyzed
  Samples,        \* the sample incidents of seed_sample_incidents
  MaxIterations,  \* of the ReAct loop: 8, 8, 6, 10 and 5 in the code
  MaxCalls        \* bound on the tool calls in one answer of the model

Others ==
  {"triage", "correlation", "root_cause_analysis", "postmortem_writer",
   "store_postmortem"}

ASSUME InvestigationAssumption ==
  /\ Analyzers # {} /\ Analyzers \intersect Others = {}
  /\ Samples \intersect Incidents = {}
  /\ {MaxIterations, MaxCalls} \subseteq Nat \ {0}

Agents == Analyzers \union Others

\* Those that are given tools; root_cause_analysis and postmortem_writer ask
\* the model once, store_postmortem does not.
Reasoners == Analyzers \union {"triage", "correlation"}

VARIABLES
  active,      \* the nodes that run
  pc,          \* what each node does, or how it ended
  turn,        \* iterations of the loop whose calls were made
  pending,     \* tool calls of the last answer that are not done
  \* the querier
  cached,      \* get_querier has a result
  building,    \* the threads that build one
  unseeded,    \* the samples each of them has yet to store
  \* ChromaDB
  collection,  \* the incidents stored
  \* the run
  incident,    \* the incident
  seen,        \* history: a query of the preflight returned data
  asked        \* history: the model was asked something

agentVars == <<active, pc, turn, pending>>
querierVars == <<cached, building, unseeded>>
runVars == <<incident, seen, asked>>
vars == <<agentVars, querierVars, collection, runVars>>

\* "no data": triage returned early.
Ended == {"done", "failed", "no data"}

TypeOK ==
  /\ active \subseteq Agents
  /\ pc \in [Agents -> {"idle", "preflight", "traces", "asking", "calling",
                        "storing"} \union Ended]
  /\ turn \in [Agents -> 0 .. MaxIterations]
  /\ pending \in [Agents -> 0 .. MaxCalls]
  /\ cached \in BOOLEAN
  /\ building \subseteq active
  /\ unseeded \in [Agents -> SUBSET Samples]
  /\ collection \subseteq Samples \union Incidents
  /\ incident \in Incidents
  /\ seen \in BOOLEAN /\ asked \in BOOLEAN

Init ==
  /\ active = {}
  /\ pc = [a \in Agents |-> "idle"]
  /\ turn = [a \in Agents |-> 0]
  /\ pending = [a \in Agents |-> 0]
  /\ cached = FALSE
  /\ building = {}
  /\ unseeded = [a \in Agents |-> {}]
  /\ collection = {}
  /\ incident \in Incidents
  /\ seen = FALSE /\ asked = FALSE

Goto(a, place) == pc' = [pc EXCEPT ![a] = place]

-----------------------------------------------------------------------------
(***************************************************************************)
(* The run: triage, then the analyzers in parallel or, if the severity is   *)
(* SEV3, none of them, then one node after the other.                       *)
(***************************************************************************)

\* Bug variant: triage asks the model at once.
BeginWithoutPreflight(i) ==
  /\ active = {}
  /\ active' = {"triage"}
  /\ incident' = i
  /\ pc' = [a \in Agents |-> IF a = "triage" THEN "asking" ELSE "idle"]
  /\ turn' = [a \in Agents |-> 0]
  /\ pending' = [a \in Agents |-> 0]
  /\ seen' = FALSE /\ asked' = FALSE
  /\ UNCHANGED <<querierVars, collection>>

\* The server takes no request without an affected service.
Begin(i) ==
  /\ active = {}
  /\ active' = {"triage"}
  /\ incident' = i
  /\ pc' = [a \in Agents |-> IF a = "triage" THEN "preflight" ELSE "idle"]
  /\ turn' = [a \in Agents |-> 0]
  /\ pending' = [a \in Agents |-> 0]
  /\ seen' = FALSE /\ asked' = FALSE
  /\ UNCHANGED <<querierVars, collection>>

\* Only an analysis whose root cause has some confidence is stored.
Qualifies ==
  /\ pc["root_cause_analysis"] = "done"
  /\ \E a \in Analyzers : pc[a] = "done"

\* Triage that has an assessment has confirmed services.
Route(next) ==
  \/ active = {"triage"} /\ pc["triage"] = "done" /\ next \in {Analyzers, {"correlation"}}
  \/ active = {"triage"} /\ pc["triage"] # "done" /\ next = {"postmortem_writer"}
  \/ active = Analyzers /\ next = {"correlation"}
  \/ active = {"correlation"} /\ next = {"root_cause_analysis"}
  \/ active = {"root_cause_analysis"} /\ next = {"postmortem_writer"}
  \/ active = {"postmortem_writer"} /\ Qualifies /\ next = {"store_postmortem"}
  \/ active \in {{"postmortem_writer"}, {"store_postmortem"}} /\ next = {}

EndStep ==
  /\ active # {}
  /\ \A a \in active : pc[a] \in Ended
  /\ \E next \in {Analyzers, {}} \union {{a} : a \in Others} :
       /\ Route(next)
       /\ active' = next
       /\ pc' = [a \in Agents |-> IF a \notin next THEN pc[a]
                                  ELSE IF a = "store_postmortem" THEN "storing"
                                  ELSE "asking"]
       /\ turn' = [a \in Agents |-> IF a \in next THEN 0 ELSE turn[a]]
  /\ UNCHANGED <<pending, querierVars, collection, runVars>>

\* The process stops, and starts with nothing but its code.
Restart ==
  /\ active' = {}
  /\ pc' = [a \in Agents |-> "idle"]
  /\ turn' = [a \in Agents |-> 0]
  /\ pending' = [a \in Agents |-> 0]
  /\ cached' = FALSE
  /\ building' = {}
  /\ unseeded' = [a \in Agents |-> {}]
  /\ UNCHANGED <<collection, runVars>>

-----------------------------------------------------------------------------
(***************************************************************************)
(* The querier.  lru_cache keeps a result and no exception, and holds no    *)
(* lock while it has none.                                                  *)
(***************************************************************************)

NeedsQuerier(a) ==
  /\ a \in active \ building
  /\ pc[a] \in {"preflight", "calling", "storing"}
  /\ ~cached

\* Bug variant: the samples are stored whatever there is.
ConstructAndSeed(a) ==
  /\ NeedsQuerier(a)
  /\ building' = building \union {a}
  /\ unseeded' = [unseeded EXCEPT ![a] = Samples]
  /\ UNCHANGED <<agentVars, cached, collection, runVars>>

\* The client connects; an empty collection is to be seeded.
Construct(a) ==
  /\ NeedsQuerier(a)
  /\ building' = building \union {a}
  /\ unseeded' = [unseeded EXCEPT ![a] = IF collection = {} THEN Samples ELSE {}]
  /\ UNCHANGED <<agentVars, cached, collection, runVars>>

\* The failure to store a sample is logged.
Seed(a) ==
  \E s \in unseeded[a] :
    /\ a \in building
    /\ unseeded' = [unseeded EXCEPT ![a] = @ \ {s}]
    /\ collection' \in {collection, collection \union {s}}
    /\ UNCHANGED <<agentVars, cached, building, runVars>>

Cache(a) ==
  /\ a \in building
  /\ unseeded[a] = {}
  /\ cached' = TRUE
  /\ building' = building \ {a}
  /\ UNCHANGED <<agentVars, unseeded, collection, runVars>>

-----------------------------------------------------------------------------
(***************************************************************************)
(* Triage looks for data before it asks the model: an error rate whose      *)
(* latest value is positive, or else a trace.  (The points that it would    *)
(* count are under another key in a series, base.py:33.)                    *)
(***************************************************************************)

See(place) ==
  /\ pc["triage"] = place
  /\ "triage" \in active \ building
  /\ Goto("triage", "asking")
  /\ seen' = TRUE
  /\ UNCHANGED <<active, turn, pending, querierVars, collection, incident, asked>>

SeeNothing(place, next) ==
  /\ pc["triage"] = place
  /\ "triage" \in active \ building
  /\ Goto("triage", next)
  /\ UNCHANGED <<active, turn, pending, querierVars, collection, runVars>>

QueryErrorRate ==
  cached /\ (See("preflight") \/ SeeNothing("preflight", "traces"))

QueryTraces ==
  See("traces") \/ SeeNothing("traces", "no data")

\* Bug variant: where nothing could be found, triage goes on.
PreflightFailsOpen == \E p \in {"preflight", "traces"} : SeeNothing(p, "asking")

\* A query, or the connection to ChromaDB in get_querier, raises.
PreflightFails == \E p \in {"preflight", "traces"} : SeeNothing(p, "no data")

-----------------------------------------------------------------------------
(***************************************************************************)
(* The model is asked                                                      *)
(***************************************************************************)

\* The writer does not ask when triage found no telemetry.
MayAsk(a) ==
  /\ a \in active
  /\ pc[a] = "asking"
  /\ a = "postmortem_writer" => pc["triage"] # "no data"

\* Text ends the loop; an exception leaves it, the agent reports its failure.
AskLast(a) ==
  /\ MayAsk(a)
  /\ \E end \in {"done", "failed"} : Goto(a, end)
  /\ asked' = TRUE
  /\ UNCHANGED <<active, turn, pending, querierVars, collection, incident, seen>>

\* Bug variant: the loop runs while there are calls.
CallUncounted(a) ==
  /\ MayAsk(a)
  /\ a \in Reasoners
  /\ Goto(a, "calling")
  /\ \E n \in 1 .. MaxCalls : pending' = [pending EXCEPT ![a] = n]
  /\ asked' = TRUE
  /\ UNCHANGED <<active, turn, querierVars, collection, incident, seen>>

\* The model answers with calls of tools.
Call(a) ==
  /\ MayAsk(a)
  /\ a \in Reasoners
  /\ Goto(a, "calling")
  /\ turn' = [turn EXCEPT ![a] = @ + 1]
  /\ \E n \in 1 .. MaxCalls : pending' = [pending EXCEPT ![a] = n]
  /\ asked' = TRUE
  /\ UNCHANGED <<active, querierVars, collection, incident, seen>>

(***************************************************************************)
(* A tool returns data, or a text that tells of its error, or there is no   *)
(* such tool: all the same to the loop.  It asks for its querier first if   *)
(* its arguments are good; a failure of that is an error of the tool.       *)
(* After the last iteration the last tool's text stands for the model's.    *)
(***************************************************************************)
AnswerCall(a) ==
  /\ a \in active \ building
  /\ pc[a] = "calling"
  /\ pending' = [pending EXCEPT ![a] = @ - 1]
  /\ Goto(a, IF pending[a] > 1 THEN "calling"
             ELSE IF turn[a] < MaxIterations THEN "asking" ELSE "done")
  /\ UNCHANGED <<active, turn, querierVars, collection, runVars>>

\* The writer's own report: triage found no telemetry, or the text of some
\* agent's exception has such words in it.
WriteNoDataReport ==
  /\ "postmortem_writer" \in active
  /\ pc["postmortem_writer"] = "asking"
  /\ \E a \in Agents : pc[a] \in {"failed", "no data"}
  /\ Goto("postmortem_writer", "done")
  /\ UNCHANGED <<active, turn, pending, querierVars, collection, runVars>>

\* A count follows the upsert, and may fail after it.
StorePostmortem ==
  /\ "store_postmortem" \in active \ building
  /\ pc["store_postmortem"] = "storing"
  /\ \/ /\ cached
        /\ collection' = collection \union {incident}
        /\ \E end \in {"done", "failed"} : Goto("store_postmortem", end)
     \/ Goto("store_postmortem", "failed") /\ UNCHANGED collection
  /\ UNCHANGED <<active, turn, pending, querierVars, runVars>>

-----------------------------------------------------------------------------

AgentStep(a) ==
  \/ Construct(a) \/ Seed(a) \/ Cache(a)
  \/ AskLast(a) \/ Call(a) \/ AnswerCall(a)
  \/ a = "triage" /\ (QueryErrorRate \/ QueryTraces \/ PreflightFails)
  \/ a = "postmortem_writer" /\ WriteNoDataReport
  \/ a = "store_postmortem" /\ StorePostmortem

Next ==
  \/ \E i \in Incidents : Begin(i)
  \/ \E a \in Agents : AgentStep(a)
  \/ EndStep
  \/ Restart

Spec == Init /\ [][Next]_vars

(***************************************************************************)
(* A thread that can go on does.  Requests to Jaeger and Prometheus end     *)
(* after at most 30 seconds, those to Gemini after 60; Ollama and ChromaDB  *)
(* have no timeout in the code and are taken to answer or to fail.          *)
(***************************************************************************)
FairSpec == Spec /\ WF_vars(EndStep) /\ \A a \in Agents : WF_vars(AgentStep(a))

-----------------------------------------------------------------------------
(***************************************************************************)
(* Properties                                                              *)
(***************************************************************************)

(***************************************************************************)
(* No agent of a run, the writer included, asks the model anything unless   *)
(* a query of the run's preflight returned data                             *)
(* (docs/no_data_hallucination.md:65), whatever fails on the way.           *)
(***************************************************************************)
SeenBeforeAsked == asked => seen

(***************************************************************************)
(* One thread at a time builds a querier, although get_querier has no lock  *)
(* and the analyzers call it in parallel: the preflight has filled its      *)
(* cache before them.  So none ever replaces one in use.                    *)
(***************************************************************************)
OneQuerier ==
  building # {} => active = {"triage"} /\ ~cached

(***************************************************************************)
(* Once the collection has an incident and no querier is being built, or    *)
(* has the report of an analysis, the sample incidents in it are for ever   *)
(* the same: if storing some failed, or the process stopped between two,    *)
(* they are not made up for (chromadb_client.py:217).  Nor is one ever      *)
(* stored after an analysis has.                                            *)
(***************************************************************************)
SeedsSettle ==
  [][(collection # {} /\ building = {}) \/ collection \intersect Incidents # {}
       => collection' \intersect Samples = collection \intersect Samples]_vars

\* Every run ends, however often the model answers with calls
\* (node_utils.py:45) and whatever fails.
InvestigationEnds == active # {} ~> active = {}
=============================================================================
