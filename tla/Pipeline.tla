------------------------------ MODULE Pipeline ------------------------------
(***************************************************************************)
(* The analysis pipeline of one incident id: the graph of agents            *)
(* (agents/pipeline), what each agent writes to the state, the server's     *)
(* _run_pipeline around it, and PipelineRunner.resume.                      *)
(*                                                                          *)
(* LangGraph is external.  It runs a graph in supersteps: the tasks of a    *)
(* step run in parallel on the state at its beginning; what each returns is *)
(* saved as it ends; when all have ended the updates are merged into the    *)
(* state, and the edges give the tasks of the next step.  State and tasks   *)
(* are kept per thread id, the incident id, in memory.  A run with an input *)
(* merges it into the state that the thread has and starts at the entry     *)
(* point; a run without one goes on from where the thread stopped.  If a    *)
(* task raises, the run does, and the updates saved so far stay.            *)
(*                                                                          *)
(* Kept of the state is what an edge, a node or a property tells apart; of  *)
(* the three lists with an appending reducer, then, whether one thing is in *)
(* them.                                                                    *)
(***************************************************************************)
EXTENDS Naturals

CONSTANT MaxWaiting   \* bound on the requests that wait to be run

ASSUME PipelineAssumption == MaxWaiting \in Nat

VARIABLES
  \* the thread of the incident, in the checkpointer
  values,     \* the state
  tasks,      \* the nodes of the superstep at hand
  saved,      \* saved[n]: the update of a task n that has ended
  \* agents/server
  phase,      \* "idle", "running", or "raising" when a task has raised
  caller,     \* who runs the pipeline: "server" or "resume"
  waiting,    \* tasks _run_pipeline that have not begun
  record,     \* the incident's record: its status, and the report in its
              \* pipeline_state
  \* history, read by properties only
  outcome,    \* outcome[n]: how n ended in this run: "none", "ok", "failed"
  lost        \* the nodes that had ended in a run that the process did not
              \* survive, until the next run begins

threadVars == <<values, tasks, saved>>
vars == <<threadVars, phase, caller, waiting, record, outcome, lost>>

Analyzers == {"trace_analyzer", "log_correlator", "metric_reasoner"}

Nodes == Analyzers \union
  {"triage", "parallel_fanout", "correlation", "root_cause_analysis",
   "postmortem_writer", "store_postmortem"}

(***************************************************************************)
(* A state: confirmed, triage_confirmed_services is not empty; sev3,        *)
(* triage_severity is SEV3; the *_had_error flag of each analyzer under its *)
(* name; confident, the confidence is at least 0.5; report, "none", "short" *)
(* (up to 200 characters), "long", or one of the built-in ones, which are   *)
(* long; completeness, signal_completeness; written, completed_agents has   *)
(* the writer; failed, failed_agents is not empty; noTelemetry, one of      *)
(* errors says so.                                                          *)
(***************************************************************************)
Flags == Analyzers \union
  {"confirmed", "sev3", "confident", "written", "failed", "noTelemetry"}

Keys == Flags \union {"report", "completeness"}

Reports == {"none", "short", "long", "fallback", "no data"}

TypeOK ==
  /\ DOMAIN values = Keys
  /\ \A k \in Flags : values[k] \in BOOLEAN
  /\ values.report \in Reports
  /\ values.completeness \in {"full", "partial", "none"}
  /\ tasks \subseteq Nodes
  /\ DOMAIN saved \subseteq tasks
  /\ phase \in {"idle", "running", "raising"}
  /\ caller \in {"server", "resume"}
  /\ waiting \in 0 .. MaxWaiting
  /\ record \in [status : {"none", "queued", "running", "completed", "failed"},
                 report : Reports]
  /\ outcome \in [Nodes -> {"none", "ok", "failed"}]
  /\ lost \subseteq Nodes

\* initial_state, the input of every run but a resumed one.
InitialState ==
  [k \in Keys |-> IF k = "report" THEN "none"
                  ELSE IF k = "completeness" THEN "full" ELSE FALSE]

NoneSaved == [n \in {} |-> InitialState]
NotRun == [n \in Nodes |-> "none"]
NoRecord == [status |-> "none", report |-> "none"]

Init ==
  /\ values = InitialState
  /\ tasks = {}
  /\ saved = NoneSaved
  /\ phase = "idle"
  /\ caller = "server"
  /\ waiting = 0
  /\ record = NoRecord
  /\ outcome = NotRun
  /\ lost = {}

-----------------------------------------------------------------------------
(***************************************************************************)
(* The state and its reducers                                              *)
(***************************************************************************)

\* Bug variant: the last write of failed_agents replaces the others.
AppendedWithoutFailures == {"written", "noTelemetry"}

\* The keys with the reducer operator.add; the others keep the last write.
Appended == {"written", "failed", "noTelemetry"}

\* State v after a step whose tasks returned the updates in us.
Merged(v, us) ==
  [k \in DOMAIN v |->
     LET writes == {u[k] : u \in {w \in us : k \in DOMAIN w}} IN
     IF writes = {} THEN v[k]
     ELSE IF k \in Appended THEN v[k] \/ TRUE \in writes
     ELSE CHOOSE w \in writes : TRUE]

-----------------------------------------------------------------------------
(***************************************************************************)
(* What the nodes return                                                   *)
(***************************************************************************)

\* The update u of an agent that failed.  Its error has the text of an
\* exception, which may happen to say "no data".
Failure(u) ==
  {[k \in DOMAIN u \union {"failed", "noTelemetry"} |->
      IF k = "failed" THEN TRUE ELSE IF k = "noTelemetry" THEN b ELSE u[k]] :
   b \in BOOLEAN}

NotConfirmed == [confirmed |-> FALSE, sev3 |-> FALSE]

\* No telemetry found (or the query failed); a failure; or an assessment,
\* which confirms the suspected services if it names none.
TriageUpdates ==
  {[confirmed |-> FALSE, sev3 |-> FALSE, noTelemetry |-> TRUE]}
  \union {[confirmed |-> TRUE, sev3 |-> b] : b \in BOOLEAN}
  \union Failure(NotConfirmed)

AnalyzerUpdates(n) == {[k \in {n} |-> TRUE]} \union Failure([k \in {n} |-> FALSE])

\* Nothing reads what correlation writes, but for its failure.
CorrelationUpdates == {[failed |-> FALSE]} \union Failure([failed |-> TRUE])

\* The confidence after a failure is 0.3.
RootCauseUpdates ==
  {[confident |-> b] : b \in BOOLEAN} \union Failure([confident |-> FALSE])

\* Bug variant: the metrics are forgotten.
CompletenessOfTwo(v) ==
  IF v["trace_analyzer"] /\ v["log_correlator"] THEN "full" ELSE "partial"

Completeness(v) == IF \A n \in Analyzers : v[n] THEN "full" ELSE "partial"

\* An error that says "no telemetry" makes the report the built-in one; a
\* failure of the language model, the fallback.  (The other way to the
\* former, no confirmed service and no findings, is closed: triage always
\* leaves findings.)
WriterUpdates(v) ==
  IF v.noTelemetry
    THEN {[report |-> "no data", completeness |-> "none", written |-> TRUE]}
    ELSE {[report |-> r, completeness |-> Completeness(v), written |-> TRUE] :
            r \in {"short", "long"}}
         \union Failure([report |-> "fallback", completeness |-> Completeness(v)])

\* A failure to store is an error but no failed agent.
StoreUpdates == {[noTelemetry |-> b] : b \in BOOLEAN}

\* parallel_fanout writes nothing that is read.
NoUpdate == [failed |-> FALSE]

Updates(n, v) ==
  IF n = "triage" THEN TriageUpdates
  ELSE IF n \in Analyzers THEN AnalyzerUpdates(n)
  ELSE IF n = "correlation" THEN CorrelationUpdates
  ELSE IF n = "root_cause_analysis" THEN RootCauseUpdates
  ELSE IF n = "postmortem_writer" THEN WriterUpdates(v)
  ELSE IF n = "store_postmortem" THEN StoreUpdates
  ELSE {NoUpdate}

\* The nodes that call get_llm, outside of their try statement.
CallsGetLLM(n, v) ==
  /\ n \notin {"parallel_fanout", "store_postmortem"}
  /\ n = "postmortem_writer" => ~v.noTelemetry

-----------------------------------------------------------------------------
(***************************************************************************)
(* The edges                                                               *)
(***************************************************************************)

RouteAfterTriage(v) ==
  IF ~v.confirmed THEN {"postmortem_writer"}
  ELSE IF v.sev3 THEN {"correlation"}
  ELSE {"parallel_fanout"}

\* Bug variant: one Send is missing.
TwoAnalyzers == {"trace_analyzer", "log_correlator"}

FanOutToParallelAgents == Analyzers

\* Bug variant: without has_analysis.
RouteAfterAnyPostmortem(v) ==
  IF v.report \notin {"none", "short"} /\ v.confident
    THEN {"store_postmortem"} ELSE {}

\* Bug variant: a fallback report is written again.
RouteBackAfterPostmortem(v) ==
  IF v.report = "fallback" THEN {"postmortem_writer"}
  ELSE IF v.report # "short" /\ v.confident /\ \E n \in Analyzers : v[n]
    THEN {"store_postmortem"} ELSE {}

RouteAfterPostmortem(v) ==
  IF v.report \notin {"none", "short"} /\ v.confident /\ \E n \in Analyzers : v[n]
    THEN {"store_postmortem"} ELSE {}

\* The nodes that follow node n in state v.
Successors(n, v) ==
  IF n = "triage" THEN RouteAfterTriage(v)
  ELSE IF n = "parallel_fanout" THEN FanOutToParallelAgents
  ELSE IF n \in Analyzers THEN {"correlation"}
  ELSE IF n = "correlation" THEN {"root_cause_analysis"}
  ELSE IF n = "root_cause_analysis" THEN {"postmortem_writer"}
  ELSE IF n = "postmortem_writer" THEN RouteAfterPostmortem(v)
  ELSE {}

-----------------------------------------------------------------------------
(***************************************************************************)
(* Requests and runs                                                       *)
(***************************************************************************)

\* POST /analyze with the incident's id: a new record takes the place of the
\* old one, and a task is created.  No request is served during a run: it
\* does not let go of the event loop.
Post ==
  /\ phase = "idle"
  /\ waiting < MaxWaiting
  /\ record' = [status |-> "queued", report |-> "none"]
  /\ waiting' = waiting + 1
  /\ UNCHANGED <<threadVars, phase, caller, outcome, lost>>

\* _run_pipeline begins, and the pipeline with it.
Start ==
  /\ phase = "idle"
  /\ waiting > 0
  /\ waiting' = waiting - 1
  /\ record' = [record EXCEPT !.status = "running"]
  /\ phase' = "running"
  /\ caller' = "server"
  /\ values' = Merged(values, {InitialState})
  /\ tasks' = {"triage"}
  /\ saved' = NoneSaved
  /\ outcome' = NotRun
  /\ lost' = {}

\* Bug variant: resume() begins at the entry point.
ResumeAtTriage ==
  /\ phase = "idle"
  /\ tasks # {}
  /\ ~values.written
  /\ phase' = "running"
  /\ caller' = "resume"
  /\ tasks' = {"triage"}
  /\ saved' = NoneSaved
  /\ UNCHANGED <<values, waiting, record, outcome, lost>>

\* resume() of a thread that stopped.  It returns at once if the writer ever
\* completed in this thread, or if nothing is left to do.  The server never
\* calls it.
Resume ==
  /\ phase = "idle"
  /\ tasks # {}
  /\ ~values.written
  /\ phase' = "running"
  /\ caller' = "resume"
  /\ UNCHANGED <<threadVars, waiting, record, outcome, lost>>

HowItEnded(u) ==
  IF "failed" \in DOMAIN u /\ u.failed THEN "failed" ELSE "ok"

\* Task n returns.  Those in flight when another raises may still.
RunNode(n) ==
  /\ phase \in {"running", "raising"}
  /\ n \in tasks \ DOMAIN saved
  /\ \E u \in Updates(n, values) :
       /\ saved' = [m \in DOMAIN saved \union {n} |-> IF m = n THEN u ELSE saved[m]]
       /\ outcome' = [outcome EXCEPT ![n] = HowItEnded(u)]
  /\ UNCHANGED <<values, tasks, phase, caller, waiting, record, lost>>

\* Task n raises: there is no language model to get.
Raise(n) ==
  /\ phase = "running"
  /\ n \in tasks \ DOMAIN saved
  /\ CallsGetLLM(n, values)
  /\ phase' = "raising"
  /\ UNCHANGED <<threadVars, caller, waiting, record, outcome, lost>>

\* Bug variant: the updates of a superstep stay behind in the next.
EndStepKeepingUpdates ==
  /\ phase = "running"
  /\ tasks # {}
  /\ tasks \subseteq DOMAIN saved
  /\ values' = Merged(values, {saved[n] : n \in tasks})
  /\ tasks' = UNION {Successors(n, values') : n \in tasks}
  /\ UNCHANGED <<saved, phase, caller, waiting, record, outcome, lost>>

\* The superstep ends.
EndStep ==
  /\ phase = "running"
  /\ tasks # {}
  /\ DOMAIN saved = tasks
  /\ values' = Merged(values, {saved[n] : n \in tasks})
  /\ tasks' = UNION {Successors(n, values') : n \in tasks}
  /\ saved' = NoneSaved
  /\ UNCHANGED <<phase, caller, waiting, record, outcome, lost>>

\* The stream is exhausted: the record gets the state, and its status from
\* failed_agents.  resume() only returns the state.
Finish ==
  /\ phase = "running"
  /\ tasks = {}
  /\ phase' = "idle"
  /\ record' = IF caller = "server"
                 THEN [status |-> IF values.failed THEN "failed" ELSE "completed",
                       report |-> values.report]
                 ELSE record
  /\ UNCHANGED <<threadVars, caller, waiting, outcome, lost>>

\* The exception reaches the handler in _run_pipeline, or resume()'s caller.
Fail ==
  /\ phase = "raising"
  /\ phase' = "idle"
  /\ record' = IF caller = "server" THEN [record EXCEPT !.status = "failed"]
                                    ELSE record
  /\ UNCHANGED <<threadVars, caller, waiting, outcome, lost>>

\* The process ends, at any moment, and starts again.  Threads are kept by a
\* MemorySaver and records in a dictionary: all is gone.
Restart ==
  /\ values' = InitialState
  /\ tasks' = {}
  /\ saved' = NoneSaved
  /\ phase' = "idle"
  /\ caller' = "server"
  /\ waiting' = 0
  /\ record' = NoRecord
  /\ outcome' = NotRun
  /\ lost' = IF tasks = {} THEN lost ELSE {n \in Nodes : outcome[n] # "none"}

RunStep ==
  \/ \E n \in Nodes : RunNode(n) \/ Raise(n)
  \/ EndStep
  \/ Finish
  \/ Fail

Next == Post \/ Start \/ Resume \/ RunStep \/ Restart

Spec == Init /\ [][Next]_vars

\* Fairness: a run goes on.  Language model, tools and stores return or raise.
FairSpec == Spec /\ WF_vars(RunStep)

-----------------------------------------------------------------------------
(***************************************************************************)
(* Properties                                                              *)
(***************************************************************************)

(***************************************************************************)
(* Fan-in: correlation runs when all three analyzers have ended in this     *)
(* run, well or not, or on the fast path when none was started, whatever    *)
(* was interrupted and resumed in between.                                  *)
(***************************************************************************)
JoinComplete ==
  "correlation" \in tasks =>
    \/ \A n \in Analyzers : outcome[n] # "none"
    \/ \A n \in Analyzers : outcome[n] = "none"

(***************************************************************************)
(* Within one process: a run that was interrupted by an exception does not  *)
(* repeat, when resume() takes it up, a node whose update was saved, even   *)
(* of a superstep that did not end; and no run takes a node twice.  That is *)
(* what a MemorySaver can do (graph.py:5, "same in-process resume"); what   *)
(* the texts say of a process that crashes is InvocationResumes below.      *)
(***************************************************************************)
NoRepeat ==
  [][\A n \in Nodes :
       n \in DOMAIN saved' \ DOMAIN saved => outcome[n] = "none"]_vars

(***************************************************************************)
(* A record never says "completed" of a run in which an agent failed, in    *)
(* any of its parallel branches, or which has no report.                    *)
(***************************************************************************)
StatusTells ==
  record.status = "completed" =>
    /\ record.report # "none"
    /\ \A n \in Nodes : outcome[n] # "failed"

(***************************************************************************)
(* The writer tells which signals this run had: "full" when all three       *)
(* analyzers succeeded in it, whatever earlier runs of the incident left    *)
(* in the state.                                                            *)
(***************************************************************************)
SignalsTold ==
  /\ outcome["postmortem_writer"] # "none"
  /\ "postmortem_writer" \notin tasks
  /\ values.completeness # "none"
  => (values.completeness = "full" <=>
        \A n \in Analyzers : outcome[n] = "ok")

(***************************************************************************)
(* Only what this run found out gets into the store of past incidents: a    *)
(* root cause was determined in it, with the findings of an analyzer.       *)
(***************************************************************************)
StoredQualified ==
  outcome["store_postmortem"] # "none" =>
    /\ outcome["root_cause_analysis"] = "ok"
    /\ \E n \in Analyzers : outcome[n] = "ok"

(***************************************************************************)
(* Every run ends.                                                          *)
(***************************************************************************)
RunsEnd == phase # "idle" ~> phase = "idle"

-----------------------------------------------------------------------------
(***************************************************************************)
(* What the repository says and the code does not do                       *)
(***************************************************************************)

(***************************************************************************)
(* README.md:172: if the process crashes in a run, "the next invocation     *)
(* with the same incident_id resumes from the saved checkpoint"; DESIGN.md  *)
(* of agents/pipeline, lines 515 to 519: "Pipeline resumes from             *)
(* log_correlator (not from triage)", "No duplicate LLM calls for completed *)
(* agents".  The next run of the id, then, does not begin with a node that  *)
(* had ended before the crash.                                              *)
(***************************************************************************)
InvocationResumes ==
  [][phase = "idle" /\ phase' = "running" => tasks' \intersect lost = {}]_vars
=============================================================================
