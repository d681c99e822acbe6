-------------------------- MODULE AgentServerProofs --------------------------
(***************************************************************************)
(* Proofs about the agent server: first the pipeline, then the event        *)
(* streams of its incidents, which are two modules without a name in        *)
(* common.                                                                  *)
(*                                                                          *)
(* Of Pipeline, for any number of requests, runs, resumptions and restarts: *)
(* what the properties say of a run that has ended follows from an          *)
(* invariant that says, in the middle of any run, which node has ended and  *)
(* which has not, and what of it is saved or merged.                        *)
(*                                                                          *)
(* Of IncidentServer, for any number of clients, records and runs, and      *)
(* queues and runs of any length: that nothing is lost and all is in order  *)
(* follows from an invariant on the way of an event from the run to the     *)
(* clients, which holds as long as no broadcast has had to wait.            *)
(***************************************************************************)
EXTENDS Pipeline, IncidentServer, SequenceTheorems, FiniteSetTheorems, TLAPS

\* The nodes that follow node n, however the state routes.
Ahead(n) ==
  IF n = "triage" THEN Nodes \ {"triage"}
  ELSE IF n = "parallel_fanout" THEN Nodes \ {"triage", "parallel_fanout"}
  ELSE IF n \in Analyzers
    THEN {"correlation", "root_cause_analysis", "postmortem_writer", "store_postmortem"}
  ELSE IF n = "correlation"
    THEN {"root_cause_analysis", "postmortem_writer", "store_postmortem"}
  ELSE IF n = "root_cause_analysis" THEN {"postmortem_writer", "store_postmortem"}
  ELSE IF n = "postmortem_writer" THEN {"store_postmortem"}
  ELSE {}

\* The analyzers run together, and every other node by itself.
Steps == {{}, Analyzers} \union {{n} : n \in Nodes \ Analyzers}

\* What is saved of a superstep is what its nodes returned in the state that
\* it has; the nodes that did not return, and all that come after, did not
\* run.
Progress ==
  /\ tasks \in Steps
  /\ \A n \in DOMAIN saved :
       saved[n] \in Updates(n, values) /\ outcome[n] = HowItEnded(saved[n])
  /\ \A n \in tasks :
       /\ n \notin DOMAIN saved => outcome[n] = "none"
       /\ \A m \in Ahead(n) : outcome[m] = "none"

\* A failed node is in the state, or about to be.
FailedTold ==
  \A n \in Nodes : outcome[n] = "failed" => values.failed \/ n \in DOMAIN saved

\* The state says of a node that it succeeded in this run only if it did, and
\* of an analyzer also if.
SuccessTold ==
  /\ values.confident => outcome["root_cause_analysis"] = "ok"
  /\ \A n \in Analyzers :
       /\ values[n] => outcome[n] = "ok"
       /\ outcome[n] = "ok" => values[n] \/ n \in DOMAIN saved

\* The store is reached on the conditions of the edge to it, which the state
\* still meets.  A run that has come to its end has a report.
Reported ==
  /\ "store_postmortem" \in tasks =>
       /\ values.report # "none"
       /\ values.confident
       /\ \E n \in Analyzers : values[n]
  /\ phase # "idle" /\ tasks = {} => values.report # "none"

\* A record says "completed" only between runs.
Completed == record.status = "completed" => phase = "idle" /\ tasks = {}

IInv ==
  /\ TypeOK
  /\ Progress
  /\ FailedTold
  /\ SuccessTold
  /\ Reported
  /\ Completed
  /\ JoinComplete
  /\ StatusTells
  /\ SignalsTold
  /\ StoredQualified
-----------------------------------------------------------------------------
(***************************************************************************)
(* What a node returns                                                     *)
(***************************************************************************)

\* A failure is told, beside what the node writes otherwise.
LEMMA FailureFacts ==
  ASSUME NEW w, NEW u \in Failure(w)
  PROVE  /\ DOMAIN u = DOMAIN w \union {"failed", "noTelemetry"}
         /\ u["failed"] = TRUE /\ u["noTelemetry"] \in BOOLEAN
         /\ \A k \in DOMAIN w \ {"failed", "noTelemetry"} : u[k] = w[k]
  BY DEF Failure

\* What every update is, whatever node returns it.
Proper(u) ==
  /\ DOMAIN u \subseteq Keys
  /\ \A k \in DOMAIN u \intersect Flags : u[k] \in BOOLEAN
  /\ HowItEnded(u) \in {"ok", "failed"}
  /\ HowItEnded(u) = "failed" <=> "failed" \in DOMAIN u /\ u["failed"]

\* Which node writes what.
Writes(n, u) ==
  /\ \A a \in Analyzers : a \in DOMAIN u <=> a = n
  /\ "confident" \in DOMAIN u <=> n = "root_cause_analysis"
  /\ "report" \in DOMAIN u <=> n = "postmortem_writer"
  /\ "completeness" \in DOMAIN u <=> n = "postmortem_writer"

\* How what is written depends on how the node ended.
Tells(n, v, u) ==
  /\ n \in Analyzers => (u[n] <=> HowItEnded(u) = "ok")
  /\ n = "root_cause_analysis" /\ u["confident"] => HowItEnded(u) = "ok"
  /\ n = "postmortem_writer" =>
       /\ u["report"] \in Reports \ {"none"}
       /\ u["completeness"] \in {"none", Completeness(v)}

\* Any update of any node is so.
LEMMA UpdateFacts ==
  ASSUME NEW n \in Nodes, NEW v, NEW u \in Updates(n, v)
  PROVE  Proper(u) /\ Writes(n, u) /\ Tells(n, v, u)
<1> USE DEF HowItEnded
<1>1. CASE n = "triage"
  <2>1. u \in TriageUpdates
    BY <1>1 DEF Updates
  <2>2. /\ DOMAIN u \subseteq {"confirmed", "sev3", "failed", "noTelemetry"}
        /\ \A k \in DOMAIN u : u[k] \in BOOLEAN
    <3>1. CASE u \in Failure(NotConfirmed)
      <4>1. /\ DOMAIN NotConfirmed = {"confirmed", "sev3"}
            /\ \A k \in DOMAIN NotConfirmed : NotConfirmed[k] = FALSE
        BY DEF NotConfirmed
      <4>2. QED
        BY <3>1, <4>1, FailureFacts
    <3>2. CASE u = [confirmed |-> FALSE, sev3 |-> FALSE, noTelemetry |-> TRUE]
      <4>1. /\ DOMAIN u = {"confirmed", "sev3", "noTelemetry"}
            /\ u["confirmed"] = FALSE /\ u["sev3"] = FALSE /\ u["noTelemetry"] = TRUE
        BY <3>2
      <4>2. QED
        BY <4>1
    <3>3. CASE \E b \in BOOLEAN : u = [confirmed |-> TRUE, sev3 |-> b]
      <4>1. /\ DOMAIN u = {"confirmed", "sev3"}
            /\ u["confirmed"] = TRUE /\ u["sev3"] \in BOOLEAN
        BY <3>3
      <4>2. QED
        BY <4>1
    <3>4. QED
      BY <2>1, <3>1, <3>2, <3>3 DEF TriageUpdates
  <2>3. Proper(u)
    BY <2>2 DEF Proper, Keys, Flags
  <2>4. Writes(n, u) /\ Tells(n, v, u)
    BY <1>1, <2>2 DEF Writes, Tells, Analyzers
  <2>5. QED
    BY <2>3, <2>4
<1>2. CASE n \in Analyzers
  <2>1. u \in AnalyzerUpdates(n)
    BY <1>2 DEF Updates, Analyzers
  <2>2. /\ n \in DOMAIN u /\ DOMAIN u \subseteq {n, "failed", "noTelemetry"}
        /\ \A k \in DOMAIN u : u[k] \in BOOLEAN
        /\ u[n] <=> HowItEnded(u) = "ok"
    <3>1. n \notin {"failed", "noTelemetry"}
      BY <1>2 DEF Analyzers
    <3>2. CASE u \in Failure([k \in {n} |-> FALSE])
      <4> DEFINE w == [k \in {n} |-> FALSE]
      <4>1. DOMAIN w = {n} /\ w[n] = FALSE
        OBVIOUS
      <4> HIDE DEF w
      <4>2. DOMAIN u = {n, "failed", "noTelemetry"} /\ u[n] = FALSE
        BY <3>1, <3>2, <4>1, FailureFacts DEF w
      <4>3. QED
        BY <3>2, <4>2, FailureFacts
    <3>3. CASE u = [k \in {n} |-> TRUE]
      BY <3>1, <3>3
    <3>4. QED
      BY <2>1, <3>2, <3>3 DEF AnalyzerUpdates
  <2>3. Proper(u)
    BY <1>2, <2>2 DEF Proper, Keys, Flags
  <2>4. Writes(n, u)
    BY <1>2, <2>2 DEF Writes, Analyzers
  <2>5. Tells(n, v, u)
    BY <1>2, <2>2 DEF Tells, Analyzers
  <2>6. QED
    BY <2>3, <2>4, <2>5
<1>3. CASE n = "correlation"
  <2>1. u \in CorrelationUpdates
    BY <1>3 DEF Updates, Analyzers
  <2>2. /\ DOMAIN u \subseteq {"failed", "noTelemetry"}
        /\ \A k \in DOMAIN u : u[k] \in BOOLEAN
    <3>1. CASE u \in Failure([failed |-> TRUE])
      <4> DEFINE w == [failed |-> TRUE]
      <4>1. DOMAIN w = {"failed"}
        OBVIOUS
      <4> HIDE DEF w
      <4>2. /\ DOMAIN u = DOMAIN w \union {"failed", "noTelemetry"}
            /\ u["failed"] = TRUE /\ u["noTelemetry"] \in BOOLEAN
        BY <3>1, FailureFacts DEF w
      <4>3. QED
        BY <4>1, <4>2
    <3>2. CASE u = [failed |-> FALSE]
      <4>1. DOMAIN u = {"failed"} /\ u["failed"] = FALSE
        BY <3>2
      <4>2. QED
        BY <4>1
    <3>3. QED
      BY <2>1, <3>1, <3>2 DEF CorrelationUpdates
  <2>3. Proper(u)
    BY <2>2 DEF Proper, Keys, Flags
  <2>4. Writes(n, u) /\ Tells(n, v, u)
    BY <1>3, <2>2 DEF Writes, Tells, Analyzers
  <2>5. QED
    BY <2>3, <2>4
<1>4. CASE n = "root_cause_analysis"
  <2>1. u \in RootCauseUpdates
    BY <1>4 DEF Updates, Analyzers
  <2>2. /\ "confident" \in DOMAIN u
        /\ DOMAIN u \subseteq {"confident", "failed", "noTelemetry"}
        /\ \A k \in DOMAIN u : u[k] \in BOOLEAN
        /\ u["confident"] => HowItEnded(u) = "ok"
    <3>1. CASE u \in Failure([confident |-> FALSE])
      <4>1. /\ DOMAIN [confident |-> FALSE] = {"confident"}
            /\ [confident |-> FALSE]["confident"] = FALSE
        OBVIOUS
      <4>2. DOMAIN u = {"confident", "failed", "noTelemetry"} /\ u["confident"] = FALSE
        BY <3>1, <4>1, FailureFacts
      <4>3. QED
        BY <3>1, <4>2, FailureFacts
    <3>2. CASE \E b \in BOOLEAN : u = [confident |-> b]
      BY <3>2
    <3>3. QED
      BY <2>1, <3>1, <3>2 DEF RootCauseUpdates
  <2>3. Proper(u)
    BY <2>2 DEF Proper, Keys, Flags
  <2>4. Writes(n, u) /\ Tells(n, v, u)
    BY <1>4, <2>2 DEF Writes, Tells, Analyzers
  <2>5. QED
    BY <2>3, <2>4
<1>5. CASE n = "postmortem_writer"
  <2>1. u \in WriterUpdates(v)
    BY <1>5 DEF Updates, Analyzers
  <2>2. /\ {"report", "completeness"} \subseteq DOMAIN u
        /\ DOMAIN u \subseteq {"report", "completeness", "written", "failed", "noTelemetry"}
        /\ \A k \in DOMAIN u \ {"report", "completeness"} : u[k] \in BOOLEAN
        /\ u["report"] \in Reports \ {"none"}
        /\ u["completeness"] \in {"none", Completeness(v)}
    <3>1. CASE u \in Failure([report |-> "fallback", completeness |-> Completeness(v)])
      <4> DEFINE w == [report |-> "fallback", completeness |-> Completeness(v)]
      <4>1. /\ DOMAIN w = {"report", "completeness"}
            /\ w["report"] = "fallback" /\ w["completeness"] = Completeness(v)
        OBVIOUS
      <4> HIDE DEF w
      <4>2. /\ DOMAIN u = DOMAIN w \union {"failed", "noTelemetry"}
            /\ \A k \in DOMAIN w \ {"failed", "noTelemetry"} : u[k] = w[k]
            /\ u["failed"] = TRUE /\ u["noTelemetry"] \in BOOLEAN
        BY <3>1, FailureFacts DEF w
      <4>3. u["report"] = "fallback" /\ u["completeness"] = Completeness(v)
        BY <4>1, <4>2
      <4>4. QED
        BY <4>1, <4>2, <4>3 DEF Reports
    <3>2. CASE \E r \in {"no data", "short", "long"}, c \in {"none", Completeness(v)} :
                 u = [report |-> r, completeness |-> c, written |-> TRUE]
      <4>1. PICK r \in {"no data", "short", "long"}, c \in {"none", Completeness(v)} :
              u = [report |-> r, completeness |-> c, written |-> TRUE]
        BY <3>2
      <4>2. /\ DOMAIN u = {"report", "completeness", "written"}
            /\ u["report"] = r /\ u["completeness"] = c /\ u["written"] = TRUE
        BY <4>1
      <4>3. QED
        BY <4>2 DEF Reports
    <3>3. QED
      BY <2>1, <3>1, <3>2 DEF WriterUpdates
  <2>3. Proper(u)
    BY <2>2 DEF Proper, Keys, Flags, Analyzers
  <2>4. Writes(n, u) /\ Tells(n, v, u)
    BY <1>5, <2>2 DEF Writes, Tells, Analyzers
  <2>5. QED
    BY <2>3, <2>4
<1>6. CASE n \in {"store_postmortem", "parallel_fanout"}
  <2>1. u \in StoreUpdates \/ u = NoUpdate
    BY <1>6 DEF Updates, Analyzers
  <2>2. /\ DOMAIN u \subseteq {"failed", "noTelemetry"}
        /\ \A k \in DOMAIN u : u[k] \in BOOLEAN
    <3>1. CASE \E b \in BOOLEAN : u = [noTelemetry |-> b]
      <4>1. DOMAIN u = {"noTelemetry"} /\ u["noTelemetry"] \in BOOLEAN
        BY <3>1
      <4>2. QED
        BY <4>1
    <3>2. CASE u = [failed |-> FALSE]
      <4>1. DOMAIN u = {"failed"} /\ u["failed"] = FALSE
        BY <3>2
      <4>2. QED
        BY <4>1
    <3>3. QED
      BY <2>1, <3>1, <3>2 DEF StoreUpdates, NoUpdate
  <2>3. Proper(u)
    BY <2>2 DEF Proper, Keys, Flags
  <2>4. Writes(n, u) /\ Tells(n, v, u)
    BY <1>6, <2>2 DEF Writes, Tells, Analyzers
  <2>5. QED
    BY <2>3, <2>4
<1>7. QED
  BY <1>1, <1>2, <1>3, <1>4, <1>5, <1>6 DEF Nodes
-----------------------------------------------------------------------------
(***************************************************************************)
(* The reducers                                                            *)
(***************************************************************************)

\* The keys stay, and what no update has keeps its value.
LEMMA MergedKeeps ==
  ASSUME NEW v, NEW us
  PROVE  /\ DOMAIN Merged(v, us) = DOMAIN v
         /\ \A k \in DOMAIN v :
              (\A u \in us : k \notin DOMAIN u) => Merged(v, us)[k] = v[k]
<1>1. \A k \in DOMAIN v : (\A u \in us : k \notin DOMAIN u) =>
         {u[k] : u \in {w \in us : k \in DOMAIN w}} = {}
  OBVIOUS
<1>2. QED
  BY <1>1 DEF Merged

\* An appended flag is up if it was or if an update has it up.
LEMMA MergedAppended ==
  ASSUME NEW v, NEW us, NEW k \in DOMAIN v \intersect Appended, v[k] \in BOOLEAN,
         \A u \in us : k \in DOMAIN u => u[k] \in BOOLEAN
  PROVE  /\ Merged(v, us)[k] \in BOOLEAN
         /\ Merged(v, us)[k] <=> v[k] \/ \E u \in us : k \in DOMAIN u /\ u[k]
<1> DEFINE writes == {u[k] : u \in {w \in us : k \in DOMAIN w}}
<1>1. TRUE \in writes <=> \E u \in us : k \in DOMAIN u /\ u[k]
  OBVIOUS
<1>2. Merged(v, us)[k] = IF writes = {} THEN v[k] ELSE v[k] \/ TRUE \in writes
  BY DEF Merged
<1>3. CASE writes = {}
  BY <1>1, <1>2, <1>3
<1>4. CASE writes # {}
  <2>1. Merged(v, us)[k] = (v[k] \/ TRUE \in writes)
    BY <1>2, <1>4
  <2>2. QED
    BY <1>1, <2>1
<1>5. QED
  BY <1>3, <1>4

\* Any other key has what was written, if all who wrote agree.
LEMMA MergedWritten ==
  ASSUME NEW v, NEW us, NEW k \in DOMAIN v \ Appended,
         NEW w \in us, k \in DOMAIN w,
         \A u \in us : k \in DOMAIN u => u[k] = w[k]
  PROVE  Merged(v, us)[k] = w[k]
<1> DEFINE writes == {u[k] : u \in {x \in us : k \in DOMAIN x}}
<1>1. writes = {w[k]}
  OBVIOUS
<1>2. (CHOOSE x \in writes : TRUE) = w[k]
  BY <1>1
<1>3. Merged(v, us)[k] = CHOOSE x \in writes : TRUE
  BY <1>1 DEF Merged
<1>4. QED
  BY <1>2, <1>3

\* Flags stay Boolean.
LEMMA MergedFlag ==
  ASSUME NEW v, NEW us, NEW k \in DOMAIN v, v[k] \in BOOLEAN,
         \A u \in us : k \in DOMAIN u => u[k] \in BOOLEAN
  PROVE  Merged(v, us)[k] \in BOOLEAN
<1>1. CASE k \in Appended
  BY <1>1, MergedAppended
<1>2. CASE k \notin Appended /\ \E u \in us : k \in DOMAIN u
  <2> DEFINE writes == {u[k] : u \in {w \in us : k \in DOMAIN w}}
  <2>1. writes # {} /\ \A x \in writes : x \in BOOLEAN
    BY <1>2
  <2>2. Merged(v, us)[k] = CHOOSE x \in writes : TRUE
    BY <1>2, <2>1 DEF Merged
  <2>3. (CHOOSE x \in writes : TRUE) \in writes
    BY <2>1
  <2>4. QED
    BY <2>1, <2>2, <2>3
<1>3. CASE \A u \in us : k \notin DOMAIN u
  BY <1>3, MergedKeeps
<1>4. QED
  BY <1>1, <1>2, <1>3
-----------------------------------------------------------------------------
(***************************************************************************)
(* The end of a superstep                                                  *)
(***************************************************************************)

\* What is saved of a node is a proper update of it that tells how it ended.
LEMMA SavedFacts ==
  ASSUME TypeOK, Progress, NEW n \in DOMAIN saved
  PROVE  /\ n \in Nodes
         /\ Proper(saved[n]) /\ Writes(n, saved[n]) /\ Tells(n, values, saved[n])
         /\ outcome[n] = HowItEnded(saved[n])
<1>1. n \in Nodes
  BY DEF TypeOK
<1>2. saved[n] \in Updates(n, values) /\ outcome[n] = HowItEnded(saved[n])
  BY DEF Progress
<1>3. QED
  BY <1>1, <1>2, UpdateFacts

\* The updates of the nodes that ended.
Saved == {saved[n] : n \in tasks}

\* The state after the superstep: which node failed is added, each analyzer
\* and root_cause_analysis say how they ended, the report is the writer's.
LEMMA EndStepState ==
  ASSUME TypeOK, Progress, EndStep
  PROVE  /\ DOMAIN values' = Keys
         /\ \A k \in Flags : values'[k] \in BOOLEAN
         /\ values'["failed"] <=> values["failed"] \/ \E n \in tasks : outcome[n] = "failed"
         /\ \A a \in Analyzers :
              values'[a] = IF a \in tasks THEN outcome[a] = "ok" ELSE values[a]
         /\ values'["confident"] \in BOOLEAN
         /\ IF "root_cause_analysis" \in tasks
              THEN values'["confident"] => outcome["root_cause_analysis"] = "ok"
              ELSE values'["confident"] = values["confident"]
         /\ IF "postmortem_writer" \in tasks
              THEN /\ values'["report"] \in Reports \ {"none"}
                   /\ values'["completeness"] \in {"none", Completeness(values)}
              ELSE /\ values'["report"] = values["report"]
                   /\ values'["completeness"] = values["completeness"]
<1>1. values' = Merged(values, Saved) /\ DOMAIN saved = tasks
  BY DEF EndStep, Saved
<1>2. \A n \in tasks :
        /\ n \in Nodes /\ saved[n] \in Saved
        /\ Proper(saved[n]) /\ Writes(n, saved[n]) /\ Tells(n, values, saved[n])
        /\ outcome[n] = HowItEnded(saved[n])
  BY <1>1, SavedFacts DEF Saved
<1>3. DOMAIN values = Keys
  BY DEF TypeOK
<1>4. DOMAIN values' = Keys
  BY <1>1, <1>3, MergedKeeps
<1>5. ASSUME NEW k \in Appended
      PROVE  /\ values'[k] \in BOOLEAN
             /\ values'[k] <=> values[k] \/ \E n \in tasks : k \in DOMAIN saved[n] /\ saved[n][k]
  <2>1. k \in DOMAIN values \intersect Appended /\ values[k] \in BOOLEAN /\ k \in Flags
    BY <1>3 DEF TypeOK, Appended, Keys, Flags
  <2>2. \A u \in Saved : k \in DOMAIN u => u[k] \in BOOLEAN
    BY <1>2, <2>1 DEF Proper, Saved
  <2>3. /\ Merged(values, Saved)[k] \in BOOLEAN
        /\ Merged(values, Saved)[k] <=> values[k] \/ \E u \in Saved : k \in DOMAIN u /\ u[k]
    BY <2>1, <2>2, MergedAppended
  <2>4. QED
    BY <1>1, <2>3 DEF Saved
<1>6. values'["failed"] <=> values["failed"] \/ \E n \in tasks : outcome[n] = "failed"
  BY <1>2, <1>5 DEF Appended, Proper
<1>7. ASSUME NEW k \in Keys \ Appended, \A n \in tasks : k \notin DOMAIN saved[n]
      PROVE  values'[k] = values[k]
  BY <1>1, <1>3, <1>7, MergedKeeps DEF Saved
<1>8. ASSUME NEW k \in Keys \ Appended, NEW n \in tasks, k \in DOMAIN saved[n],
             \A m \in tasks \ {n} : k \notin DOMAIN saved[m]
      PROVE  values'[k] = saved[n][k]
  <2>1. saved[n] \in Saved /\ k \in DOMAIN values \ Appended
    BY <1>2, <1>3
  <2>2. \A u \in Saved : k \in DOMAIN u => u[k] = saved[n][k]
    BY <1>8 DEF Saved
  <2>3. QED
    BY <1>1, <1>8, <2>1, <2>2, MergedWritten
<1>9. ASSUME NEW a \in Analyzers
      PROVE  values'[a] = IF a \in tasks THEN outcome[a] = "ok" ELSE values[a]
  <2>1. a \in Keys \ Appended
    BY DEF Keys, Flags, Appended, Analyzers
  <2>2. CASE a \in tasks
    <3>1. a \in DOMAIN saved[a] /\ \A m \in tasks \ {a} : a \notin DOMAIN saved[m]
      BY <1>2, <2>2 DEF Writes
    <3>2. values'[a] = saved[a][a]
      BY <1>8, <2>1, <2>2, <3>1
    <3>3. saved[a][a] \in BOOLEAN
      BY <1>2, <2>2, <3>1 DEF Proper, Flags
    <3>4. saved[a][a] <=> outcome[a] = "ok"
      BY <1>2, <2>2 DEF Tells
    <3>5. QED
      BY <2>2, <3>2, <3>3, <3>4
  <2>3. CASE a \notin tasks
    BY <1>2, <1>7, <2>1, <2>3 DEF Writes
  <2>4. QED
    BY <2>2, <2>3
<1>10. /\ values'["confident"] \in BOOLEAN
       /\ IF "root_cause_analysis" \in tasks
            THEN values'["confident"] => outcome["root_cause_analysis"] = "ok"
            ELSE values'["confident"] = values["confident"]
  <2>1. "confident" \in Keys \ Appended /\ "confident" \in Flags
    BY DEF Keys, Flags, Appended
  <2>2. CASE "root_cause_analysis" \in tasks
    <3> DEFINE n == "root_cause_analysis"
    <3>1. /\ "confident" \in DOMAIN saved[n]
          /\ \A m \in tasks \ {n} : "confident" \notin DOMAIN saved[m]
      BY <1>2, <2>2 DEF Writes
    <3>2. values'["confident"] = saved[n]["confident"]
      BY <1>8, <2>1, <2>2, <3>1
    <3>3. saved[n]["confident"] \in BOOLEAN
      BY <1>2, <2>1, <2>2, <3>1 DEF Proper
    <3>4. QED
      BY <1>2, <2>2, <3>2, <3>3 DEF Tells
  <2>3. CASE "root_cause_analysis" \notin tasks
    <3>1. values'["confident"] = values["confident"]
      BY <1>2, <1>7, <2>1, <2>3 DEF Writes
    <3>2. QED
      BY <2>1, <2>3, <3>1 DEF TypeOK
  <2>4. QED
    BY <2>2, <2>3
<1>11. IF "postmortem_writer" \in tasks
         THEN /\ values'["report"] \in Reports \ {"none"}
              /\ values'["completeness"] \in {"none", Completeness(values)}
         ELSE /\ values'["report"] = values["report"]
              /\ values'["completeness"] = values["completeness"]
  <2>1. {"report", "completeness"} \subseteq Keys \ Appended
    BY DEF Keys, Flags, Appended, Analyzers
  <2>2. CASE "postmortem_writer" \in tasks
    <3> DEFINE n == "postmortem_writer"
    <3>1. /\ {"report", "completeness"} \subseteq DOMAIN saved[n]
          /\ \A m \in tasks \ {n} : /\ "report" \notin DOMAIN saved[m]
                                    /\ "completeness" \notin DOMAIN saved[m]
      BY <1>2, <2>2 DEF Writes
    <3>2. /\ values'["report"] = saved[n]["report"]
          /\ values'["completeness"] = saved[n]["completeness"]
      BY <1>8, <2>1, <2>2, <3>1
    <3>3. QED
      BY <1>2, <2>2, <3>2 DEF Tells
  <2>3. CASE "postmortem_writer" \notin tasks
    BY <1>2, <1>7, <2>1, <2>3 DEF Writes
  <2>4. QED
    BY <2>2, <2>3
<1>12. ASSUME NEW k \in Flags
       PROVE  values'[k] \in BOOLEAN
  <2>1. k \in DOMAIN values /\ values[k] \in BOOLEAN
    BY DEF TypeOK, Keys
  <2>2. \A u \in Saved : k \in DOMAIN u => u[k] \in BOOLEAN
    BY <1>2 DEF Saved, Proper
  <2>3. QED
    BY <1>1, <2>1, <2>2, MergedFlag
<1>13. QED
  BY <1>4, <1>6, <1>9, <1>10, <1>11, <1>12

\* The next superstep, by the one that ends.
LEMMA EndStepTasks ==
  ASSUME TypeOK, Progress, EndStep
  PROVE  \/ /\ tasks = {"triage"}
            /\ tasks' \in {{"postmortem_writer"}, {"correlation"}, {"parallel_fanout"}}
         \/ tasks = {"parallel_fanout"} /\ tasks' = Analyzers
         \/ tasks = Analyzers /\ tasks' = {"correlation"}
         \/ tasks = {"correlation"} /\ tasks' = {"root_cause_analysis"}
         \/ tasks = {"root_cause_analysis"} /\ tasks' = {"postmortem_writer"}
         \/ /\ tasks = {"postmortem_writer"}
            /\ \/ tasks' = {}
               \/ /\ tasks' = {"store_postmortem"}
                  /\ values'["confident"]
                  /\ \E a \in Analyzers : values'[a]
         \/ tasks = {"store_postmortem"} /\ tasks' = {}
<1>1. tasks' = UNION {Successors(n, values') : n \in tasks} /\ tasks # {}
  BY DEF EndStep
<1>2. CASE tasks = Analyzers
  <2>1. \A n \in Analyzers : Successors(n, values') = {"correlation"}
    BY DEF Successors, Analyzers
  <2>2. "trace_analyzer" \in Analyzers
    BY DEF Analyzers
  <2>3. tasks' = {"correlation"}
    BY <1>1, <1>2, <2>1, <2>2
  <2>4. QED
    BY <1>2, <2>3
<1>3. CASE \E n \in Nodes \ Analyzers : tasks = {n}
  <2>1. PICK n \in Nodes \ Analyzers : tasks = {n}
    BY <1>3
  <2>2. tasks' = Successors(n, values')
    BY <1>1, <2>1
  <2>3. CASE n = "triage"
    BY <2>1, <2>2, <2>3 DEF Successors, RouteAfterTriage
  <2>4. CASE n = "postmortem_writer"
    BY <2>1, <2>2, <2>4 DEF Successors, RouteAfterPostmortem, Analyzers
  <2>5. CASE n = "parallel_fanout"
    BY <2>1, <2>2, <2>5 DEF Successors, FanOutToParallelAgents
  <2>6. CASE n \in {"correlation", "root_cause_analysis", "store_postmortem"}
    BY <2>1, <2>2, <2>6 DEF Successors, Analyzers
  <2>7. QED
    BY <2>3, <2>4, <2>5, <2>6 DEF Nodes
<1>4. QED
  BY <1>1, <1>2, <1>3 DEF Progress, Steps
-----------------------------------------------------------------------------
(***************************************************************************)
(* The invariant is inductive                                              *)
(***************************************************************************)

\* A state that a run begins with has no flag up but what is appended.
LEMMA StartState ==
  ASSUME TypeOK, Start
  PROVE  /\ DOMAIN values' = Keys
         /\ \A k \in Flags : values'[k] \in BOOLEAN
         /\ \A k \in Flags \ Appended : values'[k] = FALSE
         /\ values'["report"] = "none" /\ values'["completeness"] = "full"
<1>1. values' = Merged(values, {InitialState}) /\ DOMAIN values = Keys
  BY DEF Start, TypeOK
<1>2. /\ DOMAIN InitialState = Keys
      /\ \A k \in Flags : InitialState[k] = FALSE
      /\ InitialState["report"] = "none" /\ InitialState["completeness"] = "full"
  BY DEF InitialState, Keys, Flags, Analyzers
<1>3. \A k \in Keys \ Appended : values'[k] = InitialState[k]
  BY <1>1, <1>2, MergedWritten
<1>4. \A k \in Flags : k \in Keys /\ values[k] \in BOOLEAN
  BY DEF TypeOK, Keys
<1>5. \A k \in Flags : values'[k] \in BOOLEAN
  BY <1>1, <1>2, <1>4, MergedFlag
<1>6. {"report", "completeness"} \subseteq Keys \ Appended
  BY DEF Keys, Appended
<1>7. QED
  BY <1>1, <1>2, <1>3, <1>4, <1>5, <1>6, MergedKeeps

\* The initial states have the invariant.
LEMMA InitInvariant == Init => IInv
<1> SUFFICES ASSUME Init PROVE IInv
  OBVIOUS
<1>1. /\ DOMAIN values = Keys
      /\ \A k \in Flags : values[k] = FALSE
      /\ values["report"] = "none" /\ values["completeness"] = "full"
  BY DEF Init, InitialState, Keys, Flags, Analyzers
<1>2. /\ tasks = {} /\ DOMAIN saved = {} /\ phase = "idle" /\ waiting = 0
      /\ record = [status |-> "none", report |-> "none"]
      /\ outcome = [n \in Nodes |-> "none"] /\ caller = "server" /\ lost = {}
  BY DEF Init, NoneSaved, NotRun, NoRecord
<1>3. TypeOK
  <2>1. waiting \in 0 .. MaxWaiting
    BY <1>2, PipelineAssumption
  <2>2. values.report \in Reports /\ values.completeness \in {"full", "partial", "none"}
    BY <1>1 DEF Reports
  <2>3. record \in [status : {"none", "queued", "running", "completed", "failed"},
                    report : Reports]
    BY <1>2 DEF Reports
  <2>4. QED
    BY <1>1, <1>2, <2>1, <2>2, <2>3 DEF TypeOK
<1>4. Progress /\ FailedTold /\ Reported /\ Completed
  BY <1>2 DEF Progress, Steps, FailedTold, Reported, Completed
<1>5. SuccessTold
  BY <1>1, <1>2 DEF SuccessTold, Flags, Nodes
<1>6. JoinComplete /\ StatusTells /\ SignalsTold /\ StoredQualified
  BY <1>2 DEF JoinComplete, StatusTells, SignalsTold, StoredQualified, Nodes
<1>7. QED
  BY <1>3, <1>4, <1>5, <1>6 DEF IInv

\* A new record is not yet run.
LEMMA PostKeeps ==
  ASSUME IInv, Post
  PROVE  IInv'
<1>1. TypeOK'
  <2>1. waiting' \in 0 .. MaxWaiting
    BY PipelineAssumption DEF Post, IInv, TypeOK
  <2>2. record' \in [status : {"none", "queued", "running", "completed", "failed"},
                     report : Reports]
    BY DEF Post, Reports
  <2>3. QED
    BY <2>1, <2>2 DEF Post, IInv, TypeOK, threadVars
<1>2. record'.status = "queued"
  BY DEF Post
<1>3. QED
  BY <1>1, <1>2 DEF Post, threadVars, IInv, Progress, FailedTold, SuccessTold, Reported,
     Completed, JoinComplete, StatusTells, SignalsTold, StoredQualified

\* A run begins with nothing that has run.
LEMMA StartKeeps ==
  ASSUME IInv, Start
  PROVE  IInv'
<1>1. /\ tasks' = {"triage"} /\ DOMAIN saved' = {} /\ phase' = "running"
      /\ outcome' = [n \in Nodes |-> "none"] /\ caller' = "server" /\ lost' = {}
      /\ record' = [record EXCEPT !.status = "running"]
  BY DEF Start, NoneSaved, NotRun
<1>2. /\ DOMAIN values' = Keys
      /\ \A k \in Flags : values'[k] \in BOOLEAN
      /\ \A k \in Flags \ Appended : values'[k] = FALSE
      /\ values'["report"] = "none" /\ values'["completeness"] = "full"
  BY StartState DEF IInv
<1>3. record' \in [status : {"none", "queued", "running", "completed", "failed"},
                   report : Reports]
      /\ record'.status = "running"
  BY <1>1 DEF IInv, TypeOK
<1>4. TypeOK'
  <2>1. waiting' \in 0 .. MaxWaiting
    BY PipelineAssumption DEF Start, IInv, TypeOK
  <2>2. values'.report \in Reports /\ values'.completeness \in {"full", "partial", "none"}
    BY <1>2 DEF Reports
  <2>3. QED
    BY <1>1, <1>2, <1>3, <2>1, <2>2 DEF TypeOK, Nodes
<1>5. (Progress /\ FailedTold /\ Reported /\ Completed)'
  BY <1>1, <1>3 DEF Progress, Steps, FailedTold, Reported, Completed, Ahead, Nodes, Analyzers
<1>6. SuccessTold'
  <2>1. Analyzers \union {"confident"} \subseteq Flags \ Appended
    BY DEF Flags, Appended, Analyzers
  <2>2. QED
    BY <1>1, <1>2, <2>1 DEF SuccessTold, Nodes
<1>7. (JoinComplete /\ StatusTells /\ SignalsTold /\ StoredQualified)'
  BY <1>1, <1>3 DEF JoinComplete, StatusTells, SignalsTold, StoredQualified, Nodes
<1>8. QED
  BY <1>4, <1>5, <1>6, <1>7 DEF IInv

\* A run goes on with what the thread has.
LEMMA ResumeKeeps ==
  ASSUME IInv, Resume
  PROVE  IInv'
<1>1. /\ phase' = "running" /\ caller' = "resume" /\ tasks # {}
      /\ UNCHANGED <<values, tasks, saved, waiting, record, outcome, lost>>
  BY DEF Resume, threadVars
<1>2. TypeOK'
  BY <1>1 DEF IInv, TypeOK
<1>3. (Progress /\ FailedTold /\ SuccessTold /\ Reported /\ Completed)'
  BY <1>1 DEF IInv, Progress, FailedTold, SuccessTold, Reported, Completed
<1>4. (JoinComplete /\ StatusTells /\ SignalsTold /\ StoredQualified)'
  BY <1>1 DEF IInv, JoinComplete, StatusTells, SignalsTold, StoredQualified
<1>5. QED
  BY <1>2, <1>3, <1>4 DEF IInv

\* The nodes of a superstep are not ahead of each other.
LEMMA NotAhead ==
  ASSUME NEW s \in Steps, NEW n \in s, NEW m \in s
  PROVE  n \notin Ahead(m)
<1>1. CASE s = Analyzers
  BY <1>1 DEF Ahead, Analyzers
<1>2. CASE s # Analyzers
  <2>1. n = m /\ n \in Nodes \ Analyzers
    BY <1>2 DEF Steps
  <2>2. QED
    BY <2>1 DEF Ahead, Nodes
<1>3. QED
  BY <1>1, <1>2

\* A node that returns did not run before; its update tells how it ended.
LEMMA RunNodeKeeps ==
  ASSUME IInv, NEW n \in Nodes, RunNode(n)
  PROVE  IInv'
<1>1. /\ n \in tasks \ DOMAIN saved /\ phase \in {"running", "raising"}
      /\ UNCHANGED <<values, tasks, phase, caller, waiting, record, lost>>
  BY DEF RunNode
<1>2. PICK u \in Updates(n, values) :
        /\ saved' = [m \in DOMAIN saved \union {n} |-> IF m = n THEN u ELSE saved[m]]
        /\ outcome' = [outcome EXCEPT ![n] = HowItEnded(u)]
  BY DEF RunNode
<1>3. /\ DOMAIN saved' = DOMAIN saved \union {n}
      /\ saved'[n] = u
      /\ \A m \in DOMAIN saved : saved'[m] = saved[m]
  BY <1>1, <1>2
<1>4. HowItEnded(u) \in {"ok", "failed"}
  BY UpdateFacts DEF Proper
<1>5. /\ outcome' \in [Nodes -> {"none", "ok", "failed"}]
      /\ outcome'[n] = HowItEnded(u)
      /\ \A m \in Nodes \ {n} : outcome'[m] = outcome[m]
  BY <1>2, <1>4 DEF IInv, TypeOK
<1>6. outcome[n] = "none" /\ \A m \in Ahead(n) : outcome[m] = "none"
  BY <1>1 DEF IInv, Progress
<1>7. \A m \in tasks : n \notin Ahead(m)
  BY <1>1, NotAhead DEF IInv, Progress
<1>8. \A m \in tasks : Ahead(m) \subseteq Nodes
  BY DEF IInv, TypeOK, Ahead, Nodes, Analyzers
<1>9. TypeOK'
  BY <1>1, <1>3, <1>5 DEF IInv, TypeOK
<1>10. Progress'
  <2>1. tasks' \in Steps
    BY <1>1 DEF IInv, Progress
  <2>2. ASSUME NEW m \in DOMAIN saved'
        PROVE  saved'[m] \in Updates(m, values') /\ outcome'[m] = HowItEnded(saved'[m])
    <3>1. CASE m = n
      BY <1>1, <1>3, <1>5, <3>1
    <3>2. CASE m # n
      <4>1. m \in DOMAIN saved /\ m \in Nodes
        BY <1>3, <3>2 DEF IInv, TypeOK
      <4>2. saved[m] \in Updates(m, values) /\ outcome[m] = HowItEnded(saved[m])
        BY <4>1 DEF IInv, Progress
      <4>3. saved'[m] = saved[m] /\ outcome'[m] = outcome[m] /\ values' = values
        BY <1>1, <1>3, <1>5, <3>2, <4>1
      <4>4. QED
        BY <4>2, <4>3
    <3>3. QED
      BY <3>1, <3>2
  <2>3. ASSUME NEW m \in tasks
        PROVE  /\ m \notin DOMAIN saved' => outcome'[m] = "none"
               /\ \A k \in Ahead(m) : outcome'[k] = "none"
    BY <1>3, <1>5, <1>7, <1>8 DEF IInv, TypeOK, Progress
  <2>4. QED
    BY <1>1, <2>1, <2>2, <2>3 DEF Progress
<1>11. FailedTold'
  BY <1>1, <1>3, <1>5 DEF IInv, FailedTold
<1>12. SuccessTold'
  BY <1>1, <1>3, <1>5, <1>6 DEF IInv, SuccessTold, Nodes
<1>13. (Reported /\ Completed)'
  BY <1>1 DEF IInv, Reported, Completed
<1>14. JoinComplete'
  <2>1. "correlation" \in tasks => n = "correlation"
    BY <1>1 DEF IInv, Progress, Steps, Analyzers
  <2>2. "correlation" \in tasks => \A a \in Analyzers : outcome'[a] = outcome[a]
    BY <1>5, <2>1 DEF Analyzers, Nodes
  <2>3. QED
    BY <1>1, <2>2 DEF IInv, JoinComplete
<1>15. StatusTells'
  BY <1>1 DEF IInv, Completed, StatusTells
<1>16. SignalsTold'
  <2>1. CASE n = "postmortem_writer"
    BY <1>1, <2>1 DEF SignalsTold
  <2>2. CASE n \in Nodes \ {"postmortem_writer", "store_postmortem"}
    <3>1. "postmortem_writer" \in Ahead(n)
      BY <2>2 DEF Ahead, Nodes, Analyzers
    <3>2. outcome'["postmortem_writer"] = "none"
      BY <1>5, <1>6, <2>2, <3>1 DEF Nodes
    <3>3. QED
      BY <3>2 DEF SignalsTold
  <2>3. CASE n = "store_postmortem"
    BY <1>1, <1>5, <2>3 DEF IInv, SignalsTold, Nodes, Analyzers
  <2>4. QED
    BY <2>1, <2>2, <2>3
<1>17. StoredQualified'
  <2>1. CASE n = "store_postmortem"
    <3>1. values["confident"] /\ \E a \in Analyzers : values[a]
      BY <1>1, <2>1 DEF IInv, Reported
    <3>2. outcome["root_cause_analysis"] = "ok" /\ \E a \in Analyzers : outcome[a] = "ok"
      BY <3>1 DEF IInv, SuccessTold
    <3>3. QED
      BY <1>5, <2>1, <3>2 DEF StoredQualified, Nodes, Analyzers
  <2>2. CASE n # "store_postmortem"
    <3>1. "store_postmortem" \in Ahead(n)
      BY <2>2 DEF Ahead, Nodes, Analyzers
    <3>2. outcome'["store_postmortem"] = "none"
      BY <1>5, <1>6, <2>2, <3>1 DEF Nodes
    <3>3. QED
      BY <3>2 DEF StoredQualified
  <2>3. QED
    BY <2>1, <2>2
<1>18. QED
  BY <1>9, <1>10, <1>11, <1>12, <1>13, <1>14, <1>15, <1>16, <1>17 DEF IInv

\* A node that raises leaves the thread as it is.
LEMMA RaiseKeeps ==
  ASSUME IInv, NEW n \in Nodes, Raise(n)
  PROVE  IInv'
<1>1. /\ phase = "running" /\ phase' = "raising" /\ tasks # {}
      /\ UNCHANGED <<values, tasks, saved, caller, waiting, record, outcome, lost>>
  BY DEF Raise, threadVars
<1>2. TypeOK'
  BY <1>1 DEF IInv, TypeOK
<1>3. (Progress /\ FailedTold /\ SuccessTold /\ Reported /\ Completed)'
  BY <1>1 DEF IInv, Progress, FailedTold, SuccessTold, Reported, Completed
<1>4. (JoinComplete /\ StatusTells /\ SignalsTold /\ StoredQualified)'
  BY <1>1 DEF IInv, JoinComplete, StatusTells, SignalsTold, StoredQualified
<1>5. QED
  BY <1>2, <1>3, <1>4 DEF IInv

\* The next superstep has what comes after the one that ends.
LEMMA EndStepAhead ==
  ASSUME TypeOK, Progress, EndStep
  PROVE  /\ tasks' \in Steps /\ tasks' \subseteq Nodes
         /\ \A m \in tasks' : \E n \in tasks : m \in Ahead(n) /\ Ahead(m) \subseteq Ahead(n)
<1>1. CASE tasks = {"triage"}
  BY <1>1, EndStepTasks DEF Steps, Ahead, Nodes, Analyzers
<1>2. CASE tasks = {"parallel_fanout"}
  BY <1>2, EndStepTasks DEF Steps, Ahead, Nodes, Analyzers
<1>3. CASE tasks = Analyzers
  BY <1>3, EndStepTasks DEF Steps, Ahead, Nodes, Analyzers
<1>4. CASE tasks \in {{"correlation"}, {"root_cause_analysis"}}
  BY <1>4, EndStepTasks DEF Steps, Ahead, Nodes, Analyzers
<1>5. CASE tasks \in {{"postmortem_writer"}, {"store_postmortem"}}
  BY <1>5, EndStepTasks DEF Steps, Ahead, Nodes, Analyzers
<1>6. QED
  BY <1>1, <1>2, <1>3, <1>4, <1>5, EndStepTasks

\* A superstep ends with all that its nodes returned in the state.
LEMMA EndStepKeeps ==
  ASSUME IInv, EndStep
  PROVE  IInv'
<1>1. /\ phase = "running" /\ tasks # {} /\ DOMAIN saved = tasks /\ DOMAIN saved' = {}
      /\ UNCHANGED <<phase, caller, waiting, record, outcome, lost>>
  BY DEF EndStep, NoneSaved
<1>2. TypeOK /\ Progress
  BY DEF IInv
<1>3. \A n \in tasks :
        /\ n \in Nodes /\ outcome[n] \in {"ok", "failed"}
        /\ \A m \in Ahead(n) : outcome[m] = "none"
  BY <1>1, <1>2, SavedFacts DEF Proper, Progress
<1>4. Completeness(values) \in {"full", "partial"}
  BY DEF Completeness
<1>5. TypeOK'
  <2>1. values'.report \in Reports /\ values'.completeness \in {"full", "partial", "none"}
    BY <1>2, <1>4, EndStepState DEF TypeOK
  <2>2. DOMAIN values' = Keys /\ \A k \in Flags : values'[k] \in BOOLEAN
    BY <1>2, EndStepState
  <2>3. tasks' \subseteq Nodes /\ DOMAIN saved' \subseteq tasks'
    BY <1>1, <1>2, EndStepAhead
  <2>4. QED
    BY <1>1, <1>2, <2>1, <2>2, <2>3 DEF TypeOK
<1>6. Progress'
  <2>1. \A m \in tasks' : outcome[m] = "none" /\ \A k \in Ahead(m) : outcome[k] = "none"
    BY <1>2, <1>3, EndStepAhead
  <2>2. QED
    BY <1>1, <1>2, <2>1, EndStepAhead DEF Progress
<1>7. FailedTold'
  BY <1>1, <1>2, EndStepState DEF IInv, FailedTold
<1>8. SuccessTold'
  <2>1. values'["confident"] => outcome["root_cause_analysis"] = "ok"
    BY <1>2, EndStepState DEF IInv, SuccessTold
  <2>2. ASSUME NEW a \in Analyzers
        PROVE  values'[a] <=> outcome[a] = "ok"
    <3>1. values'[a] = IF a \in tasks THEN outcome[a] = "ok" ELSE values[a]
      BY <1>2, EndStepState
    <3>2. CASE a \in tasks
      BY <3>1, <3>2
    <3>3. CASE a \notin tasks
      BY <1>1, <3>1, <3>3 DEF IInv, SuccessTold
    <3>4. QED
      BY <3>2, <3>3
  <2>3. QED
    BY <1>1, <2>1, <2>2 DEF SuccessTold
<1>9. Reported'
  <2>1. CASE tasks = {"postmortem_writer"}
    <3>1. values'["report"] # "none"
      BY <1>2, <2>1, EndStepState
    <3>2. "store_postmortem" \in tasks' =>
            values'["confident"] /\ \E a \in Analyzers : values'[a]
      BY <1>2, <2>1, EndStepTasks DEF Analyzers
    <3>3. QED
      BY <3>1, <3>2 DEF Reported
  <2>2. CASE tasks = {"store_postmortem"}
    <3>1. tasks' = {}
      BY <1>2, <2>2, EndStepTasks DEF Analyzers
    <3>2. values'["report"] = values["report"] /\ values["report"] # "none"
      BY <1>2, <2>2, EndStepState DEF IInv, Reported
    <3>3. QED
      BY <3>1, <3>2 DEF Reported
  <2>3. CASE tasks \notin {{"postmortem_writer"}, {"store_postmortem"}}
    <3>1. tasks' # {} /\ "store_postmortem" \notin tasks'
      BY <1>2, <2>3, EndStepTasks DEF Analyzers
    <3>2. QED
      BY <3>1 DEF Reported
  <2>4. QED
    BY <2>1, <2>2, <2>3
<1>10. (Completed /\ StatusTells)'
  BY <1>1 DEF IInv, Completed, StatusTells
<1>11. JoinComplete'
  <2>1. CASE tasks = Analyzers
    BY <1>1, <1>3, <2>1 DEF JoinComplete
  <2>2. CASE tasks = {"triage"}
    BY <1>1, <1>3, <2>2 DEF JoinComplete, Ahead, Nodes, Analyzers
  <2>3. CASE tasks # Analyzers /\ tasks # {"triage"}
    <3>1. "correlation" \notin tasks'
      BY <1>2, <2>3, EndStepTasks DEF Analyzers
    <3>2. QED
      BY <3>1 DEF JoinComplete
  <2>4. QED
    BY <2>1, <2>2, <2>3
<1>12. SignalsTold'
  <2>1. CASE tasks = {"postmortem_writer"}
    <3>1. \A a \in Analyzers : values[a] <=> outcome[a] = "ok"
      BY <1>1, <2>1 DEF IInv, SuccessTold, Analyzers
    <3>2. values'["completeness"] \in {"none", Completeness(values)}
      BY <1>2, <2>1, EndStepState
    <3>3. Completeness(values) = "full" <=> \A a \in Analyzers : outcome[a] = "ok"
      BY <3>1 DEF Completeness
    <3>4. QED
      BY <1>1, <3>2, <3>3 DEF SignalsTold
  <2>2. CASE tasks = {"store_postmortem"}
    <3>1. values'["completeness"] = values["completeness"]
      BY <1>2, <2>2, EndStepState
    <3>2. QED
      BY <1>1, <2>2, <3>1 DEF IInv, SignalsTold
  <2>3. CASE tasks \notin {{"postmortem_writer"}, {"store_postmortem"}}
    <3>1. PICK n \in tasks : n \in Nodes \ {"postmortem_writer", "store_postmortem"}
      BY <1>1, <1>2, <2>3 DEF Progress, Steps, Nodes, Analyzers
    <3>2. "postmortem_writer" \in Ahead(n)
      BY <3>1 DEF Ahead, Nodes, Analyzers
    <3>3. outcome'["postmortem_writer"] = "none"
      BY <1>1, <1>3, <3>2
    <3>4. QED
      BY <3>3 DEF SignalsTold
  <2>4. QED
    BY <2>1, <2>2, <2>3
<1>13. StoredQualified'
  BY <1>1 DEF IInv, StoredQualified
<1>14. QED
  BY <1>5, <1>6, <1>7, <1>8, <1>9, <1>10, <1>11, <1>12, <1>13 DEF IInv

\* The record gets the state of a run that is at its end.
LEMMA FinishKeeps ==
  ASSUME IInv, Finish
  PROVE  IInv'
<1>1. /\ phase = "running" /\ phase' = "idle" /\ tasks = {}
      /\ UNCHANGED <<values, tasks, saved, caller, waiting, outcome, lost>>
  BY DEF Finish, threadVars
<1>2. record' = IF caller = "server"
                  THEN [status |-> IF values.failed THEN "failed" ELSE "completed",
                        report |-> values.report]
                  ELSE record
  BY DEF Finish
<1>3. record.status # "completed"
  BY <1>1 DEF IInv, Completed
<1>4. TypeOK'
  <2>1. values.report \in Reports
    BY DEF IInv, TypeOK
  <2>2. record' \in [status : {"none", "queued", "running", "completed", "failed"},
                     report : Reports]
    BY <1>2, <2>1 DEF IInv, TypeOK
  <2>3. QED
    BY <1>1, <2>2 DEF IInv, TypeOK
<1>5. (Progress /\ FailedTold /\ SuccessTold /\ Reported /\ Completed)'
  BY <1>1 DEF IInv, Progress, FailedTold, SuccessTold, Reported, Completed
<1>6. StatusTells'
  <2>1. values.report # "none"
    BY <1>1 DEF IInv, Reported
  <2>2. ~values.failed => \A n \in Nodes : outcome[n] # "failed"
    BY <1>1 DEF IInv, TypeOK, FailedTold
  <2>3. record'.status = "completed" =>
          ~values.failed /\ record'.report = values.report
    BY <1>2, <1>3
  <2>4. QED
    BY <1>1, <2>1, <2>2, <2>3 DEF StatusTells
<1>7. (JoinComplete /\ SignalsTold /\ StoredQualified)'
  BY <1>1 DEF IInv, JoinComplete, SignalsTold, StoredQualified
<1>8. QED
  BY <1>4, <1>5, <1>6, <1>7 DEF IInv

\* A run that raised leaves the thread as it is, and its record says so.
LEMMA FailKeeps ==
  ASSUME IInv, Fail
  PROVE  IInv'
<1>1. /\ phase = "raising" /\ phase' = "idle"
      /\ UNCHANGED <<values, tasks, saved, caller, waiting, outcome, lost>>
  BY DEF Fail, threadVars
<1>2. record' = IF caller = "server" THEN [record EXCEPT !.status = "failed"] ELSE record
  BY DEF Fail
<1>3. record'.status # "completed"
  BY <1>1, <1>2 DEF IInv, TypeOK, Completed
<1>4. TypeOK'
  <2>1. record' \in [status : {"none", "queued", "running", "completed", "failed"},
                     report : Reports]
    BY <1>2 DEF IInv, TypeOK
  <2>2. QED
    BY <1>1, <2>1 DEF IInv, TypeOK
<1>5. (Progress /\ FailedTold /\ SuccessTold /\ Reported /\ Completed)'
  BY <1>1, <1>3 DEF IInv, Progress, FailedTold, SuccessTold, Reported, Completed
<1>6. (JoinComplete /\ StatusTells /\ SignalsTold /\ StoredQualified)'
  BY <1>1, <1>3 DEF IInv, JoinComplete, StatusTells, SignalsTold, StoredQualified
<1>7. QED
  BY <1>4, <1>5, <1>6 DEF IInv

\* A process that starts again has what the first one had.
LEMMA RestartKeeps ==
  ASSUME IInv, Restart
  PROVE  IInv'
<1>1. /\ DOMAIN values' = Keys
      /\ \A k \in Flags : values'[k] = FALSE
      /\ values'["report"] = "none" /\ values'["completeness"] = "full"
  BY DEF Restart, InitialState, Keys, Flags, Analyzers
<1>2. /\ tasks' = {} /\ DOMAIN saved' = {} /\ phase' = "idle" /\ waiting' = 0
      /\ record' = [status |-> "none", report |-> "none"]
      /\ outcome' = [n \in Nodes |-> "none"] /\ caller' = "server"
  BY DEF Restart, NoneSaved, NotRun, NoRecord
<1>3. TypeOK'
  <2>1. waiting' \in 0 .. MaxWaiting
    BY <1>2, PipelineAssumption
  <2>2. values'.report \in Reports /\ values'.completeness \in {"full", "partial", "none"}
    BY <1>1 DEF Reports
  <2>3. record' \in [status : {"none", "queued", "running", "completed", "failed"},
                     report : Reports]
    BY <1>2 DEF Reports
  <2>4. lost' \subseteq Nodes
    BY DEF Restart, IInv, TypeOK
  <2>5. QED
    BY <1>1, <1>2, <2>1, <2>2, <2>3, <2>4 DEF TypeOK
<1>4. (Progress /\ FailedTold /\ Reported /\ Completed)'
  BY <1>2 DEF Progress, Steps, FailedTold, Reported, Completed
<1>5. SuccessTold'
  BY <1>1, <1>2 DEF SuccessTold, Flags, Nodes
<1>6. (JoinComplete /\ StatusTells /\ SignalsTold /\ StoredQualified)'
  BY <1>2 DEF JoinComplete, StatusTells, SignalsTold, StoredQualified, Nodes
<1>7. QED
  BY <1>3, <1>4, <1>5, <1>6 DEF IInv

\* Every step keeps the invariant.
LEMMA NextInvariant == IInv /\ [Next]_vars => IInv'
<1> SUFFICES ASSUME IInv, [Next]_vars PROVE IInv'
  OBVIOUS
<1>1. CASE Post
  BY <1>1, PostKeeps
<1>2. CASE Start
  BY <1>2, StartKeeps
<1>3. CASE Resume
  BY <1>3, ResumeKeeps
<1>4. CASE \E n \in Nodes : RunNode(n)
  BY <1>4, RunNodeKeeps
<1>5. CASE \E n \in Nodes : Raise(n)
  BY <1>5, RaiseKeeps
<1>6. CASE EndStep
  BY <1>6, EndStepKeeps
<1>7. CASE Finish
  BY <1>7, FinishKeeps
<1>8. CASE Fail
  BY <1>8, FailKeeps
<1>9. CASE Restart
  BY <1>9, RestartKeeps
<1>10. CASE UNCHANGED vars
  <2>1. TypeOK'
    BY <1>10 DEF IInv, TypeOK, vars, threadVars
  <2>2. (Progress /\ FailedTold /\ SuccessTold /\ Reported /\ Completed)'
    BY <1>10 DEF IInv, Progress, FailedTold, SuccessTold, Reported, Completed, vars,
       threadVars
  <2>3. (JoinComplete /\ StatusTells /\ SignalsTold /\ StoredQualified)'
    BY <1>10 DEF IInv, JoinComplete, StatusTells, SignalsTold, StoredQualified, vars,
       threadVars
  <2>4. QED
    BY <2>1, <2>2, <2>3 DEF IInv
<1>11. QED
  BY <1>1, <1>2, <1>3, <1>4, <1>5, <1>6, <1>7, <1>8, <1>9, <1>10 DEF Next, RunStep

\* The invariant holds in every reachable state.
LEMMA PipelineInvariant == Spec => []IInv
  BY InitInvariant, NextInvariant, PTL DEF Spec
-----------------------------------------------------------------------------
(***************************************************************************)
(* What is proved of every run of the pipeline                             *)
(***************************************************************************)

(***************************************************************************)
(* Reducers and edges keep the state of the thread, what is saved of the    *)
(* superstep and the record within their types.                             *)
(***************************************************************************)
THEOREM TypeCorrect == Spec => []TypeOK
<1>1. IInv => TypeOK
  BY DEF IInv
<1>2. QED
  BY <1>1, PipelineInvariant, PTL

(***************************************************************************)
(* Correlation never runs on the findings of some of the analyzers: the     *)
(* fan-in waits for all three, and after an interruption still does.        *)
(***************************************************************************)
THEOREM JoinIsComplete == Spec => []JoinComplete
<1>1. IInv => JoinComplete
  BY DEF IInv
<1>2. QED
  BY <1>1, PipelineInvariant, PTL

(***************************************************************************)
(* Within one process no node returns twice in a run, however often the run *)
(* raises and is resumed.                                                   *)
(***************************************************************************)
THEOREM NothingRepeats == Spec => NoRepeat
<1>1. IInv /\ [Next]_vars =>
        [\A n \in Nodes : n \in DOMAIN saved' \ DOMAIN saved => outcome[n] = "none"]_vars
  <2> SUFFICES ASSUME IInv, Next, NEW n \in Nodes, n \in DOMAIN saved' \ DOMAIN saved
               PROVE  outcome[n] = "none"
    OBVIOUS
  <2>1. \E m \in Nodes : RunNode(m)
    BY DEF Next, RunStep, Post, Start, Resume, Raise, EndStep, Finish, Fail, Restart,
       threadVars, NoneSaved
  <2>2. n \in tasks
    BY <2>1 DEF RunNode
  <2>3. QED
    BY <2>2 DEF IInv, Progress
<1>2. QED
  BY <1>1, PipelineInvariant, PTL DEF Spec, NoRepeat

(***************************************************************************)
(* A record that says "completed" is of a run that has a report and in      *)
(* which no agent failed: the failures of parallel branches add up.         *)
(***************************************************************************)
THEOREM StatusIsTrue == Spec => []StatusTells
<1>1. IInv => StatusTells
  BY DEF IInv
<1>2. QED
  BY <1>1, PipelineInvariant, PTL

(***************************************************************************)
(* The signals that the writer names are those of this run, though the      *)
(* state of the thread outlives it.                                         *)
(***************************************************************************)
THEOREM SignalsAreTold == Spec => []SignalsTold
<1>1. IInv => SignalsTold
  BY DEF IInv
<1>2. QED
  BY <1>1, PipelineInvariant, PTL

(***************************************************************************)
(* What is stored has a root cause and an analyzer's findings of this run.  *)
(***************************************************************************)
THEOREM StoreQualified == Spec => []StoredQualified
<1>1. IInv => StoredQualified
  BY DEF IInv
<1>2. QED
  BY <1>1, PipelineInvariant, PTL

-----------------------------------------------------------------------------
(***************************************************************************)
(* The event streams                                                       *)
(***************************************************************************)

Ascending(s) == \A i, j \in DOMAIN s : i < j => Before(s[i], s[j])

\* The queue of a stream that is open, or was left before it began, is in the
\* list of its record, and in no other.
Registered ==
  /\ \A c \in Clients :
       /\ stage[c] = "none" <=> recordOf[c] = 0
       /\ stage[c] \in {"subscribed", "replaying", "live", "lost"} =>
            c \in ToSet(subscribers[recordOf[c]])
  /\ \A r \in DOMAIN subscribers : \A c \in ToSet(subscribers[r]) : recordOf[c] = r

\* Runs are numbered as they come, and each has its events in order: in the
\* timelines, in the broadcasts yet to begin, and from the queues to these.
InSequence ==
  /\ \A r \in DOMAIN timeline :
       /\ Ascending(timeline[r])
       /\ \A e \in ToSet(timeline[r]) : e.run <= ran
  /\ \A i, j \in DOMAIN broadcasts :
       i < j => Before(broadcasts[i].event, broadcasts[j].event)
  /\ \A b \in ToSet(broadcasts) : b.event.run <= ran
  /\ \A c \in Clients :
       /\ Ascending(queue[c])
       /\ \A e \in ToSet(queue[c]) : e.run <= ran
       /\ \A e \in ToSet(queue[c]), b \in ToSet(broadcasts) : Before(e, b.event)
       /\ \A e \in ToSet(received[c]) : e.run <= ran

\* A step on its way to a client is in the timeline of the client's record.
OnTimeline ==
  /\ \A b \in ToSet(broadcasts) :
       b.event.type # "pipeline_failed" => b.event \in ToSet(timeline[b.record])
  /\ \A c \in Clients : \A e \in ToSet(queue[c]) :
       e.type # "pipeline_failed" => e \in ToSet(timeline[recordOf[c]])

\* Up to the end of the replay a client has what was replayed of the timeline.
Prefix ==
  \A c \in Clients :
    /\ stage[c] = "none" => ToSet(queue[c]) = {}
    /\ stage[c] \in {"none", "subscribed"} => replayed[c] = 0
    /\ stage[c] \in {"none", "subscribed", "replaying"} => Len(received[c]) = replayed[c]
    /\ stage[c] = "replaying" =>
         /\ replayed[c] <= Len(timeline[recordOf[c]])
         /\ \A k \in 1 .. replayed[c] : received[c][k] = timeline[recordOf[c]][k]

\* What can still be sent to client c.
Coming(c, e) ==
  e \in ToSet(queue[c]) \/ [record |-> recordOf[c], event |-> e] \in ToSet(broadcasts)

\* A step that comes to client c after a later one was there before it.
NothingLate ==
  \A c \in Clients : stage[c] = "live" =>
    \A e \in Event : Coming(c, e) /\ e.type # "pipeline_failed" =>
      \A i \in DOMAIN received[c] :
        Before(e, received[c][i]) => \E k \in 1 .. i - 1 : received[c][k] = e

\* The end of a run is its last event.
Ends ==
  /\ \A b \in ToSet(broadcasts) : EndsStream(b.event) => b.event.at = StepsPerRun + 1
  /\ \A c \in Clients :
       /\ \A e \in ToSet(queue[c]) : EndsStream(e) => e.at = StepsPerRun + 1
       /\ stage[c] = "ended" => received[c] # <<>>

\* Unless a broadcast had to wait: then all of this may be lost.
Flow ==
  /\ putting = {}
  /\ InSequence
  /\ OnTimeline
  /\ Prefix
  /\ NothingLate
  /\ Ends
  /\ NothingMissed
  /\ InOrder
  /\ EndsComplete

ServerIInv == ServerTypeOK /\ Registered /\ (~waited => Flow)
-----------------------------------------------------------------------------
(***************************************************************************)
(* Sequences                                                               *)
(***************************************************************************)

\* One more element.
LEMMA AppendFacts ==
  ASSUME NEW S, NEW s \in Seq(S), NEW e \in S
  PROVE  /\ Append(s, e) \in Seq(S)
         /\ Len(Append(s, e)) = Len(s) + 1 /\ DOMAIN Append(s, e) = 1 .. Len(s) + 1
         /\ \A i \in DOMAIN s : Append(s, e)[i] = s[i]
         /\ Append(s, e)[Len(s) + 1] = e
         /\ ToSet(Append(s, e)) = ToSet(s) \union {e}
<1>1. /\ Append(s, e) \in Seq(S)
      /\ Len(Append(s, e)) = Len(s) + 1 /\ DOMAIN Append(s, e) = 1 .. Len(s) + 1
      /\ \A i \in DOMAIN s : Append(s, e)[i] = s[i]
      /\ Append(s, e)[Len(s) + 1] = e
  OBVIOUS
<1>2. Len(s) \in Nat /\ DOMAIN s = 1 .. Len(s)
  OBVIOUS
<1>3. \A i \in 1 .. Len(s) + 1 : i \in DOMAIN s \/ i = Len(s) + 1
  BY <1>2
<1>4. ToSet(Append(s, e)) = ToSet(s) \union {e}
  BY <1>1, <1>2, <1>3 DEF ToSet
<1>5. QED
  BY <1>1, <1>4

\* The first element and the others.
LEMMA TailFacts ==
  ASSUME NEW S, NEW s \in Seq(S), s # <<>>
  PROVE  /\ Head(s) \in S /\ Tail(s) \in Seq(S)
         /\ Len(Tail(s)) = Len(s) - 1 /\ Len(s) > 0
         /\ \A i \in DOMAIN Tail(s) : i + 1 \in DOMAIN s /\ Tail(s)[i] = s[i + 1]
         /\ Head(s) = s[1] /\ 1 \in DOMAIN s
         /\ ToSet(s) = ToSet(Tail(s)) \union {Head(s)}
<1>1. /\ Head(s) \in S /\ Tail(s) \in Seq(S) /\ Len(s) > 0 /\ Len(s) \in Nat
      /\ Len(Tail(s)) = Len(s) - 1 /\ Head(s) = s[1]
      /\ DOMAIN s = 1 .. Len(s) /\ DOMAIN Tail(s) = 1 .. Len(s) - 1
  BY HeadTailProperties
<1>2. \A i \in 1 .. Len(s) - 1 : Tail(s)[i] = s[i + 1]
  BY <1>1, HeadTailProperties
<1>3. \A i \in 1 .. Len(s) : i = 1 \/ (i - 1 \in 1 .. Len(s) - 1 /\ Tail(s)[i - 1] = s[i])
  BY <1>1, <1>2
<1>4. ToSet(s) = ToSet(Tail(s)) \union {Head(s)}
  <2> DEFINE t == Tail(s)
             n == Len(s)
  <2>1. /\ DOMAIN t = 1 .. n - 1 /\ DOMAIN s = 1 .. n /\ n \in Nat /\ n > 0
        /\ \A i \in 1 .. n - 1 : t[i] = s[i + 1]
        /\ \A i \in 1 .. n : i = 1 \/ (i - 1 \in 1 .. n - 1 /\ t[i - 1] = s[i])
    BY <1>1, <1>2, <1>3
  <2> HIDE DEF t, n
  <2>2. ToSet(t) \union {s[1]} \subseteq ToSet(s)
    BY <2>1 DEF ToSet
  <2>3. \A i \in 1 .. n : s[i] \in ToSet(t) \union {s[1]}
    BY <2>1 DEF ToSet
  <2>4. ToSet(s) = ToSet(t) \union {s[1]}
    <3>1. \A x \in ToSet(s) : x \in ToSet(t) \union {s[1]}
      BY <2>1, <2>3 DEF ToSet
    <3>2. QED
      BY <2>2, <3>1
  <2>5. QED
    BY <1>1, <2>4 DEF t
<1>5. QED
  BY <1>1, <1>2, <1>4

\* One sequence after the other.
LEMMA ConcatFacts ==
  ASSUME NEW S, NEW s \in Seq(S), NEW t \in Seq(S)
  PROVE  /\ s \o t \in Seq(S)
         /\ Len(s \o t) = Len(s) + Len(t)
         /\ \A i \in DOMAIN s : i \in DOMAIN (s \o t) /\ (s \o t)[i] = s[i]
         /\ \A i \in DOMAIN (s \o t) \ DOMAIN s :
              i - Len(s) \in DOMAIN t /\ (s \o t)[i] = t[i - Len(s)]
         /\ ToSet(s \o t) = ToSet(s) \union ToSet(t)
<1>1. /\ s \o t \in Seq(S) /\ Len(s \o t) = Len(s) + Len(t)
      /\ Len(s) \in Nat /\ Len(t) \in Nat
      /\ DOMAIN s = 1 .. Len(s) /\ DOMAIN t = 1 .. Len(t)
      /\ DOMAIN (s \o t) = 1 .. Len(s) + Len(t)
  BY ConcatProperties
<1>2. \A i \in 1 .. Len(s) : (s \o t)[i] = s[i]
  BY <1>1, ConcatProperties
<1>3. \A i \in 1 .. Len(s) + Len(t) : i > Len(s) => (s \o t)[i] = t[i - Len(s)]
  BY <1>1, ConcatProperties
<1>4. \A i \in 1 .. Len(t) :
        i + Len(s) \in 1 .. Len(s) + Len(t) /\ (s \o t)[i + Len(s)] = t[i]
  BY <1>1, <1>3
<1>5. ToSet(s \o t) = ToSet(s) \union ToSet(t)
  <2> DEFINE u == s \o t
  <2>1. /\ DOMAIN u = 1 .. Len(s) + Len(t)
        /\ \A i \in 1 .. Len(s) + Len(t) :
             \/ i \in DOMAIN s /\ u[i] = s[i]
             \/ i - Len(s) \in DOMAIN t /\ u[i] = t[i - Len(s)]
        /\ \A i \in DOMAIN s : i \in DOMAIN u /\ u[i] = s[i]
        /\ \A i \in DOMAIN t : i + Len(s) \in DOMAIN u /\ u[i + Len(s)] = t[i]
    BY <1>1, <1>2, <1>3, <1>4
  <2> HIDE DEF u
  <2>2. ToSet(u) \subseteq ToSet(s) \union ToSet(t)
    BY <2>1 DEF ToSet
  <2>3. ToSet(s) \union ToSet(t) \subseteq ToSet(u)
    BY <2>1 DEF ToSet
  <2>4. QED
    BY <2>2, <2>3 DEF u
<1>6. QED
  BY <1>1, <1>2, <1>3, <1>5

\* Removal of an element leaves the others.
LEMMA RemoveAtFacts ==
  ASSUME NEW S, NEW s \in Seq(S), NEW i \in DOMAIN s
  PROVE  /\ RemoveAt(s, i) \in Seq(S)
         /\ ToSet(RemoveAt(s, i)) \subseteq ToSet(s)
         /\ ToSet(s) \ {s[i]} \subseteq ToSet(RemoveAt(s, i))
<1> DEFINE front == SubSeq(s, 1, i - 1)
           back == SubSeq(s, i + 1, Len(s))
<1>1. i \in 1 .. Len(s) /\ Len(s) \in Nat /\ DOMAIN s = 1 .. Len(s)
  OBVIOUS
<1>2. /\ front \in Seq(S) /\ Len(front) = i - 1
      /\ \A k \in 1 .. i - 1 : front[k] = s[k]
  BY <1>1, SubSeqProperties
<1>3. /\ back \in Seq(S) /\ Len(back) = Len(s) - i
      /\ \A k \in 1 .. Len(s) - i : back[k] = s[k + i]
  BY <1>1, SubSeqProperties
<1>4. RemoveAt(s, i) = front \o back
  BY DEF RemoveAt
<1> HIDE DEF front, back
<1>5. ToSet(front \o back) = ToSet(front) \union ToSet(back) /\ front \o back \in Seq(S)
  BY <1>2, <1>3, ConcatFacts
<1>6. DOMAIN front = 1 .. i - 1 /\ DOMAIN back = 1 .. Len(s) - i
  BY <1>1, <1>2, <1>3
<1>7. ToSet(front) \subseteq ToSet(s) /\ ToSet(back) \subseteq ToSet(s)
  <2>1. \A k \in DOMAIN front : k \in DOMAIN s /\ front[k] = s[k]
    BY <1>1, <1>2, <1>6
  <2>2. \A k \in DOMAIN back : k + i \in DOMAIN s /\ back[k] = s[k + i]
    BY <1>1, <1>3, <1>6
  <2>3. QED
    BY <2>1, <2>2 DEF ToSet
<1>8. ASSUME NEW k \in DOMAIN s, k # i
      PROVE  s[k] \in ToSet(front) \/ s[k] \in ToSet(back)
  <2>1. CASE k < i
    BY <1>1, <1>2, <1>6, <2>1 DEF ToSet
  <2>2. CASE k > i
    <3>1. k - i \in DOMAIN back /\ back[k - i] = s[k]
      BY <1>1, <1>3, <1>6, <2>2
    <3>2. QED
      BY <3>1 DEF ToSet
  <2>3. QED
    BY <1>1, <1>8, <2>1, <2>2
<1>9. QED
  BY <1>4, <1>5, <1>7, <1>8 DEF ToSet
-----------------------------------------------------------------------------
(***************************************************************************)
(* The order of events                                                     *)
(***************************************************************************)

\* The parts of an event.
LEMMA EventFacts ==
  ASSUME NEW e \in Event
  PROVE  /\ e.run \in Nat /\ e.at \in Nat /\ e.at <= StepsPerRun + 1
         /\ e.type \in {"step", "pipeline_complete", "pipeline_failed"}
  BY ServerAssumption DEF Event

\* The order of events is strict.
LEMMA BeforeFacts ==
  ASSUME NEW e \in Event, NEW f \in Event, Before(e, f)
  PROVE  /\ ~Before(f, e) /\ e # f
         /\ \A g \in Event : Before(f, g) => Before(e, g)
  BY EventFacts DEF Before

\* A younger event at the end leaves a sequence ascending,
LEMMA AscendingAppend ==
  ASSUME NEW s \in Seq(Event), Ascending(s), NEW e \in Event,
         \A f \in ToSet(s) : Before(f, e)
  PROVE  Ascending(Append(s, e))
<1> SUFFICES ASSUME NEW i \in DOMAIN Append(s, e), NEW j \in DOMAIN Append(s, e), i < j
             PROVE  Before(Append(s, e)[i], Append(s, e)[j])
  BY DEF Ascending
<1>1. i \in DOMAIN s /\ (j \in DOMAIN s \/ j = Len(s) + 1)
  BY AppendFacts
<1>2. QED
  BY <1>1, AppendFacts DEF Ascending, ToSet

\* so does taking the oldest,
LEMMA AscendingTail ==
  ASSUME NEW s \in Seq(Event), Ascending(s), s # <<>>
  PROVE  /\ Ascending(Tail(s))
         /\ \A f \in ToSet(Tail(s)) : Before(Head(s), f)
<1>1. \A i \in DOMAIN Tail(s) : i \in Nat /\ i > 0 /\ i + 1 \in DOMAIN s /\ Tail(s)[i] = s[i + 1]
  BY TailFacts
<1>2. Head(s) = s[1] /\ 1 \in DOMAIN s
  BY TailFacts
<1>3. Ascending(Tail(s))
  BY <1>1 DEF Ascending
<1>4. \A i \in DOMAIN Tail(s) : Before(s[1], s[i + 1])
  BY <1>1, <1>2 DEF Ascending
<1>5. QED
  BY <1>1, <1>2, <1>3, <1>4 DEF ToSet

\* and so do younger ones in their order.
LEMMA AscendingConcat ==
  ASSUME NEW s \in Seq(Event), NEW t \in Seq(Event), Ascending(s), Ascending(t),
         \A e \in ToSet(s), f \in ToSet(t) : Before(e, f)
  PROVE  Ascending(s \o t)
<1> DEFINE u == s \o t
<1>1. /\ \A i \in DOMAIN s : i \in DOMAIN u /\ u[i] = s[i]
      /\ \A i \in DOMAIN u \ DOMAIN s : i - Len(s) \in DOMAIN t /\ u[i] = t[i - Len(s)]
      /\ DOMAIN u = 1 .. Len(s) + Len(t) /\ DOMAIN s = 1 .. Len(s)
      /\ Len(s) \in Nat /\ Len(t) \in Nat
  BY ConcatFacts
<1> HIDE DEF u
<1>2. ASSUME NEW i \in DOMAIN u, NEW j \in DOMAIN u, i < j
      PROVE  Before(u[i], u[j])
  <2>1. CASE j \in DOMAIN s
    <3>1. i \in DOMAIN s
      BY <1>1, <1>2, <2>1
    <3>2. QED
      BY <1>1, <1>2, <2>1, <3>1 DEF Ascending
  <2>2. CASE j \notin DOMAIN s /\ i \in DOMAIN s
    BY <1>1, <2>2 DEF ToSet
  <2>3. CASE i \notin DOMAIN s
    <3>1. j \notin DOMAIN s
      BY <1>1, <1>2, <2>3
    <3>2. i - Len(s) < j - Len(s)
      BY <1>1, <1>2
    <3>3. QED
      BY <1>1, <2>3, <3>1, <3>2 DEF Ascending
  <2>4. QED
    BY <2>1, <2>2, <2>3
<1>3. QED
  BY <1>2 DEF Ascending, u
-----------------------------------------------------------------------------
(***************************************************************************)
(* The invariant is inductive                                              *)
(***************************************************************************)

\* What is in a sequence is of the type of its elements.
LEMMA InSeq ==
  ASSUME NEW S, NEW s \in Seq(S)
  PROVE  /\ Len(s) \in Nat /\ DOMAIN s = 1 .. Len(s)
         /\ \A i \in DOMAIN s : s[i] \in S /\ s[i] \in ToSet(s)
         /\ ToSet(s) \subseteq S
<1>1. Len(s) \in Nat /\ DOMAIN s = 1 .. Len(s)
  BY LenProperties
<1>2. \A i \in DOMAIN s : s[i] \in S
  BY <1>1, ElementOfSeq
<1>3. QED
  BY <1>1, <1>2 DEF ToSet

\* What the types say of timelines and lists of subscribers.
LEMMA RecordFacts ==
  ASSUME ServerTypeOK
  PROVE  /\ Len(timeline) \in Nat /\ DOMAIN timeline = 1 .. Len(timeline)
         /\ DOMAIN subscribers = DOMAIN timeline
         /\ \A r \in DOMAIN timeline :
              /\ timeline[r] \in Seq(Event) /\ ToSet(timeline[r]) \subseteq Event
              /\ subscribers[r] \in Seq(Clients) /\ ToSet(subscribers[r]) \subseteq Clients
         /\ \A c \in Clients :
              recordOf[c] \in Nat /\ (recordOf[c] # 0 => recordOf[c] \in DOMAIN timeline)
<1>1. /\ timeline \in Seq(Seq(Event)) /\ subscribers \in Seq(Seq(Clients))
      /\ Len(subscribers) = Len(timeline)
      /\ recordOf \in [Clients -> 0 .. Len(timeline)]
  BY DEF ServerTypeOK
<1>2. /\ Len(timeline) \in Nat /\ DOMAIN timeline = 1 .. Len(timeline)
      /\ \A r \in DOMAIN timeline : timeline[r] \in Seq(Event)
  BY <1>1, InSeq
<1>3. /\ DOMAIN subscribers = DOMAIN timeline
      /\ \A r \in DOMAIN timeline : subscribers[r] \in Seq(Clients)
  BY <1>1, <1>2, InSeq
<1>4. QED
  BY <1>1, <1>2, <1>3, InSeq

\* What is in a broadcast.
LEMMA BroadcastFacts ==
  ASSUME ServerTypeOK
  PROVE  /\ Len(broadcasts) \in Nat /\ DOMAIN broadcasts = 1 .. Len(broadcasts)
         /\ \A i \in DOMAIN broadcasts : broadcasts[i] \in ToSet(broadcasts)
         /\ \A b \in ToSet(broadcasts) :
              /\ b = [record |-> b.record, event |-> b.event]
              /\ b.record \in DOMAIN timeline /\ b.event \in Event
<1> DEFINE B == [record : DOMAIN timeline, event : Event]
<1>1. broadcasts \in Seq(B)
  BY DEF ServerTypeOK
<1> HIDE DEF B
<1>2. /\ Len(broadcasts) \in Nat /\ DOMAIN broadcasts = 1 .. Len(broadcasts)
      /\ \A i \in DOMAIN broadcasts : broadcasts[i] \in ToSet(broadcasts)
      /\ ToSet(broadcasts) \subseteq B
  BY <1>1, InSeq
<1>3. \A b \in B : /\ b = [record |-> b.record, event |-> b.event]
                   /\ b.record \in DOMAIN timeline /\ b.event \in Event
  BY DEF B
<1>4. QED
  BY <1>2, <1>3

\* In the beginning there is no record and no stream.
LEMMA ServerInitInvariant == ServerInit => ServerIInv
<1> SUFFICES ASSUME ServerInit PROVE ServerIInv
  OBVIOUS
<1>1. /\ timeline = <<>> /\ subscribers = <<>> /\ broadcasts = <<>> /\ putting = {}
      /\ runs = 0 /\ ran = 0 /\ waited = FALSE
      /\ \A c \in Clients : /\ stage[c] = "none" /\ recordOf[c] = 0 /\ replayed[c] = 0
                            /\ queue[c] = <<>> /\ received[c] = <<>>
  BY DEF ServerInit
<1>2. ServerTypeOK
  <2>1. /\ timeline \in Seq(Seq(Event)) /\ subscribers \in Seq(Seq(Clients))
        /\ broadcasts \in Seq([record : DOMAIN timeline, event : Event])
        /\ Len(timeline) = 0 /\ Len(subscribers) = 0 /\ 0 \in 0 .. Len(timeline)
    BY <1>1, EmptySeq
  <2>2. /\ queue \in [Clients -> Seq(Event)] /\ received \in [Clients -> Seq(Event)]
        /\ \A c \in Clients : Len(queue[c]) = 0
    BY DEF ServerInit
  <2>3. /\ stage \in [Clients -> {"none", "subscribed", "replaying", "live", "ended", "left", "lost"}]
        /\ recordOf \in [Clients -> 0 .. Len(timeline)]
        /\ replayed \in [Clients -> Nat]
    BY <2>1 DEF ServerInit
  <2>4. /\ Len(timeline) <= MaxPosts
        /\ \A c \in Clients : Len(queue[c]) <= QueueSize
    BY <2>1, <2>2, ServerAssumption
  <2>5. runs + ran = Len(timeline) /\ Len(subscribers) = Len(timeline) /\ putting = {}
    BY <1>1, <2>1
  <2>6. QED
    BY <1>1, <2>1, <2>2, <2>3, <2>4, <2>5, Zenon DEF ServerTypeOK
<1>3. ToSet(<<>>) = {}
  BY DEF ToSet
<1>4. Registered
  BY <1>1 DEF Registered
<1>5. InSequence /\ OnTimeline /\ Ends
  BY <1>1, <1>3 DEF InSequence, OnTimeline, Ends, Ascending
<1>6. Prefix /\ NothingLate
  BY <1>1, <1>3 DEF Prefix, NothingLate
<1>7. NothingMissed /\ InOrder /\ EndsComplete
  BY <1>1, <1>3 DEF NothingMissed, InOrder, EndsComplete
<1>8. QED
  BY <1>1, <1>2, <1>4, <1>5, <1>6, <1>7 DEF ServerIInv, Flow

\* A new record has no steps and no subscribers.
LEMMA CreateFacts ==
  ASSUME ServerTypeOK, Create
  PROVE  /\ Len(timeline') = Len(timeline) + 1
         /\ DOMAIN timeline' = DOMAIN timeline \union {Len(timeline) + 1}
         /\ DOMAIN subscribers' = DOMAIN timeline'
         /\ DOMAIN subscribers = DOMAIN timeline
         /\ \A r \in DOMAIN timeline :
              timeline'[r] = timeline[r] /\ subscribers'[r] = subscribers[r]
         /\ timeline'[Len(timeline) + 1] = <<>> /\ subscribers'[Len(timeline) + 1] = <<>>
         /\ timeline' \in Seq(Seq(Event)) /\ subscribers' \in Seq(Seq(Clients))
         /\ Len(subscribers') = Len(timeline')
<1>1. timeline' = Append(timeline, <<>>) /\ subscribers' = Append(subscribers, <<>>)
  BY DEF Create
<1>2. timeline \in Seq(Seq(Event)) /\ subscribers \in Seq(Seq(Clients))
      /\ Len(timeline) = Len(subscribers)
  BY DEF ServerTypeOK
<1>3. <<>> \in Seq(Event) /\ <<>> \in Seq(Clients)
  OBVIOUS
<1>4. DOMAIN timeline = 1 .. Len(timeline) /\ DOMAIN subscribers = 1 .. Len(timeline)
      /\ Len(timeline) \in Nat
  BY RecordFacts
<1>5. QED
  BY <1>1, <1>2, <1>3, <1>4, AppendFacts

\* No stream is of the new record, and no broadcast.
LEMMA CreateKeeps ==
  ASSUME ServerIInv, Create
  PROVE  ServerIInv'
<1>1. UNCHANGED <<broadcasts, putting, ran, waited, stage, recordOf, replayed, received, queue>>
  BY DEF Create, streamVars, clientVars
<1>2. ServerTypeOK /\ Registered
  BY DEF ServerIInv
<1>3. \A c \in Clients : recordOf[c] # 0 => recordOf[c] \in DOMAIN timeline
  BY <1>2 DEF ServerTypeOK
<1>4. ServerTypeOK'
  <2>1. broadcasts' \in Seq([record : DOMAIN timeline', event : Event])
    <3> DEFINE B == [record : DOMAIN timeline, event : Event]
               D == [record : DOMAIN timeline', event : Event]
    <3>1. B \subseteq D
      BY <1>2, CreateFacts
    <3>2. broadcasts \in Seq(B)
      BY <1>2 DEF ServerTypeOK
    <3> HIDE DEF B, D
    <3>3. broadcasts \in Seq(D)
      BY <3>1, <3>2, SeqMonotonic
    <3>4. QED
      BY <1>1, <3>3 DEF D
  <2>2. putting' \subseteq [record : DOMAIN timeline', event : Event, at : Nat \ {0}, on : Clients]
    BY <1>1, <1>2, CreateFacts DEF ServerTypeOK
  <2>3. recordOf' \in [Clients -> 0 .. Len(timeline')]
    <3>1. Len(timeline) \in Nat /\ Len(timeline') = Len(timeline) + 1
      BY <1>2, CreateFacts, RecordFacts
    <3>2. recordOf \in [Clients -> 0 .. Len(timeline)]
      BY <1>2 DEF ServerTypeOK
    <3>3. QED
      BY <1>1, <3>1, <3>2
  <2>4. runs' \in Nat /\ runs' + ran' = Len(timeline') /\ Len(timeline') <= MaxPosts
    BY <1>1, <1>2, CreateFacts, ServerAssumption DEF ServerTypeOK, Create
  <2>5. QED
    BY <1>1, <1>2, <2>1, <2>2, <2>3, <2>4, CreateFacts DEF ServerTypeOK
<1>5. ToSet(<<>>) = {}
  BY DEF ToSet
<1>6. Registered'
  BY <1>1, <1>2, <1>3, <1>5, CreateFacts DEF Registered
<1>7. ASSUME ~waited
      PROVE  Flow'
  <2>1. Flow
    BY <1>7 DEF ServerIInv
  <2>2. \A c \in Clients : stage[c] # "none" =>
          timeline'[recordOf[c]] = timeline[recordOf[c]]
    BY <1>2, <1>3, CreateFacts DEF Registered
  <2>3. \A b \in ToSet(broadcasts) : b.record \in DOMAIN timeline
    BY <1>2, BroadcastFacts
  <2>4. InSequence'
    <3>1. Ascending(<<>>)
      BY DEF Ascending
    <3>2. \A r \in DOMAIN timeline' :
            Ascending(timeline'[r]) /\ \A e \in ToSet(timeline'[r]) : e.run <= ran
      BY <1>2, <1>5, <2>1, <3>1, CreateFacts DEF Flow, InSequence
    <3>3. QED
      BY <1>1, <2>1, <3>2 DEF Flow, InSequence
  <2>5. OnTimeline'
    BY <1>1, <1>2, <1>5, <2>1, <2>2, <2>3, CreateFacts DEF Flow, OnTimeline, Prefix
  <2>6. Prefix'
    BY <1>1, <2>1, <2>2 DEF Flow, Prefix
  <2>7. (NothingLate /\ Ends)'
    BY <1>1, <2>1 DEF Flow, NothingLate, Ends, Coming
  <2>8. (NothingMissed /\ InOrder /\ EndsComplete)'
    BY <1>1, <2>1, <2>2 DEF Flow, NothingMissed, InOrder, EndsComplete
  <2>9. QED
    BY <1>1, <2>1, <2>4, <2>5, <2>6, <2>7, <2>8 DEF Flow
<1>8. QED
  BY <1>1, <1>4, <1>6, <1>7 DEF ServerIInv

\* The events of a run: one after the other, the last of them its end; all
\* but the end of a failed run are steps.
LEMMA EventsFacts ==
  ASSUME NEW n \in 1 .. MaxPosts, NEW last \in {"pipeline_complete", "pipeline_failed"}
  PROVE  /\ EventsOf(n, last) \in Seq(Event) /\ StepsOf(n, last) \in Seq(Event)
         /\ Len(EventsOf(n, last)) = StepsPerRun + 1
         /\ Ascending(EventsOf(n, last)) /\ Ascending(StepsOf(n, last))
         /\ \A e \in ToSet(EventsOf(n, last)) :
              /\ e.run = n
              /\ EndsStream(e) => e.at = StepsPerRun + 1
              /\ e.type # "pipeline_failed" => e \in ToSet(StepsOf(n, last))
         /\ ToSet(StepsOf(n, last)) \subseteq ToSet(EventsOf(n, last))
<1> DEFINE es == EventsOf(n, last)
           st == StepsOf(n, last)
           k == StepsPerRun
<1>1. k \in Nat \ {0}
  BY ServerAssumption
<1>2. \A i \in 1 .. k + 1 :
        /\ es[i] = [run |-> n, at |-> i, type |-> IF i > k THEN last ELSE "step"]
        /\ es[i] \in Event /\ es[i].run = n /\ es[i].at = i
        /\ es[i].type = IF i > k THEN last ELSE "step"
  BY <1>1 DEF EventsOf, Event
<1>3. es \in Seq(Event) /\ Len(es) = k + 1 /\ DOMAIN es = 1 .. k + 1
  <2>1. es \in [1 .. k + 1 -> Event]
    BY <1>1, <1>2 DEF EventsOf
  <2>2. k + 1 \in Nat
    BY <1>1
  <2>3. QED
    BY <2>1, <2>2
<1>4. st = IF last = "pipeline_failed" THEN SubSeq(es, 1, k) ELSE es
  BY DEF StepsOf
<1> HIDE DEF es, st, k
<1>5. Ascending(es)
  BY <1>1, <1>2, <1>3 DEF Ascending, Before
<1>6. \A e \in ToSet(es) :
        /\ e.run = n
        /\ EndsStream(e) => e.at = k + 1
  BY <1>1, <1>2, <1>3 DEF ToSet, EndsStream
<1>7. CASE last = "pipeline_failed"
  <2> DEFINE ss == SubSeq(es, 1, k)
  <2>1. ss \in Seq(Event) /\ Len(ss) = k /\ \A i \in 1 .. k : ss[i] = es[i]
    BY <1>1, <1>2, <1>3, SubSeqProperties
  <2>2. st = ss
    BY <1>4, <1>7
  <2> HIDE DEF ss
  <2>3. DOMAIN ss = 1 .. k /\ DOMAIN ss \subseteq DOMAIN es
    BY <1>1, <1>3, <2>1
  <2>4. Ascending(ss)
    BY <1>5, <2>1, <2>3 DEF Ascending
  <2>5. ToSet(ss) \subseteq ToSet(es)
    BY <2>1, <2>3 DEF ToSet
  <2>6. ASSUME NEW e \in ToSet(es), e.type # "pipeline_failed"
        PROVE  e \in ToSet(ss)
    <3>1. PICK i \in 1 .. k + 1 : e = es[i]
      BY <1>3 DEF ToSet
    <3>2. ~(i > k)
      BY <1>2, <1>7, <2>6, <3>1
    <3>3. i \in 1 .. k
      BY <1>1, <3>2
    <3>4. QED
      BY <2>1, <2>3, <3>1, <3>3 DEF ToSet
  <2>7. QED
    BY <1>3, <1>5, <1>6, <2>1, <2>2, <2>4, <2>5, <2>6 DEF es, st, k
<1>8. CASE last # "pipeline_failed"
  <2>1. st = es
    BY <1>4, <1>8
  <2>2. QED
    BY <1>3, <1>5, <1>6, <2>1 DEF es, st, k
<1>9. QED
  BY <1>7, <1>8

\* A run appends its steps to the timeline, and all its events to the
\* broadcasts.
LEMMA RunFacts ==
  ASSUME ServerTypeOK, NEW last \in {"pipeline_complete", "pipeline_failed"}, Run(last)
  PROVE  /\ ran' = ran + 1 /\ ran' \in 1 .. MaxPosts /\ runs' \in Nat
         /\ runs' + ran' = Len(timeline)
         /\ Current \in DOMAIN timeline
         /\ timeline' \in Seq(Seq(Event)) /\ DOMAIN timeline' = DOMAIN timeline
         /\ Len(timeline') = Len(timeline)
         /\ timeline'[Current] = timeline[Current] \o StepsOf(ran', last)
         /\ \A r \in DOMAIN timeline \ {Current} : timeline'[r] = timeline[r]
         /\ broadcasts' \in Seq([record : DOMAIN timeline, event : Event])
         /\ \A i \in DOMAIN broadcasts :
              i \in DOMAIN broadcasts' /\ broadcasts'[i] = broadcasts[i]
         /\ \A i \in DOMAIN broadcasts' \ DOMAIN broadcasts :
              /\ i - Len(broadcasts) \in DOMAIN EventsOf(ran', last)
              /\ broadcasts'[i].event = EventsOf(ran', last)[i - Len(broadcasts)]
         /\ ToSet(broadcasts') = ToSet(broadcasts) \union
              {[record |-> Current, event |-> e] : e \in ToSet(EventsOf(ran', last))}
<1> DEFINE B == [record : DOMAIN timeline, event : Event]
           es == EventsOf(ran', last)
           st == StepsOf(ran', last)
           k == StepsPerRun + 1
           bs == [i \in 1 .. k |-> [record |-> Current, event |-> es[i]]]
<1>1. /\ runs \in Nat /\ ran \in Nat /\ runs + ran = Len(timeline)
      /\ Len(timeline) <= MaxPosts /\ MaxPosts \in Nat /\ StepsPerRun \in Nat \ {0}
      /\ runs > 0 /\ runs' = runs - 1 /\ ran' = ran + 1
  BY ServerAssumption DEF ServerTypeOK, Run
<1>2. /\ ran' \in 1 .. MaxPosts /\ runs' \in Nat /\ runs' + ran' = Len(timeline)
      /\ Current \in DOMAIN timeline
  BY <1>1, RecordFacts DEF Current
<1>3. /\ es \in Seq(Event) /\ Len(es) = k /\ st \in Seq(Event) /\ k \in Nat
      /\ DOMAIN es = 1 .. k
  BY <1>1, <1>2, EventsFacts
<1>4. /\ timeline' = [timeline EXCEPT ![Current] = timeline[Current] \o st]
      /\ broadcasts' = broadcasts \o bs
  BY DEF Run
<1>5. timeline[Current] \o st \in Seq(Event)
  BY <1>2, <1>3, RecordFacts, ConcatFacts
<1>6. timeline \in Seq(Seq(Event)) /\ Current \in 1 .. Len(timeline)
  BY <1>2, RecordFacts DEF ServerTypeOK
<1>7. /\ timeline' \in Seq(Seq(Event)) /\ Len(timeline') = Len(timeline)
      /\ \A r \in 1 .. Len(timeline) :
           timeline'[r] = IF r = Current THEN timeline[Current] \o st ELSE timeline[r]
  BY <1>4, <1>5, <1>6, ExceptSeq
<1>8. DOMAIN timeline' = DOMAIN timeline
  BY <1>6, <1>7, InSeq
<1>9. /\ \A i \in 1 .. k : bs[i] = [record |-> Current, event |-> es[i]] /\ bs[i] \in B
      /\ bs \in Seq(B) /\ Len(bs) = k /\ DOMAIN bs = 1 .. k
  <2>1. \A i \in 1 .. k : bs[i] = [record |-> Current, event |-> es[i]] /\ bs[i] \in B
    BY <1>2, <1>3
  <2>2. bs \in [1 .. k -> B]
    BY <2>1
  <2> HIDE DEF bs, B, k
  <2>3. bs \in Seq(B) /\ Len(bs) = k /\ DOMAIN bs = 1 .. k
    BY <1>3, <2>2
  <2>4. QED
    BY <2>1, <2>3
<1>10. broadcasts \in Seq(B)
  BY DEF ServerTypeOK
<1>11. \A i \in 1 .. k : bs[i].event = es[i]
  BY <1>9
<1>12. ToSet(bs) = {[record |-> Current, event |-> e] : e \in ToSet(es)}
  <2> HIDE DEF es
  <2>1. \A i \in 1 .. k : bs[i] = [record |-> Current, event |-> es[i]]
    BY <1>9
  <2> HIDE DEF bs
  <2>2. \A x : x \in ToSet(bs) <=> \E i \in 1 .. k : x = [record |-> Current, event |-> es[i]]
    BY <1>9, <2>1 DEF ToSet
  <2>3. \A x : x \in ToSet(es) <=> \E i \in 1 .. k : x = es[i]
    BY <1>3 DEF ToSet
  <2> DEFINE X == {[record |-> Current, event |-> e] : e \in ToSet(es)}
  <2>4. ToSet(bs) \subseteq X
    <3> SUFFICES ASSUME NEW x \in ToSet(bs)
                 PROVE  \E e \in ToSet(es) : x = [record |-> Current, event |-> e]
      OBVIOUS
    <3>1. PICK i \in 1 .. k : x = [record |-> Current, event |-> es[i]]
      BY <2>2
    <3>2. QED
      BY <2>3, <3>1
  <2>5. X \subseteq ToSet(bs)
    <3> SUFFICES ASSUME NEW e \in ToSet(es)
                 PROVE  [record |-> Current, event |-> e] \in ToSet(bs)
      OBVIOUS
    <3>1. PICK i \in 1 .. k : e = es[i]
      BY <2>3
    <3>2. QED
      BY <2>2, <3>1
  <2>6. QED
    BY <2>4, <2>5
<1> HIDE DEF B, bs, es, st
<1>13. /\ broadcasts \o bs \in Seq(B)
       /\ \A i \in DOMAIN broadcasts :
            i \in DOMAIN (broadcasts \o bs) /\ (broadcasts \o bs)[i] = broadcasts[i]
       /\ \A i \in DOMAIN (broadcasts \o bs) \ DOMAIN broadcasts :
            /\ i - Len(broadcasts) \in DOMAIN bs
            /\ (broadcasts \o bs)[i] = bs[i - Len(broadcasts)]
       /\ ToSet(broadcasts \o bs) = ToSet(broadcasts) \union ToSet(bs)
  BY <1>9, <1>10, ConcatFacts
<1>14. /\ timeline'[Current] = timeline[Current] \o st
       /\ \A r \in DOMAIN timeline \ {Current} : timeline'[r] = timeline[r]
  BY <1>6, <1>7, RecordFacts
<1>15. \A i \in DOMAIN broadcasts' \ DOMAIN broadcasts :
         /\ i - Len(broadcasts) \in DOMAIN es
         /\ broadcasts'[i].event = es[i - Len(broadcasts)]
  BY <1>3, <1>4, <1>9, <1>11, <1>13
<1>16. QED
  BY <1>1, <1>2, <1>4, <1>7, <1>8, <1>12, <1>13, <1>14, <1>15 DEF B, es, st

\* The events of a run are younger than all there were.
LEMMA RunKeeps ==
  ASSUME ServerIInv, NEW last \in {"pipeline_complete", "pipeline_failed"}, Run(last)
  PROVE  ServerIInv'
<1> DEFINE es == EventsOf(ran', last)
           st == StepsOf(ran', last)
<1>1. UNCHANGED <<subscribers, putting, waited, stage, recordOf, replayed, received, queue>>
  BY DEF Run, streamVars, clientVars
<1>2. ServerTypeOK /\ Registered
  BY DEF ServerIInv
<1>3. ServerTypeOK'
  <2>1. Len(timeline') <= MaxPosts /\ Len(subscribers') = Len(timeline')
    BY <1>1, <1>2, RunFacts DEF ServerTypeOK
  <2>2. DOMAIN timeline' = DOMAIN timeline /\ Len(timeline') = Len(timeline)
    BY <1>2, RunFacts
  <2>3. ran' \in Nat /\ runs' \in Nat /\ runs' + ran' = Len(timeline')
    BY <1>2, RunFacts DEF ServerTypeOK
  <2>4. timeline' \in Seq(Seq(Event))
        /\ broadcasts' \in Seq([record : DOMAIN timeline', event : Event])
    BY <1>2, <2>2, RunFacts
  <2>5. QED
    BY <1>1, <1>2, <2>1, <2>2, <2>3, <2>4 DEF ServerTypeOK
<1>4. Registered'
  BY <1>1, <1>2 DEF Registered
<1>5. ASSUME ~waited
      PROVE  Flow'
  <2>1. Flow
    BY <1>5 DEF ServerIInv
  <2>2. /\ ran \in Nat /\ ran' = ran + 1 /\ ran' \in 1 .. MaxPosts
        /\ Current \in DOMAIN timeline /\ DOMAIN timeline' = DOMAIN timeline
    BY <1>2, RunFacts DEF ServerTypeOK
  <2>3. /\ es \in Seq(Event) /\ st \in Seq(Event) /\ Ascending(es) /\ Ascending(st)
        /\ ToSet(es) \subseteq Event /\ ToSet(st) \subseteq ToSet(es)
        /\ \A e \in ToSet(es) :
             /\ e.run = ran + 1
             /\ EndsStream(e) => e.at = StepsPerRun + 1
             /\ e.type # "pipeline_failed" => e \in ToSet(st)
    BY <2>2, EventsFacts, InSeq
  <2>4. /\ timeline'[Current] = timeline[Current] \o st
        /\ ToSet(timeline'[Current]) = ToSet(timeline[Current]) \union ToSet(st)
        /\ \A r \in DOMAIN timeline \ {Current} : timeline'[r] = timeline[r]
        /\ ToSet(broadcasts') = ToSet(broadcasts) \union
             {[record |-> Current, event |-> e] : e \in ToSet(es)}
    <3>1. /\ timeline'[Current] = timeline[Current] \o st
          /\ \A r \in DOMAIN timeline \ {Current} : timeline'[r] = timeline[r]
          /\ ToSet(broadcasts') = ToSet(broadcasts) \union
               {[record |-> Current, event |-> e] : e \in ToSet(es)}
      BY <1>2, RunFacts
    <3>2. timeline[Current] \in Seq(Event)
      BY <1>2, <2>2, RecordFacts
    <3>3. ToSet(timeline[Current] \o st) = ToSet(timeline[Current]) \union ToSet(st)
      BY <2>3, <3>2, ConcatFacts
    <3>4. QED
      BY <3>1, <3>3
  <2> HIDE DEF es, st
  \* What was there is older than the run.
  <2>5. \A e \in Event, f \in ToSet(es) : e.run <= ran => Before(e, f) /\ ~Before(f, e)
    BY <2>2, <2>3, EventFacts DEF Before
  <2>6. InSequence'
    <3>1. ASSUME NEW r \in DOMAIN timeline
          PROVE  Ascending(timeline'[r]) /\ \A e \in ToSet(timeline'[r]) : e.run <= ran'
      <4>1. /\ Ascending(timeline[r]) /\ timeline[r] \in Seq(Event)
            /\ \A e \in ToSet(timeline[r]) : e \in Event /\ e.run <= ran
        BY <1>2, <2>1, RecordFacts DEF Flow, InSequence
      <4>2. CASE r = Current
        <5>1. Ascending(timeline[r] \o st)
          BY <2>3, <2>5, <4>1, AscendingConcat
        <5>2. \A e \in ToSet(timeline'[r]) : e \in ToSet(timeline[r]) \/ e \in ToSet(es)
          BY <2>3, <2>4, <4>2
        <5>3. \A e \in ToSet(timeline'[r]) : e.run <= ran'
          BY <2>2, <2>3, <4>1, <5>2, EventFacts
        <5>4. QED
          BY <2>4, <4>2, <5>1, <5>3
      <4>3. CASE r # Current
        BY <2>2, <2>4, <4>1, <4>3, EventFacts
      <4>4. QED
        BY <4>2, <4>3
    <3>2. ASSUME NEW i \in DOMAIN broadcasts', NEW j \in DOMAIN broadcasts', i < j
          PROVE  Before(broadcasts'[i].event, broadcasts'[j].event)
      <4>1. /\ \A k \in DOMAIN broadcasts : broadcasts'[k] = broadcasts[k]
            /\ \A k \in DOMAIN broadcasts' \ DOMAIN broadcasts :
                 /\ k - Len(broadcasts) \in DOMAIN es
                 /\ broadcasts'[k].event = es[k - Len(broadcasts)]
        BY <1>2, RunFacts DEF es
      <4>2. /\ Len(broadcasts) \in Nat /\ DOMAIN broadcasts = 1 .. Len(broadcasts)
            /\ \A k \in DOMAIN broadcasts : broadcasts[k] \in ToSet(broadcasts)
        BY <1>2, BroadcastFacts
      <4>3. DOMAIN broadcasts' \subseteq Nat \ {0}
        <5> DEFINE B == [record : DOMAIN timeline, event : Event]
        <5>1. broadcasts' \in Seq(B)
          BY <1>2, RunFacts
        <5> HIDE DEF B
        <5>2. QED
          BY <5>1, InSeq
      <4>4. CASE j \in DOMAIN broadcasts
        <5>1. i \in DOMAIN broadcasts
          BY <3>2, <4>2, <4>3, <4>4
        <5>2. QED
          BY <2>1, <3>2, <4>1, <4>4, <5>1 DEF Flow, InSequence
      <4>5. CASE i \in DOMAIN broadcasts /\ j \notin DOMAIN broadcasts
        <5>1. broadcasts[i].event \in Event /\ broadcasts[i].event.run <= ran
          BY <1>2, <2>1, <4>2, <4>5, BroadcastFacts DEF Flow, InSequence
        <5>2. broadcasts'[j].event \in ToSet(es)
          BY <2>3, <4>1, <4>5, InSeq
        <5>3. QED
          BY <2>5, <4>1, <4>5, <5>1, <5>2
      <4>6. CASE i \notin DOMAIN broadcasts
        <5>1. j \notin DOMAIN broadcasts
          BY <3>2, <4>2, <4>3, <4>6
        <5>2. i - Len(broadcasts) < j - Len(broadcasts)
          BY <3>2, <4>2, <4>3
        <5>3. QED
          BY <2>3, <4>1, <4>6, <5>1, <5>2 DEF Ascending
      <4>7. QED
        BY <4>4, <4>5, <4>6
    <3>3. \A b \in ToSet(broadcasts') : b.event.run <= ran'
      <4>1. \A b \in ToSet(broadcasts) : b.event.run <= ran /\ b.event \in Event
        BY <1>2, <2>1, BroadcastFacts DEF Flow, InSequence
      <4>2. QED
        BY <2>2, <2>3, <2>4, <4>1, EventFacts
    <3>4. ASSUME NEW c \in Clients
          PROVE  /\ Ascending(queue[c])
                 /\ \A e \in ToSet(queue[c]) : e.run <= ran'
                 /\ \A e \in ToSet(queue[c]), b \in ToSet(broadcasts') : Before(e, b.event)
                 /\ \A e \in ToSet(received[c]) : e.run <= ran'
      <4>1. /\ Ascending(queue[c])
            /\ \A e \in ToSet(queue[c]) : e.run <= ran
            /\ \A e \in ToSet(queue[c]), b \in ToSet(broadcasts) : Before(e, b.event)
            /\ \A e \in ToSet(received[c]) : e.run <= ran
        BY <2>1 DEF Flow, InSequence
      <4>2. ToSet(queue[c]) \subseteq Event /\ ToSet(received[c]) \subseteq Event
        BY <1>2, InSeq DEF ServerTypeOK
      <4>3. QED
        BY <2>2, <2>4, <2>5, <4>1, <4>2, EventFacts
    <3>5. QED
      BY <1>1, <2>2, <3>1, <3>2, <3>3, <3>4 DEF InSequence
  <2>7. OnTimeline'
    <3>1. \A r \in DOMAIN timeline : ToSet(timeline[r]) \subseteq ToSet(timeline'[r])
      BY <2>4
    <3>2. ASSUME NEW b \in ToSet(broadcasts'), b.event.type # "pipeline_failed"
          PROVE  b.event \in ToSet(timeline'[b.record])
      <4>1. CASE b \in ToSet(broadcasts)
        <5>1. b.event \in ToSet(timeline[b.record]) /\ b.record \in DOMAIN timeline
          BY <1>2, <2>1, <3>2, <4>1, BroadcastFacts DEF Flow, OnTimeline
        <5>2. QED
          BY <3>1, <5>1
      <4>2. CASE \E e \in ToSet(es) : b = [record |-> Current, event |-> e]
        <5>1. PICK e \in ToSet(es) : b = [record |-> Current, event |-> e]
          BY <4>2
        <5>2. b.record = Current /\ b.event = e
          BY <5>1
        <5>3. e \in ToSet(timeline'[Current])
          BY <2>3, <2>4, <3>2, <5>2
        <5>4. QED
          BY <5>2, <5>3
      <4>3. QED
        BY <2>4, <4>1, <4>2
    <3>3. ASSUME NEW c \in Clients, NEW e \in ToSet(queue[c]), e.type # "pipeline_failed"
          PROVE  e \in ToSet(timeline'[recordOf[c]])
      <4>1. e \in ToSet(timeline[recordOf[c]])
        BY <2>1, <3>3 DEF Flow, OnTimeline
      <4>2. recordOf[c] \in DOMAIN timeline
        BY <1>2, <2>1, RecordFacts DEF Flow, Prefix, Registered
      <4>3. QED
        BY <3>1, <4>1, <4>2
    <3>4. QED
      BY <1>1, <3>2, <3>3 DEF OnTimeline
  <2>8. Prefix'
    <3>1. ASSUME NEW c \in Clients, stage[c] = "replaying"
          PROVE  /\ replayed[c] <= Len(timeline'[recordOf[c]])
                 /\ \A k \in 1 .. replayed[c] : received[c][k] = timeline'[recordOf[c]][k]
      <4> DEFINE r == recordOf[c]
      <4>1. /\ replayed[c] <= Len(timeline[r]) /\ replayed[c] \in Nat
            /\ \A k \in 1 .. replayed[c] : received[c][k] = timeline[r][k]
        BY <1>2, <2>1, <3>1 DEF Flow, Prefix, ServerTypeOK
      <4>2. r \in DOMAIN timeline /\ timeline[r] \in Seq(Event)
        BY <1>2, <3>1, RecordFacts DEF Registered
      <4>3. CASE r = Current
        <5>1. timeline'[r] = timeline[r] \o st
          BY <2>4, <4>3
        <5>2. /\ Len(timeline'[r]) = Len(timeline[r]) + Len(st)
              /\ \A k \in DOMAIN timeline[r] : timeline'[r][k] = timeline[r][k]
          BY <2>3, <4>2, <5>1, ConcatFacts
        <5>3. Len(st) \in Nat /\ DOMAIN timeline[r] = 1 .. Len(timeline[r])
              /\ Len(timeline[r]) \in Nat
          BY <2>3, <4>2, InSeq
        <5>4. QED
          BY <4>1, <5>2, <5>3
      <4>4. CASE r # Current
        BY <2>4, <4>1, <4>2, <4>4
      <4>5. QED
        BY <4>3, <4>4
    <3>2. QED
      BY <1>1, <2>1, <3>1 DEF Flow, Prefix
  <2>9. NothingLate'
    <3> SUFFICES ASSUME NEW c \in Clients, stage[c] = "live",
                        NEW e \in Event, Coming(c, e)', e.type # "pipeline_failed",
                        NEW i \in DOMAIN received[c], Before(e, received[c][i])
                 PROVE  \E k \in 1 .. i - 1 : received[c][k] = e
      BY <1>1 DEF NothingLate
    <3>1. received[c][i] \in Event /\ received[c][i].run <= ran
      BY <1>2, <2>1, InSeq DEF Flow, InSequence, ServerTypeOK
    <3>2. e \notin ToSet(es)
      BY <2>5, <3>1
    <3>3. Coming(c, e)
      BY <1>1, <2>4, <3>2 DEF Coming
    <3>4. QED
      BY <2>1, <3>3 DEF Flow, NothingLate
  <2>10. Ends'
    BY <1>1, <2>1, <2>3, <2>4 DEF Flow, Ends
  <2>11. NothingMissed'
    <3> SUFFICES ASSUME NEW c \in Clients, stage[c] = "live",
                        NEW e \in ToSet(timeline'[recordOf[c]])
                 PROVE  \/ e \in ToSet(received[c])
                        \/ e \in ToSet(queue[c])
                        \/ [record |-> recordOf[c], event |-> e] \in ToSet(broadcasts')
      BY <1>1 DEF NothingMissed
    <3>1. recordOf[c] \in DOMAIN timeline
      BY <1>2, RecordFacts DEF Registered
    <3>2. CASE e \in ToSet(timeline[recordOf[c]])
      BY <1>5, <2>1, <2>4, <3>2 DEF Flow, NothingMissed
    <3>3. CASE e \notin ToSet(timeline[recordOf[c]])
      <4>1. recordOf[c] = Current /\ e \in ToSet(es)
        BY <2>3, <2>4, <3>1, <3>3
      <4>2. QED
        BY <2>4, <4>1
    <3>4. QED
      BY <3>2, <3>3
  <2>12. InOrder'
    BY <1>1, <2>1 DEF Flow, InOrder
  <2>13. EndsComplete'
    <3> SUFFICES ASSUME NEW c \in Clients, stage[c] = "ended",
                        NEW e \in ToSet(timeline'[recordOf[c]]),
                        e.run <= Last(received[c]).run
                 PROVE  e \in ToSet(received[c])
      BY <1>1 DEF EndsComplete
    <3>1. recordOf[c] \in DOMAIN timeline
      BY <1>2, RecordFacts DEF Registered
    <3>2. Last(received[c]) \in Event /\ Last(received[c]).run <= ran
      <4>1. received[c] \in Seq(Event) /\ received[c] # <<>>
        BY <1>2, <2>1 DEF Flow, Ends, ServerTypeOK
      <4>2. Len(received[c]) \in DOMAIN received[c]
        BY <4>1
      <4>3. QED
        BY <2>1, <4>1, <4>2, InSeq DEF Last, Flow, InSequence
    <3>3. e \notin ToSet(es)
      BY <2>2, <2>3, <3>2, EventFacts
    <3>4. e \in ToSet(timeline[recordOf[c]])
      BY <2>3, <2>4, <3>1, <3>3
    <3>5. QED
      BY <1>5, <2>1, <3>4 DEF Flow, EndsComplete
  <2>14. QED
    BY <1>1, <2>1, <2>6, <2>7, <2>8, <2>9, <2>10, <2>11, <2>12, <2>13 DEF Flow
<1>6. QED
  BY <1>1, <1>3, <1>4, <1>5 DEF ServerIInv
-----------------------------------------------------------------------------
(***************************************************************************)
(* Broadcasts                                                              *)
(***************************************************************************)

\* An event that is put into queues that have room for it.
LEMMA PutFacts ==
  ASSUME ServerTypeOK, NEW cs \in SUBSET Clients, NEW e \in Event,
         \A c \in cs : ~Full(c), queue' = PutInto(cs, e)
  PROVE  /\ queue' \in [Clients -> Seq(Event)]
         /\ \A c \in Clients : Len(queue'[c]) <= QueueSize
         /\ \A c \in cs : queue'[c] = Append(queue[c], e)
         /\ \A c \in Clients \ cs : queue'[c] = queue[c]
         /\ \A c \in cs : ToSet(queue'[c]) = ToSet(queue[c]) \union {e}
<1>1. \A c \in Clients : queue[c] \in Seq(Event) /\ Len(queue[c]) \in Nat
        /\ Len(queue[c]) <= QueueSize
  BY DEF ServerTypeOK
<1>2. queue' = [c \in Clients |-> IF c \in cs THEN Append(queue[c], e) ELSE queue[c]]
  BY DEF PutInto
<1>3. \A c \in Clients : Append(queue[c], e) \in Seq(Event)
        /\ Len(Append(queue[c], e)) = Len(queue[c]) + 1
        /\ ToSet(Append(queue[c], e)) = ToSet(queue[c]) \union {e}
  BY <1>1, AppendFacts
<1>4. /\ \A c \in cs : queue'[c] = Append(queue[c], e)
      /\ \A c \in Clients \ cs : queue'[c] = queue[c]
  BY <1>2
<1>5. queue' \in [Clients -> Seq(Event)]
  BY <1>1, <1>2, <1>3
<1>6. \A c \in Clients : Len(queue'[c]) <= QueueSize
  BY <1>1, <1>3, <1>4, ServerAssumption DEF Full
<1>7. QED
  BY <1>3, <1>4, <1>5, <1>6

\* The positions that a broadcast gets to: all, if that many.
LEMMA ReachedFacts ==
  ASSUME ServerTypeOK, NEW r \in DOMAIN timeline, NEW i \in Nat \ {0}
  PROVE  /\ Reached(r, i) \subseteq 1 .. Len(subscribers[r])
         /\ Cardinality(Reached(r, i)) \in Nat
         /\ \A j \in Reached(r, i) :
              subscribers[r][j] \in ToSet(subscribers[r]) /\ ~Full(subscribers[r][j])
         /\ Cardinality(Reached(r, i)) >= Len(subscribers[r]) =>
              Reached(r, i) = 1 .. Len(subscribers[r])
<1>1. /\ Len(subscribers[r]) \in Nat /\ DOMAIN subscribers[r] = 1 .. Len(subscribers[r])
      /\ \A j \in 1 .. Len(subscribers[r]) : subscribers[r][j] \in ToSet(subscribers[r])
  BY RecordFacts, InSeq
<1> DEFINE all == 1 .. Len(subscribers[r])
<1>2. Reached(r, i) \subseteq all
  BY <1>1 DEF Reached
<1>3. IsFiniteSet(all) /\ Cardinality(all) = Len(subscribers[r])
  BY <1>1, FS_Interval
<1>4. /\ IsFiniteSet(Reached(r, i))
      /\ Cardinality(Reached(r, i)) <= Cardinality(all)
      /\ Cardinality(Reached(r, i)) = Cardinality(all) => Reached(r, i) = all
  BY <1>2, <1>3, FS_Subset
<1>5. Cardinality(Reached(r, i)) \in Nat
  BY <1>4, FS_CardinalityType
<1>6. \A j \in Reached(r, i) : ~Full(subscribers[r][j])
  BY <1>1 DEF Reached
<1>7. QED
  BY <1>1, <1>2, <1>3, <1>4, <1>5, <1>6

\* Where a broadcast waits.
LEMMA RestFacts ==
  ASSUME ServerTypeOK, NEW r \in DOMAIN timeline, NEW e \in Event, NEW i \in Nat \ {0}
  PROVE  /\ Rest(r, e, i) \subseteq
              [record : DOMAIN timeline, event : Event, at : Nat \ {0}, on : Clients]
         /\ Rest(r, e, i) = {} <=> i > Len(subscribers[r])
<1>1. /\ Len(subscribers[r]) \in Nat /\ DOMAIN subscribers[r] = 1 .. Len(subscribers[r])
      /\ \A j \in 1 .. Len(subscribers[r]) : subscribers[r][j] \in Clients
  BY RecordFacts, InSeq
<1>2. i <= Len(subscribers[r]) => subscribers[r][i] \in Clients
  BY <1>1
<1>3. CASE i > Len(subscribers[r])
  BY <1>3 DEF Rest
<1>4. CASE ~(i > Len(subscribers[r]))
  <2> DEFINE t == [record |-> r, event |-> e, at |-> i, on |-> subscribers[r][i]]
  <2>1. Rest(r, e, i) = {t}
    BY <1>4 DEF Rest
  <2>2. i <= Len(subscribers[r])
    BY <1>1, <1>4
  <2>3. t \in [record : DOMAIN timeline, event : Event, at : Nat \ {0}, on : Clients]
    BY <1>2, <2>2
  <2>4. QED
    BY <1>4, <2>1, <2>3
<1>5. QED
  BY <1>3, <1>4

\* The oldest broadcast: it is put into queues of its record's subscribers,
\* into those of all of them unless it has to wait.
LEMMA DeliverFacts ==
  ASSUME ServerTypeOK, Registered, Deliver
  PROVE  /\ ServerTypeOK'
         /\ \E cs \in SUBSET Clients :
              LET b == Head(broadcasts) IN
              /\ cs \subseteq ToSet(subscribers[b.record])
              /\ \A c \in cs : queue'[c] = Append(queue[c], b.event)
              /\ \A c \in Clients \ cs : queue'[c] = queue[c]
              /\ ~waited' =>
                   /\ ~waited /\ putting' = putting
                   /\ cs = ToSet(subscribers[b.record])
<1> DEFINE B == [record : DOMAIN timeline, event : Event]
           b == Head(broadcasts)
           r == b.record
           e == b.event
           reached == Reached(r, 1)
           cs == {subscribers[r][j] : j \in reached}
           n == Cardinality(reached) + 1
           rest == Rest(r, e, n)
<1>1. /\ broadcasts \in Seq(B) /\ broadcasts # <<>>
      /\ broadcasts' = Tail(broadcasts)
      /\ queue' = PutInto(cs, e)
      /\ putting' = putting \union rest
      /\ waited' = (waited \/ rest # {})
      /\ UNCHANGED <<timeline, subscribers, runs, ran, stage, recordOf, replayed, received>>
  BY DEF ServerTypeOK, Deliver, recordVars, clientVars
<1>2. b \in B /\ broadcasts' \in Seq(B)
  <2> HIDE DEF B
  <2>1. QED
    BY <1>1, TailFacts
<1>3. r \in DOMAIN timeline /\ e \in Event
  BY <1>2
<1> HIDE DEF b
<1>4. /\ n \in Nat \ {0}
      /\ \A c \in cs : c \in ToSet(subscribers[r]) /\ ~Full(c)
  BY <1>3, ReachedFacts
<1>5. cs \in SUBSET Clients
  BY <1>3, <1>4, RecordFacts
<1>6. /\ rest \subseteq
           [record : DOMAIN timeline, event : Event, at : Nat \ {0}, on : Clients]
      /\ rest = {} <=> n > Len(subscribers[r])
  BY <1>3, <1>4, RestFacts
<1>7. /\ queue' \in [Clients -> Seq(Event)]
      /\ \A c \in Clients : Len(queue'[c]) <= QueueSize
      /\ \A c \in cs : queue'[c] = Append(queue[c], e)
      /\ \A c \in Clients \ cs : queue'[c] = queue[c]
  <2> HIDE DEF cs, e
  <2>1. QED
    BY <1>1, <1>3, <1>4, <1>5, PutFacts
<1>8. ServerTypeOK'
  <2>1. putting' \subseteq
          [record : DOMAIN timeline, event : Event, at : Nat \ {0}, on : Clients]
    BY <1>1, <1>6 DEF ServerTypeOK
  <2>2. waited' \in BOOLEAN
    BY <1>1 DEF ServerTypeOK
  <2>3. QED
    BY <1>1, <1>2, <1>7, <2>1, <2>2 DEF ServerTypeOK
<1>9. ASSUME ~waited'
      PROVE  ~waited /\ putting' = putting /\ cs = ToSet(subscribers[r])
  <2>1. ~waited /\ rest = {}
    BY <1>1, <1>9
  <2>2. Len(subscribers[r]) \in Nat /\ DOMAIN subscribers[r] = 1 .. Len(subscribers[r])
    BY <1>3, RecordFacts, InSeq
  <2>3. reached = 1 .. Len(subscribers[r])
    <3>1. Cardinality(reached) + 1 > Len(subscribers[r]) /\ Cardinality(reached) \in Nat
      BY <1>3, <1>6, <2>1, ReachedFacts
    <3>2. Cardinality(reached) >= Len(subscribers[r])
      BY <2>2, <3>1
    <3>3. QED
      BY <1>3, <3>2, ReachedFacts
  <2>4. cs = ToSet(subscribers[r])
    BY <2>2, <2>3 DEF ToSet
  <2>5. QED
    BY <1>1, <2>1, <2>4
<1>10. QED
  <2> HIDE DEF cs
  <2>1. cs \subseteq ToSet(subscribers[r])
    BY <1>4
  <2>2. QED
    BY <1>5, <1>7, <1>8, <1>9, <2>1 DEF b

\* The oldest broadcast comes after all that is in the queues, and before the
\* other broadcasts: it keeps their order, and every subscriber of its record
\* gets it.
LEMMA DeliverKeeps ==
  ASSUME ServerIInv, Deliver
  PROVE  ServerIInv'
<1> DEFINE B == [record : DOMAIN timeline, event : Event]
           b == Head(broadcasts)
<1>1. ServerTypeOK /\ Registered
  BY DEF ServerIInv
<1>2. /\ broadcasts' = Tail(broadcasts) /\ broadcasts # <<>>
      /\ UNCHANGED <<timeline, subscribers, runs, ran, stage, recordOf, replayed, received>>
  BY DEF Deliver, recordVars, clientVars
<1>3. ServerTypeOK'
  BY <1>1, DeliverFacts
<1>4. Registered'
  BY <1>1, <1>2 DEF Registered
<1>5. ASSUME ~waited'
      PROVE  Flow'
  <2> DEFINE cs == ToSet(subscribers[b.record])
  <2>1. /\ ~waited /\ putting' = putting
        /\ \A c \in cs : queue'[c] = Append(queue[c], b.event)
        /\ \A c \in Clients \ cs : queue'[c] = queue[c]
    BY <1>1, <1>5, DeliverFacts
  <2>2. Flow
    BY <2>1 DEF ServerIInv
  <2>3. /\ ToSet(broadcasts) = ToSet(broadcasts') \union {b}
        /\ b = broadcasts[1] /\ 1 \in DOMAIN broadcasts
        /\ \A i \in DOMAIN broadcasts' :
             i + 1 \in DOMAIN broadcasts /\ broadcasts'[i] = broadcasts[i + 1] /\ i \in Nat /\ i > 0
    <3>1. broadcasts \in Seq(B)
      BY <1>1 DEF ServerTypeOK
    <3> HIDE DEF B
    <3>2. Tail(broadcasts) \in Seq(B)
      BY <1>2, <3>1, TailFacts
    <3>3. DOMAIN Tail(broadcasts) = 1 .. Len(Tail(broadcasts))
      BY <3>2, InSeq
    <3>4. QED
      BY <1>2, <3>1, <3>3, TailFacts
  <2>4. /\ b.record \in DOMAIN timeline /\ b.event \in Event
        /\ b = [record |-> b.record, event |-> b.event]
    BY <1>1, <2>3, BroadcastFacts
  <2> HIDE DEF b
  \* The event is older than the other broadcasts'.
  <2>5. \A x \in ToSet(broadcasts') : Before(b.event, x.event)
    <3>1. \A i \in DOMAIN broadcasts' : Before(b.event, broadcasts'[i].event)
      BY <2>2, <2>3 DEF Flow, InSequence
    <3>2. QED
      BY <3>1 DEF ToSet
  <2>6. \A c \in Clients : queue[c] \in Seq(Event) /\ ToSet(queue[c]) \subseteq Event
    BY <1>1, InSeq DEF ServerTypeOK
  <2>7. \A c \in cs : c \in Clients /\ recordOf[c] = b.record /\ stage[c] # "none"
    BY <1>1, <2>4, RecordFacts DEF Registered
  <2>8. /\ \A c \in cs : ToSet(queue'[c]) = ToSet(queue[c]) \union {b.event}
        /\ \A c \in Clients \ cs : ToSet(queue'[c]) = ToSet(queue[c])
    <3>1. \A c \in Clients :
            ToSet(Append(queue[c], b.event)) = ToSet(queue[c]) \union {b.event}
      BY <2>4, <2>6, AppendFacts
    <3>2. \A c \in cs : c \in Clients
      BY <2>7
    <3> HIDE DEF cs
    <3>3. QED
      BY <2>1, <3>1, <3>2, Zenon
  <2>9. InSequence'
    <3>1. \A i, j \in DOMAIN broadcasts' :
            i < j => Before(broadcasts'[i].event, broadcasts'[j].event)
      BY <2>2, <2>3 DEF Flow, InSequence
    <3>2. \A x \in ToSet(broadcasts') : x.event.run <= ran
      BY <2>2, <2>3 DEF Flow, InSequence
    <3>3. ASSUME NEW c \in Clients
          PROVE  /\ Ascending(queue'[c])
                 /\ \A e \in ToSet(queue'[c]) : e.run <= ran
                 /\ \A e \in ToSet(queue'[c]), x \in ToSet(broadcasts') : Before(e, x.event)
      <4>1. /\ Ascending(queue[c])
            /\ \A e \in ToSet(queue[c]) : e.run <= ran /\ Before(e, b.event)
            /\ \A e \in ToSet(queue[c]), x \in ToSet(broadcasts') : Before(e, x.event)
            /\ b.event.run <= ran
        BY <2>2, <2>3 DEF Flow, InSequence
      <4>2. CASE c \in cs
        <5>1. Ascending(queue'[c])
          BY <2>1, <2>4, <2>6, <4>1, <4>2, AscendingAppend
        <5>2. QED
          BY <2>5, <2>8, <4>1, <4>2, <5>1
      <4>3. CASE c \notin cs
        BY <2>1, <4>1, <4>3
      <4>4. QED
        BY <4>2, <4>3
    <3>4. QED
      BY <1>2, <2>2, <3>1, <3>2, <3>3 DEF Flow, InSequence
  <2>10. OnTimeline'
    <3>1. \A c \in Clients : \A e \in ToSet(queue'[c]) :
            e.type # "pipeline_failed" => e \in ToSet(timeline[recordOf[c]])
      BY <2>2, <2>3, <2>7, <2>8 DEF Flow, OnTimeline
    <3>2. QED
      BY <1>2, <2>2, <2>3, <3>1 DEF Flow, OnTimeline
  <2>11. Prefix'
    BY <1>2, <2>2, <2>7, <2>8 DEF Flow, Prefix
  <2>12. \A c \in Clients, e \in Event : Coming(c, e)' => Coming(c, e)
    <3>1. ASSUME NEW c \in Clients, NEW e \in Event, Coming(c, e)'
          PROVE  Coming(c, e)
      <4>1. CASE [record |-> recordOf[c], event |-> e] \in ToSet(broadcasts')
        BY <2>3, <4>1 DEF Coming
      <4>2. CASE e \in ToSet(queue'[c]) /\ c \in cs
        <5>1. e \in ToSet(queue[c]) \/ e = b.event
          BY <2>8, <4>2
        <5>2. b \in ToSet(broadcasts) /\ recordOf[c] = b.record
          BY <2>3, <2>7, <4>2
        <5>3. QED
          BY <2>4, <5>1, <5>2 DEF Coming
      <4>3. CASE e \in ToSet(queue'[c]) /\ c \notin cs
        BY <2>8, <4>3 DEF Coming
      <4>4. QED
        BY <1>2, <3>1, <4>1, <4>2, <4>3 DEF Coming
    <3>2. QED
      BY <3>1
  <2>13. NothingLate'
    BY <1>2, <2>2, <2>12 DEF Flow, NothingLate
  <2>14. Ends'
    <3>1. ASSUME NEW c \in Clients, NEW e \in ToSet(queue'[c]), EndsStream(e)
          PROVE  e.at = StepsPerRun + 1
      <4>1. e \in ToSet(queue[c]) \/ e = b.event
        BY <2>8, <3>1
      <4>2. QED
        BY <2>2, <2>3, <3>1, <4>1 DEF Flow, Ends
    <3>2. QED
      BY <1>2, <2>2, <2>3, <3>1 DEF Flow, Ends
  <2>15. NothingMissed'
    <3> SUFFICES ASSUME NEW c \in Clients, stage[c] = "live",
                        NEW e \in ToSet(timeline[recordOf[c]])
                 PROVE  \/ e \in ToSet(received[c])
                        \/ e \in ToSet(queue'[c])
                        \/ [record |-> recordOf[c], event |-> e] \in ToSet(broadcasts')
      BY <1>2 DEF NothingMissed
    <3>1. \/ e \in ToSet(received[c])
          \/ e \in ToSet(queue[c])
          \/ [record |-> recordOf[c], event |-> e] \in ToSet(broadcasts)
      BY <2>1, <2>2 DEF Flow, NothingMissed
    <3>2. ToSet(queue[c]) \subseteq ToSet(queue'[c])
      BY <2>8
    <3>3. CASE [record |-> recordOf[c], event |-> e] = b
      <4>1. recordOf[c] = b.record /\ e = b.event
        BY <3>3
      <4>2. c \in cs
        BY <1>1, <4>1 DEF Registered
      <4>3. QED
        BY <2>8, <4>1, <4>2
    <3>4. QED
      BY <2>3, <3>1, <3>2, <3>3
  <2>16. (InOrder /\ EndsComplete)'
    BY <1>2, <2>1, <2>2 DEF Flow, InOrder, EndsComplete
  <2>17. QED
    BY <2>1, <2>2, <2>9, <2>10, <2>11, <2>13, <2>14, <2>15, <2>16 DEF Flow
<1>6. QED
  BY <1>3, <1>4, <1>5 DEF ServerIInv

\* A broadcast that goes on has waited.
LEMMA ContinueKeeps ==
  ASSUME ServerIInv, NEW t \in putting, Continue(t)
  PROVE  ServerIInv'
<1> DEFINE reached == Reached(t.record, t.at + 1)
           cs == {subscribers[t.record][j] : j \in reached} \union {t.on}
           n == t.at + 1 + Cardinality(reached)
           rest == Rest(t.record, t.event, n)
<1>1. ServerTypeOK /\ Registered /\ waited
  BY DEF ServerIInv, Flow
<1>2. /\ ~Full(t.on)
      /\ queue' = PutInto(cs, t.event)
      /\ putting' = (putting \ {t}) \union rest
      /\ UNCHANGED <<timeline, subscribers, runs, broadcasts, ran, waited,
                     stage, recordOf, replayed, received>>
  BY DEF Continue, recordVars, clientVars
<1>3. /\ t.record \in DOMAIN timeline /\ t.event \in Event
      /\ t.at \in Nat \ {0} /\ t.on \in Clients
  BY <1>1 DEF ServerTypeOK
<1>4. /\ Cardinality(reached) \in Nat
      /\ \A j \in reached : /\ subscribers[t.record][j] \in ToSet(subscribers[t.record])
                            /\ ~Full(subscribers[t.record][j])
  BY <1>1, <1>3, ReachedFacts
<1>5. cs \in SUBSET Clients /\ \A c \in cs : ~Full(c)
  BY <1>1, <1>2, <1>3, <1>4, RecordFacts
<1>6. rest \subseteq
        [record : DOMAIN timeline, event : Event, at : Nat \ {0}, on : Clients]
  <2>1. n \in Nat \ {0}
    BY <1>3, <1>4
  <2>2. QED
    BY <1>1, <1>3, <2>1, RestFacts
<1>7. /\ queue' \in [Clients -> Seq(Event)]
      /\ \A c \in Clients : Len(queue'[c]) <= QueueSize
  <2> HIDE DEF cs
  <2>1. QED
    BY <1>1, <1>2, <1>3, <1>5, PutFacts
<1>8. putting' \subseteq
        [record : DOMAIN timeline, event : Event, at : Nat \ {0}, on : Clients]
  BY <1>1, <1>2, <1>6 DEF ServerTypeOK
<1>9. ServerTypeOK'
  BY <1>1, <1>2, <1>7, <1>8 DEF ServerTypeOK
<1>10. Registered'
  BY <1>1, <1>2 DEF Registered
<1>11. QED
  BY <1>1, <1>2, <1>9, <1>10 DEF ServerIInv
-----------------------------------------------------------------------------
(***************************************************************************)
(* Streams                                                                 *)
(***************************************************************************)

\* A new stream has received nothing, and its queue is empty.
LEMMA SubscribeKeeps ==
  ASSUME ServerIInv, NEW c \in Clients, Subscribe(c)
  PROVE  ServerIInv'
<1>1. ServerTypeOK /\ Registered
  BY DEF ServerIInv
<1>2. /\ UNCHANGED <<timeline, runs, broadcasts, putting, ran, waited, replayed, queue, received>>
      /\ stage[c] = "none" /\ stage' = [stage EXCEPT ![c] = "subscribed"]
      /\ recordOf' = [recordOf EXCEPT ![c] = Current]
      /\ subscribers' = [subscribers EXCEPT ![Current] = Append(subscribers[Current], c)]
      /\ Current > 0
  BY DEF Subscribe, loopVars
<1>3. /\ stage'[c] = "subscribed" /\ recordOf'[c] = Current
      /\ \A d \in Clients \ {c} : stage'[d] = stage[d] /\ recordOf'[d] = recordOf[d]
  BY <1>1, <1>2 DEF ServerTypeOK
<1>4. Current \in DOMAIN timeline /\ Current \in 0 .. Len(timeline) /\ Current # 0
  BY <1>1, <1>2, RecordFacts DEF Current
<1>5. /\ subscribers' \in Seq(Seq(Clients)) /\ Len(subscribers') = Len(subscribers)
      /\ DOMAIN subscribers' = DOMAIN subscribers
      /\ ToSet(subscribers'[Current]) = ToSet(subscribers[Current]) \union {c}
      /\ \A r \in DOMAIN subscribers \ {Current} : subscribers'[r] = subscribers[r]
  <2> DEFINE S == Seq(Clients)
             new == Append(subscribers[Current], c)
  <2>1. subscribers \in Seq(S) /\ Current \in 1 .. Len(subscribers)
    BY <1>1, <1>4, RecordFacts DEF ServerTypeOK
  <2>2. new \in S /\ ToSet(new) = ToSet(subscribers[Current]) \union {c}
    BY <1>1, <1>4, RecordFacts, AppendFacts
  <2>3. subscribers' = [subscribers EXCEPT ![Current] = new]
    BY <1>2
  <2> HIDE DEF S, new
  <2>4. subscribers' \in Seq(S) /\ Len(subscribers') = Len(subscribers)
        /\ subscribers'[Current] = new
        /\ \A r \in DOMAIN subscribers \ {Current} : subscribers'[r] = subscribers[r]
        /\ DOMAIN subscribers' = DOMAIN subscribers
    BY <2>1, <2>2, <2>3, ExceptSeq, InSeq
  <2>5. QED
    BY <2>2, <2>4 DEF S
<1>6. ServerTypeOK'
  <2>1. stage' \in [Clients -> {"none", "subscribed", "replaying", "live", "ended", "left", "lost"}]
        /\ recordOf' \in [Clients -> 0 .. Len(timeline)]
    BY <1>1, <1>2, <1>4 DEF ServerTypeOK
  <2>2. QED
    BY <1>1, <1>2, <1>5, <2>1 DEF ServerTypeOK
<1>7. Registered'
  <2>1. c \notin ToSet(subscribers[Current])
        /\ \A r \in DOMAIN subscribers : c \notin ToSet(subscribers[r])
    BY <1>1, <1>2, <1>4, RecordFacts DEF Registered
  <2>2. ASSUME NEW d \in Clients
        PROVE  /\ stage'[d] = "none" <=> recordOf'[d] = 0
               /\ stage'[d] \in {"subscribed", "replaying", "live", "lost"} =>
                    d \in ToSet(subscribers'[recordOf'[d]])
    <3>1. CASE d = c
      BY <1>3, <1>4, <1>5, <3>1
    <3>2. CASE d # c
      <4>1. recordOf[d] # 0 => recordOf[d] \in DOMAIN subscribers
        BY <1>1, RecordFacts
      <4>2. recordOf[d] # 0 => ToSet(subscribers[recordOf[d]]) \subseteq ToSet(subscribers'[recordOf[d]])
        BY <1>5, <4>1
      <4>3. QED
        BY <1>1, <1>3, <3>2, <4>2 DEF Registered
    <3>3. QED
      BY <3>1, <3>2
  <2>3. ASSUME NEW r \in DOMAIN subscribers, NEW d \in ToSet(subscribers'[r])
        PROVE  recordOf'[d] = r
    <3>1. d \in ToSet(subscribers[r]) \/ (d = c /\ r = Current)
      BY <1>5, <2>3
    <3>2. ToSet(subscribers[r]) \subseteq Clients
      BY <1>1, RecordFacts
    <3>3. QED
      BY <1>1, <1>3, <2>1, <3>1, <3>2 DEF Registered
  <2>4. QED
    BY <1>5, <2>2, <2>3 DEF Registered
<1>8. ASSUME ~waited
      PROVE  Flow'
  <2>1. Flow
    BY <1>8 DEF ServerIInv
  <2>2. InSequence'
    BY <1>2, <2>1 DEF Flow, InSequence
  <2>3. OnTimeline'
    BY <1>2, <1>3, <2>1 DEF Flow, OnTimeline, Prefix
  <2>4. Prefix'
    BY <1>2, <1>3, <2>1 DEF Flow, Prefix
  <2>5. (NothingLate /\ Ends)'
    <3>1. NothingLate'
      BY <1>2, <1>3, <2>1 DEF Flow, NothingLate, Coming
    <3>2. Ends'
      BY <1>2, <1>3, <2>1 DEF Flow, Ends
    <3>3. QED
      BY <3>1, <3>2
  <2>6. (NothingMissed /\ InOrder /\ EndsComplete)'
    <3>1. NothingMissed'
      BY <1>2, <1>3, <1>8, <2>1 DEF Flow, NothingMissed
    <3>2. InOrder'
      BY <1>2, <2>1 DEF Flow, InOrder
    <3>3. EndsComplete'
      BY <1>2, <1>3, <1>8, <2>1 DEF Flow, EndsComplete
    <3>4. QED
      BY <3>1, <3>2, <3>3
  <2>7. QED
    BY <1>2, <2>1, <2>2, <2>3, <2>4, <2>5, <2>6 DEF Flow
<1>9. QED
  BY <1>2, <1>6, <1>7, <1>8 DEF ServerIInv

\* Nothing has been replayed yet.
LEMMA BeginStreamKeeps ==
  ASSUME ServerIInv, NEW c \in Clients, BeginStream(c)
  PROVE  ServerIInv'
<1>1. ServerTypeOK /\ Registered
  BY DEF ServerIInv
<1>2. /\ UNCHANGED <<timeline, subscribers, runs, broadcasts, putting, ran, waited,
                     recordOf, replayed, queue, received>>
      /\ stage[c] = "subscribed" /\ stage' = [stage EXCEPT ![c] = "replaying"]
  BY DEF BeginStream, recordVars, loopVars
<1>3. /\ stage'[c] = "replaying"
      /\ \A d \in Clients \ {c} : stage'[d] = stage[d]
  BY <1>1, <1>2 DEF ServerTypeOK
<1>4. ServerTypeOK'
  <2>1. stage' \in [Clients -> {"none", "subscribed", "replaying", "live", "ended", "left", "lost"}]
    BY <1>1, <1>2 DEF ServerTypeOK
  <2>2. QED
    BY <1>1, <1>2, <2>1 DEF ServerTypeOK
<1>5. Registered'
  BY <1>1, <1>2, <1>3 DEF Registered
<1>6. ASSUME ~waited
      PROVE  Flow'
  <2>1. Flow
    BY <1>6 DEF ServerIInv
  <2>2. (InSequence /\ OnTimeline /\ InOrder)'
    BY <1>2, <2>1 DEF Flow, InSequence, OnTimeline, InOrder
  <2>3. Prefix'
    <3>1. replayed[c] = 0 /\ Len(timeline[recordOf[c]]) \in Nat
      <4>1. timeline[recordOf[c]] \in Seq(Event)
        BY <1>1, <1>2, RecordFacts DEF Registered
      <4>2. QED
        BY <1>2, <2>1, <4>1 DEF Flow, Prefix
    <3>2. QED
      BY <1>2, <1>3, <2>1, <3>1 DEF Flow, Prefix
  <2>4. NothingLate'
    BY <1>2, <1>3, <2>1 DEF Flow, NothingLate, Coming
  <2>5. Ends'
    BY <1>2, <1>3, <2>1 DEF Flow, Ends
  <2>6. (NothingMissed /\ EndsComplete)'
    BY <1>2, <1>3, <1>6, <2>1 DEF Flow, NothingMissed, EndsComplete
  <2>7. QED
    BY <1>2, <2>1, <2>2, <2>3, <2>4, <2>5, <2>6 DEF Flow
<1>7. QED
  BY <1>2, <1>4, <1>5, <1>6 DEF ServerIInv

\* What is replayed is in the order of the timeline.
LEMMA ReplayKeeps ==
  ASSUME ServerIInv, NEW c \in Clients, Replay(c)
  PROVE  ServerIInv'
<1> DEFINE r == recordOf[c]
           n == replayed[c] + 1
           e == timeline[r][n]
<1>1. ServerTypeOK /\ Registered
  BY DEF ServerIInv
<1>2. /\ UNCHANGED <<timeline, subscribers, runs, broadcasts, putting, ran, waited,
                     stage, recordOf, queue>>
      /\ stage[c] = "replaying" /\ replayed[c] < Len(timeline[r])
      /\ replayed' = [replayed EXCEPT ![c] = @ + 1]
      /\ received' = [received EXCEPT ![c] = Append(received[c], timeline[r][replayed'[c]])]
  BY DEF Replay, recordVars, loopVars
<1>3. /\ replayed[c] \in Nat /\ replayed'[c] = n
      /\ \A d \in Clients \ {c} : replayed'[d] = replayed[d] /\ received'[d] = received[d]
      /\ received'[c] = Append(received[c], e)
  BY <1>1, <1>2 DEF ServerTypeOK
<1>4. r \in DOMAIN timeline /\ timeline[r] \in Seq(Event)
  BY <1>1, <1>2, RecordFacts DEF Registered
<1>5. /\ Len(timeline[r]) \in Nat /\ DOMAIN timeline[r] = 1 .. Len(timeline[r])
      /\ n \in DOMAIN timeline[r] /\ n <= Len(timeline[r])
      /\ e \in Event /\ e \in ToSet(timeline[r])
  <2>1. Len(timeline[r]) \in Nat /\ DOMAIN timeline[r] = 1 .. Len(timeline[r])
    BY <1>4, InSeq
  <2>2. n \in DOMAIN timeline[r] /\ n <= Len(timeline[r])
    BY <1>2, <1>3, <2>1
  <2>3. QED
    BY <1>4, <2>1, <2>2, InSeq
<1> HIDE DEF e
<1>6. received[c] \in Seq(Event) /\ Len(received[c]) \in Nat
      /\ DOMAIN received[c] = 1 .. Len(received[c])
  BY <1>1, InSeq DEF ServerTypeOK
<1>7. /\ received'[c] \in Seq(Event) /\ Len(received'[c]) = Len(received[c]) + 1
      /\ DOMAIN received'[c] = 1 .. Len(received[c]) + 1
      /\ \A i \in DOMAIN received[c] : received'[c][i] = received[c][i]
      /\ received'[c][Len(received[c]) + 1] = e
      /\ ToSet(received'[c]) = ToSet(received[c]) \union {e}
  BY <1>3, <1>5, <1>6, AppendFacts
<1>8. ServerTypeOK'
  <2>1. replayed' \in [Clients -> Nat] /\ received' \in [Clients -> Seq(Event)]
    BY <1>1, <1>2, <1>3, <1>7 DEF ServerTypeOK
  <2>2. QED
    BY <1>1, <1>2, <2>1 DEF ServerTypeOK
<1>9. Registered'
  BY <1>1, <1>2 DEF Registered
<1>10. ASSUME ~waited
       PROVE  Flow'
  <2>1. Flow
    BY <1>10 DEF ServerIInv
  <2>2. /\ Len(received[c]) = replayed[c]
        /\ \A k \in 1 .. replayed[c] : received[c][k] = timeline[r][k]
    BY <1>2, <2>1 DEF Flow, Prefix
  <2>3. \A k \in 1 .. n : received'[c][k] = timeline[r][k]
    BY <1>3, <1>6, <1>7, <2>2 DEF e
  <2>4. InSequence'
    <3>1. \A d \in Clients : \A f \in ToSet(received'[d]) : f.run <= ran
      BY <1>3, <1>4, <1>5, <1>7, <2>1 DEF Flow, InSequence
    <3>2. QED
      BY <1>2, <2>1, <3>1 DEF Flow, InSequence
  <2>5. (OnTimeline /\ NothingMissed)'
    <3>1. OnTimeline'
      BY <1>2, <2>1 DEF Flow, OnTimeline
    <3>2. NothingMissed'
      BY <1>2, <1>3, <1>10, <2>1 DEF Flow, NothingMissed
    <3>3. QED
      BY <3>1, <3>2
  <2>6. Prefix'
    <3>1. Len(received'[c]) = n
      BY <1>7, <2>2
    <3>2. ASSUME NEW d \in Clients
          PROVE  /\ stage[d] = "none" => ToSet(queue[d]) = {}
                 /\ stage[d] \in {"none", "subscribed"} => replayed'[d] = 0
                 /\ stage[d] \in {"none", "subscribed", "replaying"} =>
                      Len(received'[d]) = replayed'[d]
                 /\ stage[d] = "replaying" =>
                      /\ replayed'[d] <= Len(timeline[recordOf[d]])
                      /\ \A k \in 1 .. replayed'[d] :
                           received'[d][k] = timeline[recordOf[d]][k]
      <4>1. CASE d = c
        BY <1>2, <1>3, <1>5, <2>3, <3>1, <4>1
      <4>2. CASE d # c
        <5>1. replayed'[d] = replayed[d] /\ received'[d] = received[d]
          BY <1>3, <4>2
        <5>2. QED
          BY <2>1, <5>1 DEF Flow, Prefix
      <4>3. QED
        BY <4>1, <4>2
    <3>3. QED
      BY <1>2, <3>2 DEF Prefix
  <2>7. NothingLate'
    <3>1. \A d \in Clients : stage[d] = "live" => received'[d] = received[d]
      BY <1>2, <1>3
    <3>2. QED
      BY <1>2, <2>1, <3>1 DEF Flow, NothingLate, Coming
  <2>8. (Ends /\ EndsComplete)'
    <3>1. Ends'
      BY <1>2, <1>3, <2>1 DEF Flow, Ends
    <3>2. EndsComplete'
      BY <1>2, <1>3, <1>10, <2>1 DEF Flow, EndsComplete
    <3>3. QED
      BY <3>1, <3>2
  <2>9. InOrder'
    <3>1. ASSUME NEW i \in DOMAIN received'[c], NEW j \in DOMAIN received'[c], i < j
          PROVE  ~Before(received'[c][j], received'[c][i])
      <4>1. i \in 1 .. n /\ j \in 1 .. n /\ n \in Nat
        BY <1>3, <1>7, <2>2, <3>1
      <4>2. /\ i \in DOMAIN timeline[r] /\ j \in DOMAIN timeline[r]
            /\ received'[c][i] = timeline[r][i] /\ received'[c][j] = timeline[r][j]
        BY <1>5, <2>3, <4>1
      <4>3. Before(timeline[r][i], timeline[r][j])
        BY <1>4, <2>1, <3>1, <4>2 DEF Flow, InSequence, Ascending
      <4>4. QED
        BY <1>4, <4>2, <4>3, InSeq, BeforeFacts
    <3>2. \A d \in Clients : d # c => received'[d] = received[d]
      BY <1>3
    <3>3. QED
      BY <1>10, <2>1, <3>1, <3>2 DEF Flow, InOrder
  <2>10. QED
    BY <1>2, <2>1, <2>4, <2>5, <2>6, <2>7, <2>8, <2>9 DEF Flow
<1>11. QED
  BY <1>2, <1>8, <1>9, <1>10 DEF ServerIInv

\* At the end of the replay the client has the whole timeline, in its order:
\* no step that is still to come is new to it and late.
LEMMA EndReplayKeeps ==
  ASSUME ServerIInv, NEW c \in Clients, EndReplay(c)
  PROVE  ServerIInv'
<1> DEFINE r == recordOf[c]
<1>1. ServerTypeOK /\ Registered
  BY DEF ServerIInv
<1>2. /\ UNCHANGED <<timeline, subscribers, runs, broadcasts, putting, ran, waited,
                     recordOf, replayed, queue, received>>
      /\ stage[c] = "replaying" /\ stage' = [stage EXCEPT ![c] = "live"]
      /\ replayed[c] = Len(timeline[r])
  BY DEF EndReplay, recordVars, loopVars
<1>3. /\ stage'[c] = "live"
      /\ \A d \in Clients \ {c} : stage'[d] = stage[d]
  BY <1>1, <1>2 DEF ServerTypeOK
<1>4. ServerTypeOK'
  <2>1. stage' \in [Clients -> {"none", "subscribed", "replaying", "live", "ended", "left", "lost"}]
    BY <1>1, <1>2 DEF ServerTypeOK
  <2>2. QED
    BY <1>1, <1>2, <2>1 DEF ServerTypeOK
<1>5. Registered'
  BY <1>1, <1>2, <1>3 DEF Registered
<1>6. ASSUME ~waited
      PROVE  Flow'
  <2>1. Flow
    BY <1>6 DEF ServerIInv
  <2>2. r \in DOMAIN timeline /\ timeline[r] \in Seq(Event)
    BY <1>1, <1>2, RecordFacts DEF Registered
  <2>3. /\ Len(timeline[r]) \in Nat /\ DOMAIN timeline[r] = 1 .. Len(timeline[r])
        /\ \A k \in DOMAIN timeline[r] : timeline[r][k] \in Event
    BY <2>2, InSeq
  <2>4. /\ DOMAIN received[c] = DOMAIN timeline[r]
        /\ \A k \in DOMAIN timeline[r] : received[c][k] = timeline[r][k]
    <3>1. /\ Len(received[c]) = Len(timeline[r])
          /\ \A k \in 1 .. Len(timeline[r]) : received[c][k] = timeline[r][k]
      BY <1>2, <2>1 DEF Flow, Prefix
    <3>2. DOMAIN received[c] = 1 .. Len(received[c])
      BY <1>1, InSeq DEF ServerTypeOK
    <3>3. QED
      BY <2>3, <3>1, <3>2
  <2>5. (InSequence /\ OnTimeline /\ InOrder)'
    BY <1>2, <2>1 DEF Flow, InSequence, OnTimeline, InOrder
  <2>6. Prefix'
    BY <1>2, <1>3, <2>1 DEF Flow, Prefix
  <2>7. NothingLate'
    <3>1. ASSUME NEW e \in Event, Coming(c, e), e.type # "pipeline_failed",
                 NEW i \in DOMAIN received[c], Before(e, received[c][i])
          PROVE  \E k \in 1 .. i - 1 : received[c][k] = e
      <4>1. e \in ToSet(timeline[r])
        <5>1. CASE e \in ToSet(queue[c])
          BY <2>1, <3>1, <5>1 DEF Flow, OnTimeline
        <5>2. CASE [record |-> r, event |-> e] \in ToSet(broadcasts)
          BY <2>1, <3>1, <5>2 DEF Flow, OnTimeline
        <5>3. QED
          BY <3>1, <5>1, <5>2 DEF Coming
      <4>2. PICK k \in DOMAIN timeline[r] : timeline[r][k] = e
        BY <4>1 DEF ToSet
      <4>3. i \in DOMAIN timeline[r] /\ received[c][i] = timeline[r][i]
        BY <2>4
      <4>4. ~Before(timeline[r][i], e) /\ e # timeline[r][i]
        BY <2>3, <3>1, <4>3, BeforeFacts
      <4>5. k # i /\ ~(i < k)
        BY <2>1, <2>2, <4>2, <4>3, <4>4 DEF Flow, InSequence, Ascending
      <4>6. k \in 1 .. i - 1
        BY <2>3, <4>3, <4>5
      <4>7. QED
        BY <2>4, <4>2, <4>6
    <3>2. QED
      BY <1>2, <1>3, <2>1, <3>1 DEF Flow, NothingLate, Coming
  <2>8. Ends'
    BY <1>2, <1>3, <2>1 DEF Flow, Ends
  <2>9. NothingMissed'
    <3>1. \A e \in ToSet(timeline[r]) : e \in ToSet(received[c])
      BY <2>4 DEF ToSet
    <3>2. QED
      BY <1>2, <1>3, <1>6, <2>1, <3>1 DEF Flow, NothingMissed
  <2>10. EndsComplete'
    BY <1>2, <1>3, <1>6, <2>1 DEF Flow, EndsComplete
  <2>11. QED
    BY <1>2, <2>1, <2>5, <2>6, <2>7, <2>8, <2>9, <2>10 DEF Flow
<1>7. QED
  BY <1>2, <1>4, <1>5, <1>6 DEF ServerIInv

\* Whoever unsubscribes leaves the other subscribers in the list.
LEMMA UnsubscribeFacts ==
  ASSUME ServerTypeOK, Registered, NEW c \in Clients, recordOf[c] # 0, Unsubscribe(c)
  PROVE  /\ subscribers' \in Seq(Seq(Clients)) /\ Len(subscribers') = Len(subscribers)
         /\ DOMAIN subscribers' = DOMAIN subscribers
         /\ \A r \in DOMAIN subscribers :
              /\ ToSet(subscribers'[r]) \subseteq ToSet(subscribers[r])
              /\ ToSet(subscribers[r]) \ {c} \subseteq ToSet(subscribers'[r])
<1> DEFINE S == Seq(Clients)
           r == recordOf[c]
           queues == subscribers[r]
<1>1. /\ r \in DOMAIN subscribers /\ DOMAIN subscribers = 1 .. Len(subscribers)
      /\ queues \in S /\ subscribers \in Seq(S)
  BY RecordFacts, InSeq DEF ServerTypeOK
<1>2. PICK i \in DOMAIN queues :
        /\ queues[i] = c
        /\ subscribers' = [subscribers EXCEPT ![r] = RemoveAt(queues, i)]
  BY DEF Unsubscribe
<1> DEFINE new == RemoveAt(queues, i)
<1>3. /\ new \in S
      /\ ToSet(new) \subseteq ToSet(queues)
      /\ ToSet(queues) \ {c} \subseteq ToSet(new)
  BY <1>1, <1>2, RemoveAtFacts
<1> HIDE DEF S, new
<1>4. /\ subscribers' \in Seq(S) /\ Len(subscribers') = Len(subscribers)
      /\ subscribers'[r] = new
      /\ \A k \in DOMAIN subscribers \ {r} : subscribers'[k] = subscribers[k]
      /\ DOMAIN subscribers' = DOMAIN subscribers
  <2>1. subscribers' = [subscribers EXCEPT ![r] = new]
    BY <1>2 DEF new
  <2>2. QED
    BY <1>1, <1>3, <2>1, ExceptSeq, InSeq
<1>5. QED
  BY <1>1, <1>3, <1>4 DEF S

\* A client that leaves unsubscribes.
LEMMA LeaveKeeps ==
  ASSUME ServerIInv, NEW c \in Clients, Leave(c)
  PROVE  ServerIInv'
<1>1. ServerTypeOK /\ Registered
  BY DEF ServerIInv
<1>2. /\ UNCHANGED <<timeline, runs, broadcasts, putting, ran, waited,
                     recordOf, replayed, queue, received>>
      /\ stage[c] \in {"replaying", "live"} /\ stage' = [stage EXCEPT ![c] = "left"]
      /\ Unsubscribe(c)
  BY DEF Leave, loopVars
<1>3. /\ stage'[c] = "left" /\ recordOf[c] # 0
      /\ \A d \in Clients \ {c} : stage'[d] = stage[d]
  BY <1>1, <1>2 DEF ServerTypeOK, Registered
<1>4. ServerTypeOK'
  <2>1. stage' \in [Clients -> {"none", "subscribed", "replaying", "live", "ended", "left", "lost"}]
    BY <1>1, <1>2 DEF ServerTypeOK
  <2>2. subscribers' \in Seq(Seq(Clients)) /\ Len(subscribers') = Len(timeline)
    BY <1>1, <1>2, <1>3, UnsubscribeFacts DEF ServerTypeOK
  <2>3. QED
    BY <1>1, <1>2, <2>1, <2>2 DEF ServerTypeOK
<1>5. Registered'
  <2>1. \A d \in Clients : recordOf[d] # 0 => recordOf[d] \in DOMAIN subscribers
    BY <1>1, RecordFacts
  <2>2. ASSUME NEW d \in Clients, d # c,
               stage[d] \in {"subscribed", "replaying", "live", "lost"}
        PROVE  d \in ToSet(subscribers'[recordOf[d]])
    BY <1>1, <1>2, <1>3, <2>1, <2>2, UnsubscribeFacts DEF Registered
  <2>3. \A r \in DOMAIN subscribers' : \A d \in ToSet(subscribers'[r]) : recordOf[d] = r
    BY <1>1, <1>2, <1>3, UnsubscribeFacts DEF Registered
  <2>4. QED
    BY <1>1, <1>2, <1>3, <2>2, <2>3 DEF Registered
<1>6. ASSUME ~waited
      PROVE  Flow'
  <2>1. Flow
    BY <1>6 DEF ServerIInv
  <2>2. (InSequence /\ OnTimeline /\ InOrder)'
    BY <1>2, <2>1 DEF Flow, InSequence, OnTimeline, InOrder
  <2>3. Prefix'
    BY <1>2, <1>3, <2>1 DEF Flow, Prefix
  <2>4. NothingLate'
    BY <1>2, <1>3, <2>1 DEF Flow, NothingLate, Coming
  <2>5. Ends'
    BY <1>2, <1>3, <2>1 DEF Flow, Ends
  <2>6. NothingMissed'
    BY <1>2, <1>3, <1>6, <2>1 DEF Flow, NothingMissed
  <2>7. EndsComplete'
    BY <1>2, <1>3, <1>6, <2>1 DEF Flow, EndsComplete
  <2>8. QED
    BY <1>2, <2>1, <2>2, <2>3, <2>4, <2>5, <2>6, <2>7 DEF Flow
<1>7. QED
  BY <1>2, <1>4, <1>5, <1>6 DEF ServerIInv

\* One that leaves before its stream began does not.
LEMMA LeaveEarlyKeeps ==
  ASSUME ServerIInv, NEW c \in Clients, LeaveEarly(c)
  PROVE  ServerIInv'
<1>1. ServerTypeOK /\ Registered
  BY DEF ServerIInv
<1>2. /\ UNCHANGED <<timeline, subscribers, runs, broadcasts, putting, ran, waited,
                     recordOf, replayed, queue, received>>
      /\ stage[c] = "subscribed" /\ stage' = [stage EXCEPT ![c] = "lost"]
  BY DEF LeaveEarly, recordVars, loopVars
<1>3. /\ stage'[c] = "lost"
      /\ \A d \in Clients \ {c} : stage'[d] = stage[d]
  BY <1>1, <1>2 DEF ServerTypeOK
<1>4. ServerTypeOK'
  <2>1. stage' \in [Clients -> {"none", "subscribed", "replaying", "live", "ended", "left", "lost"}]
    BY <1>1, <1>2 DEF ServerTypeOK
  <2>2. QED
    BY <1>1, <1>2, <2>1 DEF ServerTypeOK
<1>5. Registered'
  BY <1>1, <1>2, <1>3 DEF Registered
<1>6. ASSUME ~waited
      PROVE  Flow'
  <2>1. Flow
    BY <1>6 DEF ServerIInv
  <2>2. (InSequence /\ OnTimeline /\ InOrder)'
    BY <1>2, <2>1 DEF Flow, InSequence, OnTimeline, InOrder
  <2>3. Prefix'
    BY <1>2, <1>3, <2>1 DEF Flow, Prefix
  <2>4. NothingLate'
    BY <1>2, <1>3, <2>1 DEF Flow, NothingLate, Coming
  <2>5. Ends'
    BY <1>2, <1>3, <2>1 DEF Flow, Ends
  <2>6. NothingMissed'
    BY <1>2, <1>3, <1>6, <2>1 DEF Flow, NothingMissed
  <2>7. EndsComplete'
    BY <1>2, <1>3, <1>6, <2>1 DEF Flow, EndsComplete
  <2>8. QED
    BY <1>2, <2>1, <2>2, <2>3, <2>4, <2>5, <2>6, <2>7 DEF Flow
<1>7. QED
  BY <1>2, <1>4, <1>5, <1>6 DEF ServerIInv

\* The oldest event in the queue is sent: it is older than what is still to
\* come, and no late step unless the client has it.
LEMMA GetKeeps ==
  ASSUME ServerIInv, NEW c \in Clients, Get(c)
  PROVE  ServerIInv'
<1> DEFINE r == recordOf[c]
           e == Head(queue[c])
           n == Len(received[c])
<1>1. ServerTypeOK /\ Registered
  BY DEF ServerIInv
<1>2. /\ UNCHANGED <<timeline, runs, broadcasts, putting, ran, waited, recordOf, replayed>>
      /\ stage[c] = "live" /\ queue[c] # <<>>
      /\ queue' = [queue EXCEPT ![c] = Tail(@)]
      /\ received' = [received EXCEPT ![c] = Append(@, e)]
      /\ \/ EndsStream(e) /\ stage' = [stage EXCEPT ![c] = "ended"] /\ Unsubscribe(c)
         \/ ~EndsStream(e) /\ UNCHANGED <<stage, subscribers>>
  BY DEF Get, loopVars
<1>3. /\ queue[c] \in Seq(Event) /\ received[c] \in Seq(Event)
      /\ queue'[c] = Tail(queue[c]) /\ received'[c] = Append(received[c], e)
      /\ \A d \in Clients \ {c} : queue'[d] = queue[d] /\ received'[d] = received[d]
  BY <1>1, <1>2 DEF ServerTypeOK
<1>4. /\ \A d \in Clients \ {c} : stage'[d] = stage[d]
      /\ stage'[c] = IF EndsStream(e) THEN "ended" ELSE "live"
      /\ stage' \in [Clients -> {"none", "subscribed", "replaying", "live", "ended", "left", "lost"}]
  <2>1. stage \in [Clients -> {"none", "subscribed", "replaying", "live", "ended", "left", "lost"}]
    BY <1>1 DEF ServerTypeOK
  <2> HIDE DEF e
  <2>2. QED
    BY <1>2, <2>1
<1>5. /\ e \in Event /\ Tail(queue[c]) \in Seq(Event)
      /\ Len(Tail(queue[c])) = Len(queue[c]) - 1
      /\ ToSet(queue[c]) = ToSet(Tail(queue[c])) \union {e}
      /\ ToSet(queue[c]) \subseteq Event
  BY <1>2, <1>3, TailFacts, InSeq
<1>6. r # 0 /\ r \in DOMAIN timeline
  BY <1>1, <1>2, RecordFacts DEF Registered
<1>7. /\ subscribers' \in Seq(Seq(Clients)) /\ Len(subscribers') = Len(timeline)
      /\ DOMAIN subscribers' = DOMAIN subscribers
      /\ \A k \in DOMAIN subscribers :
           /\ ToSet(subscribers'[k]) \subseteq ToSet(subscribers[k])
           /\ ToSet(subscribers[k]) \ {c} \subseteq ToSet(subscribers'[k])
      /\ ~EndsStream(e) => subscribers' = subscribers
  <2>1. CASE EndsStream(e)
    BY <1>1, <1>2, <1>6, <2>1, UnsubscribeFacts DEF ServerTypeOK
  <2>2. CASE ~EndsStream(e)
    BY <1>1, <1>2, <2>2 DEF ServerTypeOK
  <2>3. QED
    BY <2>1, <2>2
<1> HIDE DEF e
<1>8. /\ n \in Nat /\ DOMAIN received[c] = 1 .. n
      /\ received'[c] \in Seq(Event) /\ Len(received'[c]) = n + 1
      /\ DOMAIN received'[c] = 1 .. n + 1
      /\ \A i \in 1 .. n : received'[c][i] = received[c][i]
      /\ received'[c][n + 1] = e
      /\ ToSet(received'[c]) = ToSet(received[c]) \union {e}
  BY <1>3, <1>5, InSeq, AppendFacts
<1>9. ServerTypeOK'
  <2>1. queue' \in [Clients -> Seq(Event)] /\ received' \in [Clients -> Seq(Event)]
    BY <1>1, <1>2, <1>3, <1>5, <1>8 DEF ServerTypeOK
  <2>2. \A d \in Clients : Len(queue'[d]) <= QueueSize
    <3>1. Len(queue[c]) \in Nat /\ Len(queue[c]) <= QueueSize
      BY <1>1, <1>3, InSeq DEF ServerTypeOK
    <3>2. Len(queue'[c]) <= QueueSize
      BY <1>3, <1>5, <3>1, ServerAssumption
    <3>3. QED
      BY <1>1, <1>3, <3>2 DEF ServerTypeOK
  <2>3. QED
    BY <1>1, <1>2, <1>4, <1>7, <2>1, <2>2 DEF ServerTypeOK
<1>10. Registered'
  <2>1. \A d \in Clients : recordOf[d] # 0 => recordOf[d] \in DOMAIN subscribers
    BY <1>1, RecordFacts
  <2>2. ASSUME NEW d \in Clients,
               stage'[d] \in {"subscribed", "replaying", "live", "lost"}
        PROVE  d \in ToSet(subscribers'[recordOf[d]])
    <3>1. CASE d = c
      BY <1>1, <1>2, <1>4, <1>7, <2>2, <3>1 DEF Registered
    <3>2. CASE d # c
      BY <1>1, <1>4, <1>7, <2>1, <2>2, <3>2 DEF Registered
    <3>3. QED
      BY <3>1, <3>2
  <2>3. \A k \in DOMAIN subscribers' : \A d \in ToSet(subscribers'[k]) : recordOf[d] = k
    BY <1>1, <1>7 DEF Registered
  <2>4. \A d \in Clients : stage'[d] = "none" <=> recordOf[d] = 0
    BY <1>1, <1>2, <1>4, <1>6 DEF Registered
  <2>5. QED
    BY <1>2, <2>2, <2>3, <2>4 DEF Registered
<1>11. ASSUME ~waited
       PROVE  Flow'
  <2>1. Flow
    BY <1>11 DEF ServerIInv
  <2>2. /\ Ascending(queue'[c])
        /\ \A f \in ToSet(queue'[c]) : Before(e, f)
        /\ ToSet(queue[c]) = ToSet(queue'[c]) \union {e}
    BY <1>2, <1>3, <1>5, <2>1, AscendingTail DEF Flow, InSequence, e
  <2>3. \A d \in Clients : ToSet(queue'[d]) \subseteq ToSet(queue[d])
    BY <1>3, <2>2
  \* What is still to come was to come before, and is younger.
  <2>4. \A f \in Event : Coming(c, f)' => Coming(c, f) /\ Before(e, f)
    <3>1. ASSUME NEW f \in Event, [record |-> r, event |-> f] \in ToSet(broadcasts)
          PROVE  Before(e, f)
      <4>1. Before(e, [record |-> r, event |-> f].event)
        BY <2>1, <2>2, <3>1 DEF Flow, InSequence
      <4>2. QED
        BY <4>1
    <3>2. QED
      BY <1>2, <2>2, <3>1 DEF Coming
  <2>5. InSequence'
    <3>1. \A d \in Clients : \A f \in ToSet(received'[d]) : f.run <= ran
      BY <1>3, <1>8, <2>1, <2>2 DEF Flow, InSequence
    <3>2. \A d \in Clients :
            /\ Ascending(queue'[d])
            /\ \A f \in ToSet(queue'[d]) : f.run <= ran
            /\ \A f \in ToSet(queue'[d]), b \in ToSet(broadcasts) : Before(f, b.event)
      BY <1>3, <2>1, <2>2, <2>3 DEF Flow, InSequence
    <3>3. QED
      BY <1>2, <2>1, <3>1, <3>2 DEF Flow, InSequence
  <2>6. OnTimeline'
    BY <1>2, <2>1, <2>3 DEF Flow, OnTimeline
  <2>7. Prefix'
    <3>1. \A d \in Clients : stage'[d] \in {"none", "subscribed", "replaying"} =>
            stage'[d] = stage[d] /\ queue'[d] = queue[d] /\ received'[d] = received[d]
      BY <1>3, <1>4
    <3>2. QED
      BY <1>2, <2>1, <3>1 DEF Flow, Prefix
  <2>8. NothingLate'
    <3>1. ASSUME NEW f \in Event, Coming(c, f)', f.type # "pipeline_failed",
                 NEW i \in DOMAIN received'[c], Before(f, received'[c][i])
          PROVE  \E k \in 1 .. i - 1 : received'[c][k] = f
      <4>1. CASE i = n + 1
        <5>1. Before(f, e) /\ Before(e, f)
          BY <1>8, <2>4, <3>1, <4>1
        <5>2. QED
          BY <1>5, <5>1, BeforeFacts
      <4>2. CASE i # n + 1
        <5>1. i \in 1 .. n /\ received'[c][i] = received[c][i]
          BY <1>8, <4>2
        <5>2. PICK k \in 1 .. i - 1 : received[c][k] = f
          BY <1>2, <1>8, <2>1, <2>4, <3>1, <5>1 DEF Flow, NothingLate
        <5>3. k \in 1 .. n
          BY <1>8, <5>1
        <5>4. QED
          BY <1>8, <5>2, <5>3
      <4>3. QED
        BY <4>1, <4>2
    <3>2. ASSUME NEW d \in Clients, d # c, stage'[d] = "live",
                 NEW f \in Event, Coming(d, f)', f.type # "pipeline_failed",
                 NEW i \in DOMAIN received'[d], Before(f, received'[d][i])
          PROVE  \E k \in 1 .. i - 1 : received'[d][k] = f
      <4>1. stage[d] = "live" /\ received'[d] = received[d] /\ Coming(d, f)
        BY <1>2, <1>3, <1>4, <3>2 DEF Coming
      <4>2. QED
        BY <2>1, <3>2, <4>1 DEF Flow, NothingLate
    <3>3. QED
      BY <3>1, <3>2 DEF NothingLate
  <2>9. Ends'
    <3>1. received'[c] # <<>>
      BY <1>8
    <3>2. \A d \in Clients : \A f \in ToSet(queue'[d]) :
            EndsStream(f) => f.at = StepsPerRun + 1
      BY <2>1, <2>3 DEF Flow, Ends
    <3>3. QED
      BY <1>2, <1>3, <1>4, <2>1, <3>1, <3>2 DEF Flow, Ends
  <2>10. \A f \in ToSet(timeline[r]) :
           \/ f \in ToSet(received'[c])
           \/ f \in ToSet(queue'[c])
           \/ [record |-> r, event |-> f] \in ToSet(broadcasts)
    BY <1>2, <1>8, <1>11, <2>1, <2>2 DEF Flow, NothingMissed
  <2>11. NothingMissed'
    <3>1. \A d \in Clients : d # c /\ stage'[d] = "live" =>
            stage[d] = "live" /\ queue'[d] = queue[d] /\ received'[d] = received[d]
      BY <1>3, <1>4
    <3>2. QED
      BY <1>2, <1>11, <2>1, <2>10, <3>1 DEF Flow, NothingMissed
  <2>12. InOrder'
    <3>1. ASSUME NEW i \in 1 .. n + 1, NEW j \in 1 .. n + 1, i < j,
                 Before(received'[c][j], received'[c][i]),
                 received'[c][j].type # "pipeline_failed"
          PROVE  \E k \in 1 .. i - 1 : received'[c][k] = received'[c][j]
      <4>1. i \in 1 .. n /\ received'[c][i] = received[c][i]
        BY <1>8, <3>1
      <4>2. PICK k \in 1 .. i - 1 : received[c][k] = received'[c][j]
        <5>1. CASE j = n + 1
          <6>1. received'[c][j] = e /\ Coming(c, e)
            BY <1>8, <2>2, <5>1 DEF Coming
          <6>2. /\ i \in DOMAIN received[c] /\ Before(e, received[c][i])
                /\ e.type # "pipeline_failed"
            BY <1>8, <3>1, <4>1, <6>1
          <6>3. \E k \in 1 .. i - 1 : received[c][k] = e
            BY <1>2, <1>5, <2>1, <6>1, <6>2 DEF Flow, NothingLate
          <6>4. QED
            BY <6>1, <6>3
        <5>2. CASE j # n + 1
          <6>1. j \in 1 .. n /\ received'[c][j] = received[c][j]
            BY <1>8, <5>2
          <6>2. QED
            BY <1>8, <1>11, <2>1, <3>1, <4>1, <6>1 DEF Flow, InOrder
        <5>3. QED
          BY <5>1, <5>2
      <4>3. k \in 1 .. n
        BY <1>8, <4>1
      <4>4. QED
        BY <1>8, <4>2, <4>3
    <3>2. ASSUME NEW d \in Clients,
                 NEW i \in DOMAIN received'[d], NEW j \in DOMAIN received'[d], i < j,
                 Before(received'[d][j], received'[d][i]),
                 received'[d][j].type # "pipeline_failed"
          PROVE  \E k \in 1 .. i - 1 : received'[d][k] = received'[d][j]
      <4>1. CASE d = c
        BY <1>8, <3>1, <3>2, <4>1
      <4>2. CASE d # c
        <5>1. received'[d] = received[d]
          BY <1>3, <4>2
        <5>2. QED
          BY <1>11, <2>1, <3>2, <5>1 DEF Flow, InOrder
      <4>3. QED
        BY <4>1, <4>2
    <3>3. QED
      BY <3>2 DEF InOrder
  <2>13. EndsComplete'
    <3>1. ASSUME EndsStream(e),
                 NEW f \in ToSet(timeline[r]), f.run <= Last(received'[c]).run
          PROVE  f \in ToSet(received'[c])
      <4>1. Last(received'[c]) = e
        BY <1>8 DEF Last
      <4>2. f \in Event /\ e.at = StepsPerRun + 1
        BY <1>1, <1>6, <2>1, <2>2, <3>1, RecordFacts DEF Flow, Ends
      <4>3. ~Before(e, f)
        BY <1>5, <3>1, <4>1, <4>2, EventFacts, ServerAssumption DEF Before
      <4>4. ~Coming(c, f)'
        BY <2>4, <4>2, <4>3
      <4>5. QED
        BY <1>2, <2>10, <4>4 DEF Coming
    <3>2. \A d \in Clients : d # c => stage'[d] = stage[d] /\ received'[d] = received[d]
      BY <1>3, <1>4
    <3>3. QED
      BY <1>2, <1>4, <1>11, <2>1, <3>1, <3>2 DEF Flow, EndsComplete
  <2>14. QED
    BY <1>2, <2>1, <2>5, <2>6, <2>7, <2>8, <2>9, <2>11, <2>12, <2>13 DEF Flow
<1>12. QED
  BY <1>2, <1>9, <1>10, <1>11 DEF ServerIInv

\* Every step keeps the invariant.
LEMMA ServerNextInvariant == ServerIInv /\ [ServerNext]_serverVars => ServerIInv'
<1> SUFFICES ASSUME ServerIInv, [ServerNext]_serverVars
             PROVE  ServerIInv'
  OBVIOUS
<1>1. CASE Create
  BY <1>1, CreateKeeps
<1>2. CASE Run("pipeline_complete") \/ Run("pipeline_failed")
  BY <1>2, RunKeeps
<1>3. CASE Deliver
  BY <1>3, DeliverKeeps
<1>4. ASSUME NEW t \in putting, Continue(t)
      PROVE  ServerIInv'
  BY <1>4, ContinueKeeps
<1>5. ASSUME NEW c \in Clients, Subscribe(c) \/ Leave(c) \/ LeaveEarly(c)
      PROVE  ServerIInv'
  BY <1>5, SubscribeKeeps, LeaveKeeps, LeaveEarlyKeeps
<1>6. ASSUME NEW c \in Clients, StreamStep(c)
      PROVE  ServerIInv'
  BY <1>6, BeginStreamKeeps, ReplayKeeps, EndReplayKeeps, GetKeeps DEF StreamStep
<1>7. CASE UNCHANGED serverVars
  <2>1. UNCHANGED <<timeline, subscribers, runs, broadcasts, putting, ran, waited,
                    stage, recordOf, replayed, received, queue>>
    BY <1>7 DEF serverVars, recordVars, loopVars, streamVars, clientVars
  <2>2. ServerTypeOK' /\ Registered'
    BY <2>1 DEF ServerIInv, ServerTypeOK, Registered
  <2>3. (InSequence /\ OnTimeline)' <=> (InSequence /\ OnTimeline)
    BY <2>1 DEF InSequence, OnTimeline
  <2>4. (Prefix /\ NothingLate /\ Ends)' <=> (Prefix /\ NothingLate /\ Ends)
    BY <2>1 DEF Prefix, NothingLate, Ends, Coming
  <2>5. (NothingMissed /\ InOrder /\ EndsComplete)' <=> (NothingMissed /\ InOrder /\ EndsComplete)
    BY <2>1 DEF NothingMissed, InOrder, EndsComplete
  <2>6. QED
    BY <2>1, <2>2, <2>3, <2>4, <2>5 DEF ServerIInv, Flow
<1>8. QED
  BY <1>1, <1>2, <1>3, <1>4, <1>5, <1>6, <1>7 DEF ServerNext, ServerStep

\* The invariant holds in every reachable state.
LEMMA ServerInvariant == ServerSpec => []ServerIInv
<1>1. QED
  BY ServerInitInvariant, ServerNextInvariant, PTL DEF ServerSpec

(***************************************************************************)
(* The types hold: there is never more in a queue than it has room for,     *)
(* and there are as many records as runs that have begun or are to begin.   *)
(***************************************************************************)
THEOREM ServerTypeCorrect == ServerSpec => []ServerTypeOK
<1>1. ServerIInv => ServerTypeOK
  BY DEF ServerIInv
<1>2. QED
  BY <1>1, ServerInvariant, PTL

(***************************************************************************)
(* Between replay and queue no step of the timeline is lost, however many   *)
(* clients, runs and records there are.                                     *)
(***************************************************************************)
THEOREM NothingIsMissed == ServerSpec => []NothingMissed
<1>1. ServerIInv => NothingMissed
  BY DEF ServerIInv, Flow, NothingMissed
<1>2. QED
  BY <1>1, ServerInvariant, PTL

(***************************************************************************)
(* No client sees a step for the first time after a later event.            *)
(***************************************************************************)
THEOREM OrderIsKept == ServerSpec => []InOrder
<1>1. ServerIInv => InOrder
  BY DEF ServerIInv, Flow, InOrder
<1>2. QED
  BY <1>1, ServerInvariant, PTL

(***************************************************************************)
(* A stream that ends with a run has every step of the run and of those     *)
(* before it.                                                               *)
(***************************************************************************)
THEOREM StreamsAreComplete == ServerSpec => []EndsComplete
<1>1. ServerIInv => EndsComplete
  BY DEF ServerIInv, Flow, EndsComplete
<1>2. QED
  BY <1>1, ServerInvariant, PTL
=============================================================================
