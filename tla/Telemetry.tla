------------------------------ MODULE Telemetry ------------------------------
(***************************************************************************)
(* The tools of the agents (agents/tools/registry.py) and the queries under *)
(* them (agents/storage): what a language model is told of the traces in    *)
(* Jaeger, the series in Prometheus and the past incidents in ChromaDB.     *)
(*                                                                          *)
(* The contents of the three stores grow as services, scrapes and earlier   *)
(* analyses write to them; a tool call reads one of them.  `call` is the    *)
(* last call with what it read and its answer, until the tool returns.      *)
(* What the stores do is external: which traces Jaeger picks when there are *)
(* more than the limit, in which order spans and series come.  The          *)
(* lookback is left out: a store has what is in it.  A query that fails     *)
(* has no answer to speak of; that is Investigation's.                      *)
(***************************************************************************)
EXTENDS Integers, SequencesExt

CONSTANTS
  Traces,       \* trace ids
  MaxTime,      \* bound on the times of spans
  MaxSpans,     \* bound on the spans in Jaeger
  TraceLimit,   \* limit of tool_query_traces, 100 in the code
  LogLimit,     \* limit of tool_query_logs, 200
  StatsLimit,   \* limit of compute_error_rate, 1000
  MaxValue,     \* bound on the values of a series
  MaxPoints,    \* bound on the points of a series
  Past,         \* past incidents
  Distances,    \* cosine distances between texts
  MaxDistance,  \* the one that is still similar: 1.6 in the code
  MaxResults    \* the most results the search tool asks for, 5

ASSUME TelemetryAssumption ==
  /\ {MaxTime, MaxSpans, TraceLimit, LogLimit, StatsLimit, MaxResults} \subseteq Nat
  /\ {MaxValue, MaxPoints} \subseteq Nat
  /\ Distances \subseteq Nat /\ MaxDistance \in Nat

VARIABLES
  jaeger,       \* the spans
  prometheus,   \* the samples of one service, a sequence for each series
  chromadb,     \* chromadb[i]: distance of a stored i from the text searched
  call          \* the tool call at hand

toolsVars == <<jaeger, prometheus, chromadb, call>>

(***************************************************************************)
(* Tools are asked about service "asked"; a trace passes through others.    *)
(* A span has the tag error, or a log with a message, or neither.           *)
(***************************************************************************)
Span ==
  [trace : Traces, service : {"asked", "other"}, start : 0 .. MaxTime,
   kind : {"ok", "message", "error"}]

NoSeries == [gauge |-> <<>>, ok |-> <<>>, failed |-> <<>>]
NoIncidents == [i \in {} |-> 0]
NoCall == [tool |-> "none"]

ToolsInit ==
  /\ jaeger = {}
  /\ prometheus = NoSeries
  /\ chromadb = NoIncidents
  /\ call = NoCall

-----------------------------------------------------------------------------
(***************************************************************************)
(* The stores fill.  As no tool reads two of them, one at a time does.      *)
(***************************************************************************)

Export(span) ==
  /\ call = NoCall
  /\ prometheus = NoSeries /\ chromadb = NoIncidents
  /\ Cardinality(jaeger) < MaxSpans
  /\ jaeger' = jaeger \union {span}
  /\ UNCHANGED <<prometheus, chromadb, call>>

\* The rates of the requests that were answered well, and not, at one step.
ScrapeRequests(well, ill) ==
  /\ call = NoCall
  /\ jaeger = {} /\ chromadb = NoIncidents /\ prometheus.gauge = <<>>
  /\ Len(prometheus.ok) < MaxPoints
  /\ prometheus' = [prometheus EXCEPT !.ok = Append(@, well),
                                      !.failed = Append(@, ill)]
  /\ UNCHANGED <<jaeger, chromadb, call>>

\* Connections, memory, goroutines, or a latency: -1 is not a number.
ScrapeGauge(value) ==
  /\ call = NoCall
  /\ jaeger = {} /\ chromadb = NoIncidents /\ prometheus.ok = <<>>
  /\ Len(prometheus.gauge) < MaxPoints
  /\ prometheus' = [prometheus EXCEPT !.gauge = Append(@, value)]
  /\ UNCHANGED <<jaeger, chromadb, call>>

Store(i, distance) ==
  /\ call = NoCall
  /\ jaeger = {} /\ prometheus = NoSeries
  /\ i \notin DOMAIN chromadb
  /\ chromadb' = [j \in DOMAIN chromadb \union {i} |->
                    IF j = i THEN distance ELSE chromadb[j]]
  /\ UNCHANGED <<jaeger, prometheus, call>>

-----------------------------------------------------------------------------
(***************************************************************************)
(* Traces                                                                  *)
(***************************************************************************)

\* The least of a set of times; of none, -1, which stands for "".
Earliest(times) == IF times = {} THEN -1 ELSE Min(times)

SpansOf(t) == {x \in jaeger : x.trace = t}

\* _parse_trace: an error in any span, of any service, is the trace's; it
\* begins with its first span.
HasError(t) == \E x \in SpansOf(t) : x.kind = "error"
StartTime(t) == Earliest({x.start : x \in SpansOf(t)})

\* GET /api/traces: traces with a span of the service, and with onlyErrors
\* one that has the tag.  Of too many, Jaeger picks.
Matches(onlyErrors) ==
  {x.trace : x \in {y \in jaeger : /\ y.service = "asked"
                                   /\ onlyErrors => y.kind = "error"}}

FetchedTraces(limit, onlyErrors) ==
  LET found == Matches(onlyErrors) IN
  kSubset(Min({limit, Cardinality(found)}), found)

ToolQueryTraces(onlyErrors) ==
  \E traces \in FetchedTraces(TraceLimit, onlyErrors) :
    /\ call = NoCall
    /\ call' = [tool |-> "traces",
                all |-> traces = Matches(onlyErrors),
                total |-> Cardinality(traces),
                first |-> Earliest({StartTime(t) : t \in {u \in traces : HasError(u)}})]
    /\ UNCHANGED <<jaeger, prometheus, chromadb>>

\* Of more traces the counts; the percentiles of their durations are left out.
ComputeErrorRate(traces) ==
  [total |-> Cardinality(traces),
   errors |-> Cardinality({t \in traces : HasError(t)})]

ToolGetTraceErrorRate ==
  \E traces \in FetchedTraces(StatsLimit, FALSE) :
    /\ call = NoCall
    /\ call' = [tool |-> "rate", stats |-> ComputeErrorRate(traces)]
    /\ UNCHANGED <<jaeger, prometheus, chromadb>>

\* Bug variant: the spans of other services are not left out.
EntriesOfTraces(traces, level) ==
  {x \in jaeger : /\ x.trace \in traces
                  /\ x.kind # "ok"
                  /\ level = "ERROR" => x.kind = "error"}

\* query_logs: there is no log store, entries are made of spans.
Entries(traces, level) ==
  {x \in jaeger : /\ x.trace \in traces
                  /\ x.service = "asked"
                  /\ x.kind # "ok"
                  /\ level = "ERROR" => x.kind = "error"}

\* entries[:limit], in the order in which traces and spans came.
ToolQueryLogs(level) ==
  \E traces \in FetchedTraces(LogLimit, level = "ERROR") :
    LET entries == Entries(traces, level) IN
    \E told \in kSubset(Min({LogLimit, Cardinality(entries)}), entries) :
      /\ call = NoCall
      /\ call' = [tool |-> "logs",
                  level |-> level,
                  all |-> traces = Matches(level = "ERROR") /\ told = entries,
                  total |-> Cardinality(told),
                  first |-> Earliest({x.start : x \in told})]
      /\ UNCHANGED <<jaeger, prometheus, chromadb>>

-----------------------------------------------------------------------------
(***************************************************************************)
(* Metrics                                                                 *)
(***************************************************************************)

\* A counter is exported from its first increment on.
Exported(rates) ==
  LET counted == {k \in DOMAIN rates : rates[k] > 0} IN
  IF counted = {} THEN {} ELSE {SubSeq(rates, Min(counted), Len(rates))}

(***************************************************************************)
(* The results of a query, one series for each set of labels.  Nothing is   *)
(* summed over the labels, of which the status is one.  The division of the *)
(* error rate pairs series with equal labels: failed requests with the      *)
(* same failed requests, 1, or not a number when there are none.            *)
(***************************************************************************)
Results(metric) ==
  IF metric = "request_rate" THEN Exported(prometheus.ok) \union Exported(prometheus.failed)
  ELSE IF metric = "error_rate"
    THEN {[k \in DOMAIN s |-> IF s[k] = 0 THEN -1 ELSE 1] : s \in Exported(prometheus.failed)}
  ELSE {prometheus.gauge} \ {<<>>}

Total(values) ==
  LET sum[n \in 0 .. Len(values)] == IF n = 0 THEN 0 ELSE sum[n - 1] + values[n]
  IN  sum[Len(values)]

\* Bug variant: at least three times.
AnomalousAtThree(values) ==
  LET n == Len(values) IN
  n > 0 /\ Total(values) > 0 /\ n * values[n] >= 3 * Total(values)

\* The latest value is more than three times the average.
Anomalous(values) ==
  LET n == Len(values) IN
  n > 0 /\ Total(values) > 0 /\ n * values[n] > 3 * Total(values)

\* The loop over the points of a series, that leaves out what is not a number.
DataPoints(series) ==
  LET points[n \in 0 .. Len(series)] ==
        IF n = 0 THEN <<>>
        ELSE IF series[n] >= 0 THEN Append(points[n - 1], series[n]) ELSE points[n - 1]
  IN  points[Len(series)]

\* _range_query: the first series.  Of no series, or an empty one, every value
\* is 0.
RangeQuery(metric) ==
  IF Results(metric) = {} THEN {<<>>} ELSE {DataPoints(s) : s \in Results(metric)}

\* The seven tools of the metrics; that of the error rate alone tells the
\* number of points.
ToolQueryMetric(metric) ==
  \E values \in RangeQuery(metric) :
    /\ call = NoCall
    /\ call' = [tool |-> metric,
                values |-> values,
                latest |-> IF values = <<>> THEN 0 ELSE Last(values),
                isAnomalous |-> Anomalous(values)]
    /\ UNCHANGED <<jaeger, prometheus, chromadb>>

-----------------------------------------------------------------------------
(***************************************************************************)
(* Past incidents                                                          *)
(***************************************************************************)

\* The k nearest, as the store ranks equal ones.
Nearest(k) ==
  {s \in kSubset(Min({k, Cardinality(DOMAIN chromadb)}), DOMAIN chromadb) :
     \A i \in s : \A j \in DOMAIN chromadb \ s : chromadb[i] <= chromadb[j]}

Similar(s) == {i \in s : chromadb[i] <= MaxDistance}

\* Bug variant: what was fetched is returned.
FirstOfAll(n, s) == {s}

\* incidents[:n], sorted by similarity.
FirstOf(n, s) ==
  {r \in kSubset(Min({n, Cardinality(s)}), s) :
     \A i \in r : \A j \in s \ r : chromadb[i] <= chromadb[j]}

\* One more than asked for is fetched, for one that is excluded; no caller
\* excludes one.
ToolSearchSimilarIncidents(n) ==
  \E fetched \in Nearest(n + 1) :
    \E r \in FirstOf(n, Similar(fetched)) :
      /\ call = NoCall
      /\ call' = [tool |-> "search", n |-> n, incidents |-> r]
      /\ UNCHANGED <<jaeger, prometheus, chromadb>>

-----------------------------------------------------------------------------

Metrics == {"error_rate", "request_rate", "gauge"}

Return ==
  /\ call # NoCall
  /\ call' = NoCall
  /\ UNCHANGED <<jaeger, prometheus, chromadb>>

ToolsNext ==
  \/ \E span \in Span : Export(span)
  \/ \E well, ill \in 0 .. MaxValue : ScrapeRequests(well, ill)
  \/ \E value \in -1 .. MaxValue : ScrapeGauge(value)
  \/ \E i \in Past, d \in Distances : Store(i, d)
  \/ \E onlyErrors \in BOOLEAN : ToolQueryTraces(onlyErrors)
  \/ ToolGetTraceErrorRate
  \/ \E level \in {"ERROR", "WARN"} : ToolQueryLogs(level)
  \/ \E metric \in Metrics : ToolQueryMetric(metric)
  \/ \E n \in 0 .. MaxResults : ToolSearchSimilarIncidents(n)
  \/ Return

ToolsSpec == ToolsInit /\ [][ToolsNext]_toolsVars

-----------------------------------------------------------------------------
(***************************************************************************)
(* Properties                                                              *)
(***************************************************************************)

\* When the service first failed.
FirstFailure ==
  Earliest({x.start : x \in {y \in jaeger : y.service = "asked" /\ y.kind = "error"}})

(***************************************************************************)
(* The agents look for the service that failed first, by the times that two *)
(* tools report for each (agents/trace_analyzer/agent.py:68).  The log tool *)
(* never reports a failure of the service before its first, and reports     *)
(* that one if no limit cut its answer.  The trace tool, if not cut, never  *)
(* reports a time after it, but may report an earlier one: that of the      *)
(* request, or of a request that failed elsewhere.                          *)
(***************************************************************************)
FirstErrorTimes ==
  /\ call.tool = "logs" /\ call.level = "ERROR" =>
       /\ call.first # -1 => FirstFailure # -1 /\ call.first >= FirstFailure
       /\ call.all => call.first = FirstFailure
  /\ call.tool = "traces" /\ call.all /\ FirstFailure # -1 =>
       call.first \in 0 .. FirstFailure

(***************************************************************************)
(* A metric is called anomalous only while values as high as its latest     *)
(* fill less than a third of the window (prometheus_client.py:209): never   *)
(* with fewer than four points, with none at all, or once a failure has     *)
(* lasted that long.                                                        *)
(***************************************************************************)
SpikeIsShort ==
  call.tool \in Metrics /\ call.isAnomalous =>
    LET asHigh == {k \in DOMAIN call.values : call.values[k] >= call.latest} IN
    3 * Cardinality(asHigh) < Len(call.values)

(***************************************************************************)
(* A search returns as many of the similar incidents as were asked for, if  *)
(* there are, and none that is further away than one it leaves out,         *)
(* although it fetches by rank and filters by similarity afterwards         *)
(* (chromadb_client.py:114).                                                *)
(***************************************************************************)
SearchIsTopN ==
  call.tool = "search" =>
    LET similar == Similar(DOMAIN chromadb) IN
    /\ call.incidents \subseteq similar
    /\ Cardinality(call.incidents) = Min({call.n, Cardinality(similar)})
    /\ \A i \in call.incidents : \A j \in similar \ call.incidents :
         chromadb[i] <= chromadb[j]
=============================================================================
