# A formal model of Ghost Debugger

Ghost Debugger takes in telemetry through a gateway (Go), detects incidents in
it, and has a pipeline of language-model agents (Python) explain them. A few
test services (Go), with a service that injects failures into them, make the
incidents. This directory models its control logic in TLA+, checks it
with TLC on small instances and proves the main results with TLAPS for all
values of the constants.

## 1. The system

### 1.1 Parts, state and operations

| Part | Where | State | Operations | Correct when |
|---|---|---|---|---|
| Circuit breaker | `gateway/circuitbreaker` | state, failure count, time of the last failure, half-open flag, one mutex | `Allow`, `Success`, `Failure`, `Reset` | count, state and flag agree; few probes, after a rest |
| Analysis dispatch | `gateway/main.go`, `gateway/router`, `gateway/metrics` | the handler and the goroutine of each incident, the router's client, two gauges | `Connect`, `maybeTriggerAnalysis`, `Analyze` | a half-open breaker is decided; incidents end; gauges account for them |
| Rate limiter | `gateway/ratelimiter` | a map of token buckets under an RWMutex, each bucket under its own mutex | `Allow`, `Available`, `ActiveServices` | one bucket per service; the rate holds over every interval |
| Incident detector | `gateway/incident` | a counter of ten buckets per service, an RWMutex | `RecordError`, `Check` | a check counts the errors of its window |
| Ingestion handlers | `gateway/main.go` | none of their own | `IngestTrace`, `IngestLog`, `IngestMetric` | a burst of accepted errors is detected; every request is answered |
| Failure injector and its clients | `test_services/failure_injector`, `test_services/shared` | a failure per service with its expiry; in each service the last one received | `/inject`, `/reset`, `/state/<service>`; `StartPolling`, `fetchOnce` | a service applies what the injector says, after a bounded time |
| Request chain | `test_services/service_a`, `_b`, `_c` | in-flight and request counters | `handleProcess`, `handleDBQuery` | it answers in time, and success means success |
| Incident server | `agents/server` | incident records, their timelines and subscribers' queues, one event loop | `POST /analyze`, `_run_pipeline`, `/stream`, `/report` | a subscriber sees each event once and the stream ends |
| Pipeline | `agents/pipeline`, `agents/state` | the graph's state with append reducers, a checkpoint per incident | nodes, routes, fan-out and join, `resume` | each node runs once, with all it depends on; the status says what happened |
| Agent nodes and ReAct loop | `agents/*/agent.py`, `agents/shared` | messages of a conversation | `run_react_loop`, one function per node | every node returns, with or without its evidence; without data no model is asked |
| Tools and storage | `agents/tools`, `agents/storage` | a cached querier; the collection of past incidents in ChromaDB, traces in Jaeger, series in Prometheus | eleven tools over the queries, building and seeding the querier, storing a postmortem | what a tool tells of a store is so; one querier; an unreachable store degrades a result and loses none |

### 1.2 How they interact

    services --telemetry--> Ingest* --Allow--> rate limiter
                              |--RecordError/Check--> detector
                              '--incident--> maybeTriggerAnalysis --Allow--> breaker
                                                  '--goroutine--> router --RPC--> agent service
                                                       '--Success/Failure--> breaker
    injector <--poll-- services        dashboard <--events-- incident server --runs--> pipeline
    pipeline --nodes--> agents --tool calls--> querier --> Jaeger, Prometheus, ChromaDB

The gateway's parts are shared objects called by any number of RPC handlers at
once, each guarded by its own lock and none held across another: all that
spans two of them is interleaved. The goroutines of the dispatch
report to a breaker that has moved on. Services and injector talk over HTTP,
by polling. The incident server is one event loop that
runs a whole pipeline in one step and delivers its events afterwards. The three
analyzers of a run are threads; they share one querier, through a cache that has no
lock, and one collection of past incidents, which outlives the process.
The gateway's agent service has no server in the repository
(`agents/server/grpc_server.py` is a TODO): it is external here.

### 1.3 What is hard to test

The full list, each item at its line and with the properties that cover it, is
`hazards` in `PROJECT.json`. In short: reports of calls that a breaker admitted in an
earlier state; the two half-open probes; the double-checked insert; unlocked
reads of a counter that is being written; clocks compared in different units;
a lazily refilled bucket's remainder; answers that cross a reset; an injector
that goes away; append reducers under a second run; failures between a fan-out
and its join; resume; event streams that replay a timeline while it is
written and broadcast; a preflight any of whose queries may fail; a cache that several
threads may find empty; a collection that is seeded only while it is empty, by steps that
fail one by one; a loop that ends when a model decides; tools that tell a
model the time of a first error, by which it looks for the origin.

## 2. Modules

| Module | Models | Rests on |
|---|---|---|
| `ProbeGate` | abstract: what a circuit breaker promises, for any number of probes | |
| `CircuitBreaker` | `circuit_breaker.go`, any caller at any moment | implements `ProbeGate` |
| `AnalysisDispatch` | incidents from detection to completion | extends `CircuitBreaker` |
| `BucketParameters`, `TokenBucket` | one bucket of `token_bucket.go` | |
| `RateLimiter` | `PerServiceLimiter`, handlers between its two locks | implements `TokenBucket` |
| `Detector` | `detector.go` with its unlocked reads | |
| `FailureInjection` | injector, polling, crashes and delays | |
| `Gateway` | the three `Ingest` handlers up to the goroutine they start | extends `AnalysisDispatch`; what `RateLimiter` and `Detector` show |
| `Pipeline` | graph, nodes' updates, reducers, `_run_pipeline`, `resume` | |
| `IncidentServer` | records, runs, broadcasts, subscriptions of one incident id | |
| `Investigation` | the insides of the agents: preflight, ReAct loop, the shared querier and its seeding, restarts | what `Pipeline` shows from outside |
| `Telemetry` | the tools and the queries under them, over stores that fill | |
| `ServiceChain` | one request through `handleProcess` of the three test services | |
| `MC*` | symmetry and batches for TLC | |
| `*Proofs` | theorems and proofs of the module they are named for | |
| `GatewayProofs` | the same for `CircuitBreaker`, `AnalysisDispatch` and `Gateway`, in this order | extends `Gateway` |
| `AgentProofs` | the same for `Investigation` and `Telemetry` | extends both, which share no name |
| `AgentServerProofs` | the same for `Pipeline` and `IncidentServer` | extends both, which share no name |

The correspondence of each definition with its lines is `map` in `PROJECT.json`.
Operators introduced by "Bug variant" are no part of a model: each is a
plausible mistake in the definition under it, with which the property that
guards against it fails.

**CircuitBreaker.** Each method holds the mutex throughout and is one action;
`Allow` is split by the branch it takes. `failureCount` saturates at the
limit and the age of `lastFailureAt` at the timeout, the only things the code
compares them with; `halfOpenSentAt` is never read and left out.
`BreakerSpec` lets anyone call anything, so what holds of it holds of every
use of the class.

**AnalysisDispatch.** `stage[i]` is the program counter of incident i, through
the RPC handler (`Detect`, `Block` or `Admit`, `Dispatch`) and then the goroutine
(`Answer` or `Err`, `ReportSuccess` or `ReportFailure`, `Complete`). The calls
of the breaker are the actions of `CircuitBreaker`, in their own steps, so any
number of incidents interleave between them. `Connect` is the one dial of
`main`, `AgentStartsOrStops` the environment. `probes` and `sinceHalfOpen`
are history. The deadline of sixty seconds appears as `Err`, enabled
throughout `analyzing`: a call takes any time at all.

**TokenBucket.** Integer ticks with `Per` ticks to `refillPer`. `refill` is
`Refilled`, applied at the start of each method at the same reading of the
clock. `StartWatch` begins a measurement anywhere in a behaviour, which
makes the invariants about `taken` statements about all intervals. `AllowN` is there
because the class has it; the gateway never calls it, so that no run has it and
it is the theorems that include it.

**RateLimiter.** `Lookup` is the half of `getBucket` under the read lock,
`Insert` the half under the write lock, `CallAllow` and `CallAvailable` the
use of the bucket afterwards. Every bucket ever made is kept in `created`, so
that a handler can hold one that the map has lost, if that could happen.

**Detector.** Times are in nanoseconds as in the code, `Interval` of them to
a bucket. A `Check` is a `Lookup` under the lock, `CompareTick`, one
`ReadBucket` per bucket and `Decide`. By Go's memory model an unlocked read of
a word returns some value written no earlier than the last one ordered before
it: `Readable` is the range from the value at the lookup to the present one.
`ClockAssumption` says that the number of intervals since 1970 is below
the number of nanoseconds from 1970 to the start of the program, which with six
seconds to an interval is so on every real clock; `Start`, `Horizon` and
`Interval` of the configurations keep that relation. With it the branches of `Incremented`
that slide the window are never taken: a check counts accurately (`CheckIsAccurate`),
but errors of any age (section 3.1).

**FailureInjection.** A poll is `Ask`, `HandleGetState`, `Receive` (or
`FetchFails`), so injections, resets and the end of the injector fall between
any two. A failure carries its type and the ticks left to it, which age alike
wherever it is. `quiet[s]` is history: since when the injector's answer to
`s` has not changed.

**Gateway.** `handler[h]` is the state of an RPC handler from the limiter's consent
(`Ingest`) through `RecordError` for each error of the request, the two halves
of `Check` (`Lookup`, then `PassCheck` or `DetectIncident`) and
`maybeTriggerAnalysis` (`TriggerBlocked`, or `TriggerAdmitted` and
`TriggerAnalysis`), which are the steps `Detect`, `Block`, `Admit` and `Dispatch`
of `AnalysisDispatch` with the handler's own state. The steps of its goroutines, of
the agent and the clock are `Behind`. Limiter and detector are a number per
service: one bucket, and a count that only grows and that a check reads as of
some moment between its two halves, which is what `OneBucket`, the proof of
`CountIsAccurate` (`RecordStep`) and `CheckIsAccurate` say. A rejected request changes nothing and has no action. A
trace may carry the errors of other services: they are recorded under those,
while the check is of the sender, so `BurstIsSeen` is about a service's own requests.

**Pipeline.** One thread of the checkpointer, that of one incident id, through
any number of runs. LangGraph is external: a superstep is a set of
`tasks`; `RunNode` is a node that returns one of its `Updates`, which are `saved`
until `EndStep` merges them and follows the edges; `Raise` and `Fail` are an
exception on its way. The state is kept as Booleans, one for each
question that an edge, a node or a property asks of it, with disjunction for
the appending reducer. `Post`, `Start` and `Finish` are the server's part, which
never calls `Resume`. `Restart` is the end of the process at any moment: the threads of a
MemorySaver and the records go with it, and `lost` is history, what had ended in a run
that was cut off. The error of a failed agent carries an exception's text, in which the
writer may find its "no data" (`Failure`).

A second run of the same id in one process starts from the state of the first, which
the model shows to matter in three ways: it is reported failed if an agent failed
in any earlier run; its report is the one "without data" if an earlier run found
no telemetry, and is stored as a past incident all the same if the run is
confident; and if it raises it cannot be resumed once an earlier run was written. No
text speaks of such runs. What holds across runs is what the properties state: `NoRepeat`
is about `Resume` within one process, and what the texts promise beyond it,
after a crash and by a plain invocation, is `InvocationResumes`, which does not hold
(section 3.1).

**IncidentServer.** An action is what a coroutine does between two awaits
that wait. `Create` and `Run` are the server's requests and tasks; a run pushes
all its steps and schedules all its broadcasts in one go, because nothing in it
awaits. `Deliver` is a task `broadcast` up to its end or to the first full
queue, `Continue` the rest of it, by an index into a list that may have
changed. A stream is `Subscribe`, `BeginStream`, `Replay` for each step of the timeline,
`EndReplay`, and `Get` for each event of the queue; `Leave` is a disconnected client,
`LeaveEarly` one whose generator has not begun. Heartbeats change nothing
and are left out. The interleaving is more liberal than asyncio's ready queue, except
for the order of the broadcasts. A process that ends takes records, queues and
streams with it and the next one begins at `ServerInit`, so there is no action for it.

The model has behaviours on which no text of the repository takes a stand. A
client that subscribes before a run but reads the timeline after it gets the
steps twice. One that subscribes after the broadcasts gets the replay and then
heartbeats for ever, and of a failed run no word of the failure. One whose
record is replaced waits for events that go elsewhere. A broadcast that waits
for the full queue of a client who has left, or never began to read, waits for
ever, and the clients behind it in the list with it; if another leaves
meanwhile, it passes one over. A queue holds a hundred events and a run has at
most twenty, so the last two take several runs of the same record: `waited` is
how the properties tell them apart.

**Investigation.** `pc[a]` is what the node of agent a does, with the iterations
of its loop (`turn`) and the tool calls of the last answer that are still to be
made (`pending`). `EndStep` is a superstep and the routes that follow it. Each
`Begin` is a run of an incident from nothing: what is left over from an earlier
run of the same id, and that no model may be had, is in `Pipeline`. `cached`, `building` and
`unseeded` are `get_querier`: `lru_cache` keeps a result but no exception and has
no lock while it computes one, so any thread that finds no result may `Construct`
another querier, which reads the size of the collection once, and then `Seed` the samples
one by one, each stored or not. What a tool returns (data, the text of an error, that
there is no such tool) makes no difference to the loop, so that a tool whose
store is down is an `AnswerCall` like any other and only the model is told.
`Restart` loses all but `collection`. `seen` and `asked` are history.
Reports qualify for the store when `Qualifies` holds and the model
was confident, which is its choice.

**Telemetry.** The contents of the stores grow by `Export`, `Scrape*` and
`Store`; a tool is one action that reads a store and leaves its answer in `call`
until `Return`. All stores are external: which of too many traces Jaeger picks, which of
equally near incidents ChromaDB ranks first and which of several series comes
first are any choice. No tool reads two stores, so one at a time is filled.
Three things are as the code has them and not as its names say: there is no log
store, and `query_logs` makes its entries of the spans of Jaeger; `_range_query` reads only the
first of the series it gets; and `query_error_rate` divides without a sum, so that
Prometheus pairs the series of a status with itself, which is 1, or with nothing
(`Results`). The lookback is left out, as are the durations of spans and their percentiles, on
which nothing else depends. A query that fails is in `Investigation`.

**ServiceChain.** `pc[s]` is the program counter of `handleProcess` in service s:
`Begun` reads the latency and sleeps, `Wake` ends the sleep, `Fail` is the second
reading of the failure, `Call` and `Refused` are `client.Do` as it
starts, `Return` and `GiveUp` as it ends. `Update` comes between any
two of these. A timeout or a user who leaves closes a connection, by
which net/http cancels the context of the handler at its other end
(`cancelled`); the handler notices in its next or its present `client.Do`,
but not in `time.Sleep`. `slept`, `age` and `orphaned` are history. What happens
at the same tick is ordered in every way, so an answer that
comes with the timeout may win or lose. Left out are `handleDBQuery`, which
calls nobody, and the counters, which count a failed request twice, by its status and, in
the deferred function, as a 200. service_b does not look at the status of
service_c (`PassOn`), so `TrueSuccess` reaches no further than from service_a to service_b.

## 3. Runs

| Run | Question | Bounds | Distinct states |
|---|---|---|---|
| `Dispatch` | do count, state and flag of the breaker agree, and is it a two-probe gate; is a half-open one always decided; do half-open periods keep their distance; do the gauges account? | five incidents, limit 2, timeout 1 | 611,668 |
| `Gateway` | is a burst detected however it is split over requests; is every request answered; do the handlers keep to the dispatch? | two handlers, services and incidents; threshold 2, two errors per service, breaker limit and timeout 1 | 163,298 |
| `RateLimiter` | does the double check keep one bucket; how much can any interval grant a service; is a remainder lost? | three handlers, two services, capacity 3, rate 2 per two ticks, four ticks | 772,636 |
| `Detector` | what may an unlocked check count, whatever its age? | two checks, three errors, three buckets | 251,668 |
| `FailureInjection` | does a service end up with the injector's answer in time, and does a forgotten failure end? | two services, period 2, delay 1, duration 4 | 627,453 |
| `Pipeline` | does correlation wait for all analyzers; do status, completeness and store tell the truth of a second run; does `resume` repeat nothing within a process; does every run end? | any number of runs and restarts, two requests waiting | 44,189 |
| `IncidentServer` | is a step lost, late or out of order between timeline and queue; is a stream that ends complete; does it end? | two streams, two runs of two events, queues of two | 230,997 |
| `Investigation` | is the model asked only on data, whatever fails; is one querier built at a time; do samples and reports stay apart; does every run end? | three analyzers, two iterations of up to two calls, two samples, restarts | 374,381 |
| `Telemetry` | is the time of a first error that tool tells the model right; what is called anomalous; does a search miss a near incident? | two traces of four spans, series of five points, four past incidents | 1,614,702 |
| `ServiceChain` | is every request answered in time; does work end that nobody waits for; is success claimed only where it was? | one request, timeout of four ticks, latencies of one and six | 100,224 |

A type invariant or an auxiliary fact that a theorem states for all
values is not checked again here.

*Why the bounds are enough.* Two failures trip the breaker, two probes fill a
half-open period and one more call can be left over from before it: with five
incidents a stale report meets both probes, or the breaker trips twice. In the
gateway two logs of one error, or one trace of two, reach the threshold, each
by itself or while another handler records or checks; `MaxErrors` and the
incidents that are left bound the requests (`Within`). In the
limiter two handlers miss a bucket together while a third uses it; a service's handlers
only meet at its own bucket, so a second service is enough to show that another
one does not matter. Of a bucket of three with two to a period, a refill can be
whole or cut off by the capacity; four ticks are two periods, before which and
between which a call may come early or late, and the watch may begin at any of them. In the detector one check overtakes another and every one
of its reads can be before or after each of three increments. In the injection a
period of two and a delay of one let a request start before, and end after, any
change; a duration of four is the shortest that outlasts their sum, so that an
injected failure is bound to take effect, and then expires before, during or
after a poll. Two waiting requests are enough for a record to be replaced
before, and after, its run. A queue of two has room for one run of two events
and not for two, as one of a hundred has for a few runs and not for many. In
`ServiceChain` a tick is 2.5 seconds: a latency below the timeout, of which two
in a row still are, and one above it; requests share nothing but the failures.
In `Investigation` three analyzers are all there are; of two samples either can be stored
without the other, before or after the process stops; two iterations of up to
two calls have a first, a middle and a last call, and a loop that the limit ends. In
`Telemetry` four spans in two traces are a failure of the service after one
of another in the same trace, and a trace more than the limit; five points are
one more than the least at which a value can be anomalous; four
incidents are two more than the most that a search asks for, so that one is
fetched to no use and one not at all.
The clocks of `RateLimiter` and `Detector` are bounded by
`MaxNow` and `Horizon`, the errors by `MaxErrors`. The theorems of section 4
lift all of these bounds for the safety properties, save those
named there.

*Fairness.* `Dispatch`: the dial has a deadline of five seconds and `Analyze`
one of sixty, the Go scheduler runs a goroutine that is ready, clocks advance.
`FailureInjection`: time passes and a poll that has begun goes on. `Pipeline`: a
run goes on, and language model, tools and stores return or raise.
`IncidentServer`: the event loop gets round to every task, and a client that
stays connected reads. `Gateway`: the
scheduler runs handlers; nothing is assumed of an analysis, so that an agent
that never answers is included. `Investigation`: a thread that can go on does, and a
request ends: those to Jaeger and Prometheus have a timeout of 5 or 30
seconds, those to Gemini one of 60; the clients for Ollama and ChromaDB have none in the code,
and a hang there is outside the assumption. Nothing is assumed of restarts. Nothing is assumed of the agent, the
traffic, the injector's process or who injects. Deadlock is checked in every run
but `IncidentServer`, where all streams may be over and all requests made, and
`ServiceChain`, where the request may be over.

### 3.1 What the repository says and the code does not do

Two runs end in a counterexample, as `findings` in `PROJECT.json` tells.

- `DocReportedIsRecent`: README.md:668 has a sliding window. `lastTick` is a time
  in nanoseconds and the ticks it is compared with are intervals, so that the window
  never slides and no error is ever forgotten.
- `DocCrashResumes`: README.md:172-175 and 517-519, agents/pipeline/DESIGN.md:507-519
  and DESIGN_DECISIONS.md:123 have checkpoints in SQLite that survive a crash, and
  the next invocation of the same incident id resume from them, "not from
  triage", with no agent's work repeated; ARCHITECTURE.md:438 has a failed node retried from the last
  checkpoint, and 627-628 recovery resume from the last node. The
  checkpointer is a MemorySaver (graph.py:4-6 says why: resume works within a
  process only), and the server never calls `resume`: an invocation streams a new
  input and starts again at triage, after a crash and also after an exception in the same
  process. Only a caller of `PipelineRunner.resume` in the same process gets what is promised
  (`NoRepeat`), and not if an earlier run of the id was written.

Others have no run of their own. DESIGN_DECISIONS.md:338 has services fall back to
no failure if the injector is down: they keep the last one, past its expiry
(`FetchFails`). gateway/main.go:281 logs "will retry on
incidents" when the agent is down at start-up: nothing connects again
(`Connect`). ARCHITECTURE.md:507 has
"Always produce a report (never silent failure)": each agent gets its language
model outside its `try`, and without one the run raises and there is no report
(`Raise`, `Fail`). README.md:295 has 2500 ms of latency in service_b make service_a
time out: its timeout is four times that, and it answers 200, late (a tick of
latency in the run `ServiceChain`). ARCHITECTURE.md:424 and 425 have one probe,
whose success closes the circuit: in the code the first probe is not recorded,
so that two go out, as `TwoProbeGate` says, and the success of any call that was
admitted earlier closes it too. ARCHITECTURE.md:420 has a blocked incident
queued and processed later: it is dropped, and stays on the gauge for good, as
`GaugesAccount` has it. README.md:342 has the dashboard show "every agent step
in real time": a run occupies the event loop, so that its events go out after
its end (`Run`, then `Deliver`). DESIGN_DECISIONS.md:236 has `completed_agents`
"written even on failure": most agents write only `failed_agents` then, so after
a failure of the writer `resume` does not take a run for complete, but has
nothing left to do either.

Of the agents, agents/pipeline/DESIGN.md:218 and 301 have an analyzer whose store is
down record that there was no error; line 495 has it catch the `QueryError`. The tools turn a
`QueryError` into text for the model (`AnswerCall`), and it is the model that says whether there was an
error. Lines 178 and 179 have triage go on with one of two
stores: if the query of the error rate raises, triage returns early and
the traces are not looked at (`PreflightFails`). DESIGN_DECISIONS.md:199 caps the loop at
eight iterations per agent: metric_reasoner has ten, two others six and five.
docs/no_data_hallucination.md:63 has agents check each tool's result with
`is_empty_tool_result`, which nothing calls; the preflight is what keeps
`SeenBeforeAsked`. README.md:349 has an error rate of 18.3%: the tool can only
tell 100% or nothing (`Results`). ARCHITECTURE.md:140 has ChromaDB
embedded in the process: it is a server of its own. The trace tool's `first_error_time` is the
start of the earliest trace with an error, which may be long before the service's
own (`FirstErrorTimes`).

ARCHITECTURE.md:414 also has the circuit open when a call "fails N times within
M seconds". The breaker has no M: its count has no window, and a success in the
closed state does not reset it. No run is given for a duration that the text
leaves open.

## 4. Theorems

All are of the form "the specification implies the property", for every value
of the constants that satisfies the module's assumptions (numbers are natural
and, where the code divides by them or needs one, positive; the set of
incidents is finite; `MaxDelay < Period`; `ClockAssumption`).

**Breaker.** `BreakerTypeCorrect`; `CountCorrect` (`CountMatchesState` is
inductive with the types); `BreakerIsTwoProbeGate`, a step-by-step
simulation: mode from state, probes from the half-open flag.

**Dispatch.** `DispatchUsesBreaker` shows a step of the dispatch to be a step
of the breaker or to leave it alone, which brings over the theorems
above. `GaugesCorrect`: a move of one incident between two stages changes the
cardinality of each set of stages by what the action does to its gauge
(`MoveCounts`). `HalfOpenWatched`: the property is inductive with types; the
cases that matter are a report, which ends the half-open period whoever makes
it and so empties `probes` before a probe could leave `Outstanding` unnoticed,
and an admission, which is the first probe exactly when the state changes.
`ProbesSpaced` needs an invariant that the property does not show: since the
last half-open period began at least as much time has gone by as since the last
failure (saturating); a failed period sets the latter to zero.

**Gateway.** `GatewayIsDispatch` shows each step of a handler to be a step of the
dispatch or to leave it alone, so that the safety theorems above hold of the
gateway. It rests on `GatewayTypeCorrect`, whose inductive part is that no two
handlers have the same incident, and that an incident's stage is the step
its handler has reached: only its own handler, or later its goroutine, moves it.
`BurstsAreSeen` is about the last handler to look. What a service sent is no more
than the detector's count and what handlers have still to record of it
(`LeftInv`). If a burst has no incident yet, some handler is still recording
errors or looking up, or one has looked up the full count and is sure to reach the threshold
(`BurstInv`): a handler that looks up while others still record leaves it to them, and
when none is left the count is all that was sent. An incident without a handler
so far has no service (`NoneYet`).

**Token bucket.** `Conservation` is the inductive core: a call moves tokens
from `TokensNow` to `taken`, a tick adds at most `Rate` and only when it
completes a period, a watch starts at no more than `Capacity`.
`WindowBounded` follows from it and a bound on the periods completed since
the watch began, by the arithmetic of whole periods. `RefillClockCorrect` is that arithmetic
alone (`RefilledFacts`): the bucket's clock moves by whole periods to less
than one before the present.

**Limiter.** `OneBucketCorrect` is inductive: an insert happens only if there
is none, and a handler that holds a bucket holds the first. With it
`LimiterIsTokenBucket` maps `Insert` to `Create`, `CallAllow` to `Allow` and
so on, other services' steps to stutters, and `ServiceWindowBounded` and
`ServiceRefillClockCorrect` are the bucket's theorems carried over.

**Detector.** `CountIsAccurate` rests on the defect that `DocReportedIsRecent` shows: every counter's
`lastTick` is at least `Start`, by `ClockAssumption` no tick exceeds it, and so
buckets only grow (`RecordStep`). The theorem compares a sum over buckets with a number of errors. The sum
of the first n buckets is the cardinality of a set of pairs, bucket and position in
it (`Cells`), of which an increment adds one and a further bucket as many as it holds, so that
no induction over buckets is needed. The invariant: the counter's
buckets hold all that was recorded (`Counted`), and what a check has summed lies
between what the buckets it has read held at its lookup and what they hold now
(`Sums`), as they only grow.

**Injection.** `TakesEffectCorrect`: the invariant follows an answer along its
way. If the injector's answer has been still since before the request
was answered, the reply carries it; after the reply is received, the service
holds it; a lost request means that the injector was down when it was sent
or ended since, so that the answer is not still.

**Investigation.** `OnlyAskedOnData`, `QuerierBuiltOnce` and `SamplesSettled` share
one inductive invariant, because none of them is inductive and each leans on the
same order: the preflight comes first, data is seen only with a querier
(`SeenWithQuerier`), only triage is without one (`TriageBuilds`), and every later
node of the run was routed to because data was seen (`OnlyAfterSeen`). So the analyzers find
the cache filled, although it has no lock, and the samples precede every report
(`SamplesFirst`). `TypeCorrect` has the limits of the loops (`LoopCounts`).

**Tools.** `ErrorTimesCorrect`, `SearchCorrect` and `SpikesAreShort` share the invariant
that a store does not change under an answer; what they need is facts about the
queries. A set of times has a least one because the intervals from zero are
well-founded by inclusion (`Least`); and so what a loop keeps holds at its end
(`Upto`), and a loop has values at all (`Loop`), which gives the total and the
data points of a series, recursive functions over its length. `TracesTell` and `LogsTell` compare the least of two sets
of times, one inside the other or with an earlier time for each. `SearchFacts`:
if a similar incident was not fetched, all that were are at least as near and so
similar, and being one more than asked for they suffice after the cut. `SpikeFacts`: the values as high as
the latest make up no more than the total (`latest * size <= sum` is kept by the
loop), so with three times the average below the latest they are less than a third.

**Service chain.** `AnswersInTimeCorrect`, `OrphansEndCorrect` and `SuccessIsTrue`
share an invariant. `Account` says what a handler's time is made of: what went by
of its sleep, and its call; the call is never longer than the timeout, and of an
orphan's time there is no more than went by of its sleep (`OrphanAccount`).
`Order` has each service called once and by nobody but the one before it, so that a
call finds its handler idle; `Waited` says that a handler somebody waits for is
not cancelled, which makes a success that is passed on a true one.

**Pipeline.** A run can be told from the state only through what its nodes wrote,
so the proofs go from the nodes to the state. Each update of each node is
proper, tells whether the node failed, and says what only that node may say
(`UpdateFacts`, from the definitions of the seven nodes); the reducers keep it: an
appended flag is up if it was or if somebody raised it, any other key has what was
written last (`MergedAppended`, `MergedWritten`, `MergedFlag`). With this `EndStepState`
gives the state after a superstep. The invariant ties the tasks at hand to the
history: what is saved is an update in the state at hand, what did not return and
all that comes after did not run (`Progress`, with `Ahead` for the graph's
order), a failed node is in the state or about to be (`FailedTold`), flags of
success are this run's (`SuccessTold`), and a run at its end has a report.
`JoinIsComplete`, `StatusIsTrue`, `SignalsAreTold`, `StoreQualified` and the action property of
`NothingRepeats` follow.

**Incident server.** `NothingIsMissed`, `OrderIsKept` and `StreamsAreComplete`, for any number of
clients and records, runs of any length and queues of any size, as long as no
broadcast has had to wait. The invariant (`Flow`) follows an event from its run to the
clients: timelines, queues and the broadcasts yet to begin are ascending, and all that
is in a queue is older than all that is yet to be broadcast (`InSequence`); a step on its way is in
the timeline of its client's record (`OnTimeline`); a client that replays
has a prefix of that timeline (`Prefix`); once it reads from the queue, whatever is
still to come is later than all it has, or known to it (`NothingLate`). That the end of
a run is its last event (`Ends`) then makes a stream that ends with it
complete. `Registered`, which holds also when broadcasts wait, says that a queue is in
the list of its client's record and in no other; `DeliverFacts` uses it, with
the cardinality of the positions a broadcast reaches, to show that one that need not wait
gets to every subscriber. `ServerTypeCorrect` has the limit of the queues, waiting or not.

**Only model-checked.** The liveness properties: `HalfOpenResolves`,
`FailureClears`, `RunsEnd`, `EarlyStreamsEnd`, `RequestsAnswered` and
`InvestigationEnds`. Every invariant and every action property of the runs that
pass, the refinements among them, has a theorem.

## 5. Not modelled, and the plan

Left out for good: exporters, spans and counters that nothing reads back,
message formats and generated code, the dashboard's rendering, scripts, the
wording of prompts and reports, the parsing of a model's text except for
whether it succeeds. Of the storage clients, what no agent calls: `query_instant`,
`get_metric_names`, `get_trace`, `get_services`, `get_incident`,
`check_backends`; and the stubs of `telemetry_querier.py`, which nothing imports.

The delay of a poll is assumed to be below its period (`MaxDelay < Period`).
`fetchOnce` uses a client without a timeout: an injector that
accepts and never answers is outside that assumption, and the service then
keeps its failure for as long.

Next, in this order:

1. In `IncidentServer`, what holds of a stream also after a broadcast has waited.
2. In `Gateway`, the limiter and the detector by instances of their modules
   where it has a number per service now, as a refinement rather than by what their
   properties say.
