--------------------------- MODULE IncidentServer ---------------------------
(***************************************************************************)
(* The incident server's event streams (agents/server), for one incident    *)
(* id: its records, the pipeline's runs and their events, the tasks that    *)
(* broadcast these, and the streams of the clients that subscribe.          *)
(*                                                                          *)
(* All of it runs on one event loop, where a coroutine goes on up to the    *)
(* next await that has to wait.  An action is such a stretch, and any       *)
(* stretch of another coroutine can come next, except that the broadcasts   *)
(* of a run, which are scheduled one after the other, begin in that order.  *)
(*                                                                          *)
(* A run waits for nothing: it is one stretch, the events of which are      *)
(* broadcast after it.  All but its last are treated alike: "step" stands   *)
(* for pipeline_started and the events of the agents.                       *)
(***************************************************************************)
EXTENDS Naturals, SequencesExt

CONSTANTS
  Clients,     \* the streams that are ever opened
  QueueSize,   \* asyncio.Queue(maxsize)
  StepsPerRun, \* events of a run before its last
  MaxPosts     \* bound on POST /analyze

ASSUME ServerAssumption ==
  /\ QueueSize \in Nat \ {0}
  /\ StepsPerRun \in Nat \ {0}
  /\ MaxPosts \in Nat

VARIABLES
  \* IncidentStore and IncidentRecord
  timeline,     \* timeline[r]: the steps in the r-th record made for the id
  subscribers,  \* subscribers[r]: the clients whose queues it has, in order
  \* the event loop
  runs,         \* tasks _run_pipeline that have not begun
  broadcasts,   \* tasks broadcast that have not begun, oldest first
  putting,      \* those that wait to put into a full queue
  \* SSESubscription, one for each client
  stage,        \* "none"; "subscribed", the generator has not begun;
                \* "replaying"; "live"; "ended"; "left"; "lost", the client
                \* left before the generator began
  recordOf,     \* the record it is of
  replayed,     \* how many steps have been replayed
  queue,
  \* history, read by properties only, and to name the events
  received,     \* received[c]: the events sent to c
  ran,          \* the number of runs
  waited        \* whether a broadcast ever had to wait

recordVars == <<timeline, subscribers>>
loopVars == <<runs, broadcasts, putting, ran, waited>>
clientVars == <<stage, recordOf, replayed, received>>
streamVars == <<clientVars, queue>>
serverVars == <<recordVars, loopVars, streamVars>>

Event == [run : 1 .. MaxPosts, at : 1 .. StepsPerRun + 1,
          type : {"step", "pipeline_complete", "pipeline_failed"}]

Current == Len(timeline)   \* the record that the store has under the id
Open(c) == stage[c] \in {"subscribed", "replaying", "live"}

ServerTypeOK ==
  /\ timeline \in Seq(Seq(Event))
  /\ subscribers \in Seq(Seq(Clients))
  /\ Len(subscribers) = Len(timeline)
  /\ runs \in Nat
  /\ ran \in Nat
  /\ runs + ran = Len(timeline)
  /\ Len(timeline) <= MaxPosts
  /\ waited \in BOOLEAN
  /\ broadcasts \in Seq([record : DOMAIN timeline, event : Event])
  /\ putting \subseteq
       [record : DOMAIN timeline, event : Event, at : Nat \ {0}, on : Clients]
  /\ stage \in [Clients -> {"none", "subscribed", "replaying", "live",
                            "ended", "left", "lost"}]
  /\ recordOf \in [Clients -> 0 .. Len(timeline)]
  /\ replayed \in [Clients -> Nat]
  /\ queue \in [Clients -> Seq(Event)]
  /\ received \in [Clients -> Seq(Event)]
  /\ \A c \in Clients : Len(queue[c]) <= QueueSize

ServerInit ==
  /\ timeline = <<>>
  /\ subscribers = <<>>
  /\ runs = 0
  /\ broadcasts = <<>>
  /\ putting = {}
  /\ stage = [c \in Clients |-> "none"]
  /\ recordOf = [c \in Clients |-> 0]
  /\ replayed = [c \in Clients |-> 0]
  /\ queue = [c \in Clients |-> <<>>]
  /\ received = [c \in Clients |-> <<>>]
  /\ ran = 0
  /\ waited = FALSE

-----------------------------------------------------------------------------
(***************************************************************************)
(* Requests and runs                                                       *)
(***************************************************************************)

\* POST /analyze: a new record takes the place of the old one, and a task is
\* created to run the pipeline.
Create ==
  /\ Len(timeline) < MaxPosts
  /\ timeline' = Append(timeline, <<>>)
  /\ subscribers' = Append(subscribers, <<>>)
  /\ runs' = runs + 1
  /\ UNCHANGED <<broadcasts, putting, ran, waited, streamVars>>

\* The events of the n-th run, which ends with one of type last.
EventsOf(n, last) ==
  [i \in 1 .. StepsPerRun + 1 |->
     [run |-> n, at |-> i, type |-> IF i > StepsPerRun THEN last ELSE "step"]]

\* on_pipeline_failed pushes no step to the timeline.
StepsOf(n, last) ==
  IF last = "pipeline_failed" THEN SubSeq(EventsOf(n, last), 1, StepsPerRun)
                              ELSE EventsOf(n, last)

\* A task _run_pipeline, from its beginning to its end.  It looks up the
\* record by the id, whichever it was created for.
Run(last) ==
  /\ runs > 0
  /\ runs' = runs - 1
  /\ ran' = ran + 1
  /\ timeline' = [timeline EXCEPT ![Current] = @ \o StepsOf(ran', last)]
  /\ broadcasts' =
       broadcasts \o [i \in 1 .. StepsPerRun + 1 |->
                        [record |-> Current, event |-> EventsOf(ran', last)[i]]]
  /\ UNCHANGED <<subscribers, putting, waited, streamVars>>

-----------------------------------------------------------------------------
(***************************************************************************)
(* broadcast(): a put into one queue after the other, by an index into the  *)
(* list of subscribers as it is at the time                                 *)
(***************************************************************************)

Full(c) == Len(queue[c]) = QueueSize

\* The positions from i on in the list of record r that a broadcast gets to
\* without waiting.
Reached(r, i) ==
  {j \in i .. Len(subscribers[r]) : \A k \in i .. j : ~Full(subscribers[r][k])}

\* The queues after event e has been put into those of the clients in cs.
PutInto(cs, e) ==
  [c \in Clients |-> IF c \in cs THEN Append(queue[c], e) ELSE queue[c]]

\* What is left of a broadcast that has come to position i: nothing, or it
\* waits.
Rest(r, e, i) ==
  IF i > Len(subscribers[r]) THEN {}
  ELSE {[record |-> r, event |-> e, at |-> i, on |-> subscribers[r][i]]}

\* Bug variant: a full queue is no obstacle.
DeliverWithoutLimit ==
  /\ broadcasts # <<>>
  /\ broadcasts' = Tail(broadcasts)
  /\ LET b == Head(broadcasts) IN
       queue' = PutInto(ToSet(subscribers[b.record]), b.event)
  /\ UNCHANGED <<recordVars, runs, putting, ran, waited, clientVars>>

\* Bug variant: what does not fit into a queue is dropped.
DeliverOrDrop ==
  /\ broadcasts # <<>>
  /\ broadcasts' = Tail(broadcasts)
  /\ LET b == Head(broadcasts) IN
       queue' = PutInto({c \in ToSet(subscribers[b.record]) : ~Full(c)}, b.event)
  /\ UNCHANGED <<recordVars, runs, putting, ran, waited, clientVars>>

\* Bug variant: the tasks begin in any order.
DeliverAny ==
  \E i \in DOMAIN broadcasts :
    LET b == broadcasts[i]
        n == Len(subscribers[b.record]) IN
    /\ Reached(b.record, 1) = 1 .. n
    /\ broadcasts' = RemoveAt(broadcasts, i)
    /\ queue' = PutInto(ToSet(subscribers[b.record]), b.event)
    /\ UNCHANGED <<recordVars, runs, putting, ran, waited, clientVars>>

\* The oldest broadcast begins.
Deliver ==
  /\ broadcasts # <<>>
  /\ broadcasts' = Tail(broadcasts)
  /\ LET r == Head(broadcasts).record
         e == Head(broadcasts).event
         reached == Reached(r, 1)
         rest == Rest(r, e, Cardinality(reached) + 1) IN
       /\ queue' = PutInto({subscribers[r][j] : j \in reached}, e)
       /\ putting' = putting \union rest
       /\ waited' = (waited \/ rest # {})
  /\ UNCHANGED <<recordVars, runs, ran, clientVars>>

\* A broadcast that waited gets its event into the queue and goes on.
Continue(t) ==
  /\ ~Full(t.on)
  /\ LET next == t.at + 1
         reached == Reached(t.record, next) IN
       /\ queue' = PutInto({subscribers[t.record][j] : j \in reached} \union {t.on},
                           t.event)
       /\ putting' = (putting \ {t})
            \union Rest(t.record, t.event, next + Cardinality(reached))
  /\ UNCHANGED <<recordVars, runs, broadcasts, ran, waited, clientVars>>

-----------------------------------------------------------------------------
(***************************************************************************)
(* GET /incidents/{incident_id}/stream                                     *)
(***************************************************************************)

\* The handler registers a queue with the record.
Subscribe(c) ==
  /\ stage[c] = "none"
  /\ Current > 0
  /\ stage' = [stage EXCEPT ![c] = "subscribed"]
  /\ recordOf' = [recordOf EXCEPT ![c] = Current]
  /\ subscribers' = [subscribers EXCEPT ![Current] = Append(@, c)]
  /\ UNCHANGED <<timeline, loopVars, replayed, queue, received>>

\* The response's headers are sent, and event_generator() begins.
BeginStream(c) ==
  /\ stage[c] = "subscribed"
  /\ stage' = [stage EXCEPT ![c] = "replaying"]
  /\ UNCHANGED <<recordVars, loopVars, recordOf, replayed, queue, received>>

\* The next step of the timeline, which may be longer than it was before.
Replay(c) ==
  /\ stage[c] = "replaying"
  /\ replayed[c] < Len(timeline[recordOf[c]])
  /\ replayed' = [replayed EXCEPT ![c] = @ + 1]
  /\ received' = [received EXCEPT ![c] = Append(@, timeline[recordOf[c]][replayed'[c]])]
  /\ UNCHANGED <<recordVars, loopVars, stage, recordOf, queue>>

\* Bug variant: the replay stops when there is something in the queue.
EndReplayWhenLive(c) ==
  /\ stage[c] = "replaying"
  /\ replayed[c] = Len(timeline[recordOf[c]]) \/ queue[c] # <<>>
  /\ stage' = [stage EXCEPT ![c] = "live"]
  /\ UNCHANGED <<recordVars, loopVars, recordOf, replayed, queue, received>>

\* The timeline is exhausted: what is pushed from now on is not replayed.
EndReplay(c) ==
  /\ stage[c] = "replaying"
  /\ replayed[c] = Len(timeline[recordOf[c]])
  /\ stage' = [stage EXCEPT ![c] = "live"]
  /\ UNCHANGED <<recordVars, loopVars, recordOf, replayed, queue, received>>

\* Bug variant: only success ends a stream.
EndsOnSuccess(e) == e.type = "pipeline_complete"

EndsStream(e) == e.type \in {"pipeline_complete", "pipeline_failed"}

\* The queue is in the list: nobody else removes it.
Unsubscribe(c) ==
  LET queues == subscribers[recordOf[c]] IN
  \E i \in DOMAIN queues :
    /\ queues[i] = c
    /\ subscribers' = [subscribers EXCEPT ![recordOf[c]] = RemoveAt(queues, i)]

\* An event from the queue.  One that ends a run ends the stream.
Get(c) ==
  /\ stage[c] = "live"
  /\ queue[c] # <<>>
  /\ queue' = [queue EXCEPT ![c] = Tail(@)]
  /\ received' = [received EXCEPT ![c] = Append(@, Head(queue[c]))]
  /\ IF EndsStream(Head(queue[c]))
       THEN stage' = [stage EXCEPT ![c] = "ended"] /\ Unsubscribe(c)
       ELSE UNCHANGED <<stage, subscribers>>
  /\ UNCHANGED <<timeline, loopVars, recordOf, replayed>>

\* The client disconnects: the generator's finally clause unsubscribes.
Leave(c) ==
  /\ stage[c] \in {"replaying", "live"}
  /\ stage' = [stage EXCEPT ![c] = "left"]
  /\ Unsubscribe(c)
  /\ UNCHANGED <<timeline, loopVars, recordOf, replayed, queue, received>>

\* The client disconnects before the generator has begun: a generator that
\* never began has nothing to finish, and the queue stays registered.
LeaveEarly(c) ==
  /\ stage[c] = "subscribed"
  /\ stage' = [stage EXCEPT ![c] = "lost"]
  /\ UNCHANGED <<recordVars, loopVars, recordOf, replayed, queue, received>>

-----------------------------------------------------------------------------
ServerStep ==
  \/ Run("pipeline_complete") \/ Run("pipeline_failed")
  \/ Deliver
  \/ \E t \in putting : Continue(t)

StreamStep(c) == BeginStream(c) \/ Replay(c) \/ EndReplay(c) \/ Get(c)

ServerNext ==
  \/ Create
  \/ ServerStep
  \/ \E c \in Clients : Subscribe(c) \/ StreamStep(c) \/ Leave(c) \/ LeaveEarly(c)

ServerSpec == ServerInit /\ [][ServerNext]_serverVars

\* Fairness: the event loop gets round to every task, and clients read.
FairServerSpec ==
  /\ ServerSpec
  /\ WF_serverVars(ServerStep)
  /\ \A c \in Clients : WF_serverVars(StreamStep(c))

-----------------------------------------------------------------------------
(***************************************************************************)
(* Properties                                                              *)
(***************************************************************************)

(***************************************************************************)
(* Between timeline and queue no step is lost: a client that has come to    *)
(* the end of the replay has every step of its record's timeline, or will   *)
(* find it in its queue, or the broadcast of it has yet to begin.  Only as  *)
(* long as no broadcast has had to wait: it may then come past a client, as *)
(* the list of subscribers moves under it.                                  *)
(***************************************************************************)
NothingMissed ==
  ~waited =>
    \A c \in Clients : stage[c] = "live" =>
      \A e \in ToSet(timeline[recordOf[c]]) :
        \/ e \in ToSet(received[c])
        \/ e \in ToSet(queue[c])
        \/ [record |-> recordOf[c], event |-> e] \in ToSet(broadcasts)

Before(e, f) == e.run < f.run \/ (e.run = f.run /\ e.at < f.at)

(***************************************************************************)
(* Whatever is replayed, or sent again from the queue, a client that has    *)
(* seen a later event never sees an earlier step for the first time.        *)
(* (A failed run's end is no step of the timeline: in the streams of a      *)
(* record that several runs share, it may come late.)                       *)
(***************************************************************************)
InOrder ==
  ~waited =>
    \A c \in Clients : \A i, j \in DOMAIN received[c] :
      /\ i < j
      /\ Before(received[c][j], received[c][i])
      /\ received[c][j].type # "pipeline_failed"
      => \E k \in 1 .. i - 1 : received[c][k] = received[c][j]

(***************************************************************************)
(* A stream that ends is complete: with the end of a run the client has     *)
(* every step that its record's timeline has of this run and of the runs    *)
(* before it, also if it came between two of their broadcasts.              *)
(***************************************************************************)
EndsComplete ==
  ~waited =>
    \A c \in Clients : stage[c] = "ended" =>
      \A e \in ToSet(timeline[recordOf[c]]) :
        e.run <= Last(received[c]).run => e \in ToSet(received[c])

(***************************************************************************)
(* Whoever has subscribed to the id's record before a run gets to an end of *)
(* the stream, also if the run fails; unless a newer record takes the       *)
(* events, or a broadcast has to wait, perhaps for a client that has left.  *)
(***************************************************************************)
EarlyStreamsEnd ==
  \A c \in Clients :
    Open(c) /\ recordOf[c] = Current /\ runs > 0
      ~> ~Open(c) \/ recordOf[c] # Current \/ waited
=============================================================================
