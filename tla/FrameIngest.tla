----------------------------- MODULE FrameIngest -----------------------------
(***************************************************************************)
(* The way of a frame from ingest_cli.py over POST /v1/ingest/frame and    *)
(* Celery to process_frame in a worker, and back over                      *)
(* GET /v1/ingest/task/{id}.                                               *)
(*                                                                         *)
(* One client process per stream posts its frames one by one. The API      *)
(* encrypts a frame and publishes a task, which is named after its frame   *)
(* here. The worker's main process reserves the first messages of the      *)
(* Redis list (worker_prefetch_multiplier is not set: four per child) and  *)
(* hands them to its child processes; a message is acknowledged when a     *)
(* child starts on it (acks_late is not set). Those that are not, Redis    *)
(* keeps, and gives back when the visibility timeout, an hour, is over.    *)
(* Each child has one orchestrator, for the frames of every stream.        *)
(***************************************************************************)
EXTENDS Integers, Sequences, FiniteSets

CONSTANTS
  Streams,          (* the streams, one client each                        *)
  Children,         (* the worker's child processes                        *)
  Prefetch,         (* messages the worker may hold: 4 per child in Celery *)
  MaxFrames,        (* bound: frames each client sends (--max-frames)      *)
  Polled,           (* bound: the frames whose tasks are polled            *)
  MaxFaults         (* bound: lost connections, deaths, repeated messages  *)

ASSUME FrameIngestAssumption ==
  /\ IsFiniteSet(Streams) /\ IsFiniteSet(Children)
  /\ MaxFrames \in [Streams -> Nat] /\ MaxFaults \in Nat /\ Prefetch \in Nat
  /\ Polled \subseteq Streams \X Nat

VARIABLES
  cli,              (* per stream: its client and the client's counters    *)
  wire,             (* frames whose POST the API has not answered          *)
  broker,           (* the messages no child has started on, in line       *)
  reserved,         (* how many of them, the first ones, the worker holds  *)
  unacked,          (* per frame: messages of a dead worker Redis keeps    *)
  child,            (* per child: its task, how far it is, its orchestrator*)
  meta,             (* the result backend, per task                        *)
  poll,             (* the GET of one task's state                         *)
  (* history *)
  copies,           (* messages published per frame                        *)
  runs,             (* executions started per frame                        *)
  fed,              (* per child: frames its orchestrator was given        *)
  upset,            (* streams whose client lost a connection              *)
  lost,             (* tasks that died with the whole worker               *)
  back,             (* frames of which a message was handed out again      *)
  again,            (* per frame: those that their first holder may run too*)
  faults

net  == <<cli, wire, upset>>
work == <<child, fed, runs, lost>>
hold == <<reserved, unacked, back, again>>
line == <<broker, hold>>
vars == <<net, work, line, meta, poll, copies, faults>>

Frame == UNION {{s} \X (1 .. MaxFrames[s]) : s \in Streams}
NoTask == <<>>
Ready == {"SUCCESS", "FAILURE"}

(* Of what a task returned only matters whether it lists plates. A record  *)
(* of the backend is its state: it has a result just if it is SUCCESS, and *)
(* an error just if it is FAILURE.                                         *)
States == {"PENDING", "STARTED"} \cup Ready
Fresh == [task |-> NoTask, returned |-> FALSE, plates |-> FALSE]
NoPoll == [task |-> NoTask, step |-> "none", cache |-> "PENDING",
           state |-> "PENDING", result |-> FALSE]

Init ==
  /\ cli = [s \in Streams |-> [pc |-> "reading", frame_count |-> 0, task_count |-> 0]]
  /\ wire = {} /\ broker = <<>>
  /\ reserved = 0 /\ unacked = [f \in Frame |-> 0]
  /\ back = {} /\ again = [f \in Frame |-> 0]
  /\ child = [p \in Children |-> Fresh]
  /\ meta = [f \in Frame |-> "PENDING"]
  /\ poll = NoPoll
  /\ copies = [f \in Frame |-> 0] /\ runs = [f \in Frame |-> 0]
  /\ fed = [p \in Children |-> <<>>]
  /\ upset = {} /\ lost = {} /\ faults = 0

Fault == faults < MaxFaults /\ faults' = faults + 1

------------------------------------------------------------------------------
(* Mutated forms of the definitions below. *)

(* the newest of the messages first *)
TurnOfNewest == reserved

(* acks_late: the task of a dead child goes back to the queue *)
AfterDeathRequeue(f) == Append(broker, f)

(* AsyncResult asks the backend at every access, of a finished task too *)
KeepMetaNever(m) == poll.cache

(* an outcome that cannot be encoded is not stored *)
OutcomeUnlessPlates(plates) == IF plates THEN "STARTED" ELSE "SUCCESS"

(* the task is released and its outcome kept *)
ReleasedHalf(c) == [c EXCEPT !.task = NoTask]

------------------------------------------------------------------------------
(* ingest_cli.py: ingest_from_source and APIIngestClient.ingest_frame *)

InFlight(s) == <<s, cli[s].frame_count + 1>>

(* A client ends when max_frames is reached or read() returns None, which  *)
(* is here a client that captures no more.                                 *)
Capture(s) ==
  /\ cli[s].pc = "reading" /\ cli[s].frame_count < MaxFrames[s]
  /\ cli' = [cli EXCEPT ![s].pc = "posting"]
  /\ wire' = wire \cup {InFlight(s)}
  /\ UNCHANGED <<upset, work, line, meta, poll, copies, faults>>

(* ingest_frame of the client takes a status for success. *)
Counts(status) == status = 200

(* The client goes on to its next frame. *)
Goes(c, status) ==
  [pc |-> "reading", frame_count |-> c.frame_count + 1,
   task_count |-> c.task_count + (IF Counts(status) THEN 1 ELSE 0)]

Answer(f, status) ==
  /\ wire' = wire \ {f}
  /\ IF cli[f[1]].pc = "posting" /\ f = InFlight(f[1])
       THEN cli' = [cli EXCEPT ![f[1]] = Goes(@, status)]
       ELSE UNCHANGED cli

(* The connection breaks or a gateway gives up: the client counts the      *)
(* frame as failed and goes on; the request may still reach the API.       *)
ConnectionLost(s) ==
  /\ cli[s].pc = "posting" /\ Fault
  /\ cli' = [cli EXCEPT ![s] = Goes(@, 504)]
  /\ upset' = upset \cup {s}
  /\ wire' \in {wire, wire \ {InFlight(s)}}
  /\ UNCHANGED <<work, line, meta, poll, copies>>

------------------------------------------------------------------------------
(* api/routers/ingest.py *)

(* process_frame.delay: the message is in the queue once, or twice when    *)
(* the broker's answer was lost and the publication was repeated.          *)
Publish(f, n) ==
  /\ broker' = broker \o [i \in 1 .. n |-> f]
  /\ copies' = [copies EXCEPT ![f] = @ + n]
  /\ UNCHANGED hold

ingest_frame(f) ==
  /\ f \in wire /\ Answer(f, 202)
  /\ \/ Publish(f, 1) /\ UNCHANGED faults
     \/ Publish(f, 2) /\ Fault
  /\ UNCHANGED <<upset, work, meta, poll>>

(* The key is not a Fernet key: encrypt_frame raises, 500 (or 401, before  *)
(* the handler), and nothing is published.                                 *)
encrypt_frame_fails(f) ==
  /\ f \in wire /\ Answer(f, 500) /\ Fault
  /\ UNCHANGED <<upset, work, line, meta, poll, copies>>

(* Publishing failed, perhaps after the broker had stored the message: 500.*)
ingest_frame_fails(f) ==
  /\ f \in wire /\ Answer(f, 500)
  /\ Fault /\ \E n \in 0 .. 1 : Publish(f, n)
  /\ UNCHANGED <<upset, work, meta, poll>>

------------------------------------------------------------------------------
(* Celery and workers/tasks.py *)

Idle(p) == child[p].task = NoTask
Running == {child[p].task : p \in {q \in Children : ~ Idle(q)}}

(* The backend keeps the outcome of a task that succeeded once. *)
Record(f, m) == [meta EXCEPT ![f] = IF @ = "SUCCESS" THEN @ ELSE m]

(* The worker fetches the next message of the list. *)
Reserve ==
  /\ reserved < Prefetch /\ reserved < Len(broker)
  /\ reserved' = reserved + 1
  /\ UNCHANGED <<net, work, broker, unacked, back, again, meta, poll, copies, faults>>

(* The place of the message whose turn it is. *)
Turn == 1
Without(i) == [j \in 1 .. Len(broker) - 1 |-> broker[IF j < i THEN j ELSE j + 1]]

(* A child is handed a reserved message, which is acknowledged, and        *)
(* reports STARTED.                                                        *)
Start(p) ==
  /\ Idle(p) /\ reserved > 0
  /\ LET f == broker[Turn] IN
       /\ child' = [child EXCEPT ![p].task = f]
       /\ meta' = Record(f, "STARTED")
       /\ runs' = [runs EXCEPT ![f] = @ + 1]
  /\ broker' = Without(Turn) /\ reserved' = reserved - 1
  /\ UNCHANGED <<net, fed, lost, unacked, back, again, poll, copies, faults>>

(* process_frame: _get_orchestrator creates the child's orchestrator at    *)
(* its first frame; the orchestrator counts a frame whether or not it then *)
(* raises, which is returned as an error, a result without plates.         *)
Returns(p, plates) ==
  /\ ~ Idle(p) /\ ~ child[p].returned
  /\ child' = [child EXCEPT ![p].returned = TRUE, ![p].plates = plates]
  /\ UNCHANGED <<net, runs, lost, line, meta, poll, copies, faults>>

process_frame(p) ==
  /\ \E plates \in BOOLEAN : Returns(p, plates)
  /\ fed' = [fed EXCEPT ![p] = Append(@, child[p].task)]

(* The worker has another key, or the decrypted bytes are no image: an     *)
(* error before the orchestrator is asked for.                             *)
decrypt_frame_fails(p) == Returns(p, FALSE) /\ UNCHANGED fed

(* What Celery stores. A tracked plate's bbox is a tuple of numpy.float32, *)
(* which the JSON serializer refuses: the encoding error fails the task.   *)
Outcome(plates) == IF plates THEN "FAILURE" ELSE "SUCCESS"

Released(c) == Fresh

Store(p) ==
  /\ child[p].returned
  /\ meta' = Record(child[p].task, Outcome(child[p].plates))
  /\ child' = [child EXCEPT ![p] = Released(@)]
  /\ UNCHANGED <<net, fed, runs, lost, line, poll, copies, faults>>

AfterDeath(f) == broker

(* A child is killed (time limit, memory): the worker fails its task and   *)
(* starts another child, whose orchestrator is created at its first frame. *)
ChildDies(p) ==
  /\ ~ Idle(p) /\ Fault
  /\ child' = [child EXCEPT ![p] = Fresh]
  /\ fed' = [fed EXCEPT ![p] = <<>>]
  /\ broker' = AfterDeath(child[p].task)
  /\ meta' = Record(child[p].task, "FAILURE")
  /\ UNCHANGED <<net, runs, lost, hold, poll, copies>>

(* The whole worker is killed and restarted: its tasks stay STARTED. The   *)
(* messages it held are unacknowledged, and so may be those of tasks that  *)
(* have just begun.                                                        *)
WorkerDies ==
  /\ Fault /\ (Running # {} \/ reserved > 0)
  /\ \E early \in SUBSET {p \in Children : ~ Idle(p) /\ ~ child[p].returned} :
       LET Held(f) == {i \in 1 .. reserved : broker[i] = f}
           Begun(f) == {p \in early : child[p].task = f}
       IN
       /\ unacked' = [f \in Frame |->
            unacked[f] + Cardinality(Held(f)) + Cardinality(Begun(f))]
       /\ again' = [f \in Frame |-> again[f] + Cardinality(Begun(f))]
       /\ back' = back \cup {f \in Frame : Held(f) # {} \/ Begun(f) # {}}
  /\ broker' = SubSeq(broker, reserved + 1, Len(broker)) /\ reserved' = 0
  /\ child' = [p \in Children |-> Fresh]
  /\ fed' = [p \in Children |-> <<>>]
  /\ lost' = lost \cup Running
  /\ UNCHANGED <<net, runs, meta, poll, copies>>

(* A message given back is the next one of the list. *)
GivenBack(f) ==
  [j \in 1 .. Len(broker) + 1 |->
     IF j <= reserved THEN broker[j] ELSE IF j = reserved + 1 THEN f ELSE broker[j - 1]]

(* The visibility timeout of a message that a dead worker left is over. *)
Restore(f) ==
  /\ unacked[f] > 0
  /\ unacked' = [unacked EXCEPT ![f] = @ - 1] /\ broker' = GivenBack(f)
  /\ UNCHANGED <<net, work, reserved, back, again, meta, poll, copies, faults>>

(* It is over for a message that a living worker holds, all its children   *)
(* being stuck: the worker keeps it, and Redis hands it out once more.     *)
Overdue ==
  /\ Fault
  /\ \E i \in 1 .. reserved :
       /\ broker' = GivenBack(broker[i]) /\ back' = back \cup {broker[i]}
       /\ again' = [again EXCEPT ![broker[i]] = @ + 1]
  /\ UNCHANGED <<net, work, reserved, unacked, meta, poll, copies>>

(* result_expires: an hour, longer than any task may run. Only the record  *)
(* that a poll reads may expire: nobody else would notice.                 *)
Expire(f) ==
  /\ f = poll.task
  /\ meta[f] # "PENDING" /\ f \notin Running
  /\ meta' = [meta EXCEPT ![f] = "PENDING"]
  /\ UNCHANGED <<net, work, line, poll, copies, faults>>

------------------------------------------------------------------------------
(* api/routers/ingest.py: get_task_status reads the state, the result of a *)
(* task it finds succeeded and the error of one it finds failed. An        *)
(* AsyncResult keeps what it read once the task is ready; before, it asks  *)
(* the backend again.                                                      *)

MetaRead == IF poll.cache \in Ready THEN poll.cache ELSE meta[poll.task]
KeepMeta(m) == IF m \in Ready THEN m ELSE poll.cache

PollBegins(f) ==
  /\ poll.step = "none" /\ f \in Polled /\ copies[f] > 0
  /\ poll' = [NoPoll EXCEPT !.task = f, !.step = "state"]
  /\ UNCHANGED <<net, work, line, meta, copies, faults>>

ReadState ==
  /\ poll.step = "state"
  /\ poll' = [poll EXCEPT !.state = MetaRead, !.cache = KeepMeta(MetaRead), !.step = "result"]
  /\ UNCHANGED <<net, work, line, meta, copies, faults>>

ReadResult ==
  /\ poll.step = "result"
  /\ poll' = [poll EXCEPT !.result = (MetaRead = "SUCCESS"), !.cache = KeepMeta(MetaRead), !.step = "error"]
  /\ UNCHANGED <<net, work, line, meta, copies, faults>>

ReadError ==
  /\ poll.step = "error"
  /\ poll' = NoPoll
  /\ UNCHANGED <<net, work, line, meta, copies, faults>>

------------------------------------------------------------------------------
Work(p) == Start(p) \/ process_frame(p) \/ decrypt_frame_fails(p) \/ Store(p)

Next ==
  \/ \E s \in Streams : Capture(s) \/ ConnectionLost(s)
  \/ \E f \in Frame : \/ ingest_frame(f) \/ encrypt_frame_fails(f) \/ ingest_frame_fails(f)
                      \/ Expire(f) \/ PollBegins(f)
  \/ \E p \in Children : Work(p) \/ ChildDies(p)
  \/ Reserve \/ WorkerDies \/ (\E f \in Frame : Restore(f)) \/ Overdue
  \/ ReadState \/ ReadResult \/ ReadError

(* Fairness: the worker fetches what it may, a living child goes on with   *)
(* its task and takes the next, and every timeout is over in the end; the  *)
(* clients, the network and whoever polls may stop at any time.            *)
Spec ==
  /\ Init /\ [][Next]_vars
  /\ \A p \in Children : WF_vars(Work(p))
  /\ WF_vars(Reserve) /\ WF_vars(\E f \in Frame : Restore(f))

------------------------------------------------------------------------------
(* Every variable has its type; the line holds only published frames, and  *)
(* the worker at most Prefetch of them. No answer of the API is the status *)
(* a client counts as a queued task.                                       *)
TypeOK ==
  /\ \A s \in Streams :
       cli[s] \in [pc : {"reading", "posting"}, frame_count : 0 .. MaxFrames[s],
                  task_count : {0}]
  /\ wire \subseteq Frame /\ upset \subseteq Streams /\ lost \subseteq Frame /\ faults \in 0 .. MaxFaults
  /\ \A i \in 1 .. Len(broker) : copies[broker[i]] > 0
  /\ reserved \in 0 .. Prefetch /\ reserved <= Len(broker)
  /\ unacked \in [Frame -> Nat] /\ again \in [Frame -> Nat] /\ back \subseteq Frame
  /\ \A p \in Children :
       /\ child[p].task \in Frame \cup {NoTask}
       /\ child[p].returned => ~ Idle(p)
  /\ \A f \in Frame : meta[f] \in States
  /\ copies \in [Frame -> 0 .. 2]

(* No task is executed more often than it was published, whatever child or *)
(* worker dies with it or with its message reserved: the early             *)
(* acknowledgement of workers/celery_app.py, which sets no acks_late. Only *)
(* a message that Redis hands out again while its first holder may run it  *)
(* too makes for one more. An orchestrator that was given a frame twice    *)
(* would count one reading as two votes.                                   *)
RunsAtMostPublished == \A f \in Frame : runs[f] <= copies[f] + again[f]

(* Frames of one stream reach any one orchestrator in the order they were  *)
(* captured, although each is a task of its own and several children work  *)
(* at once: the tracker and the vote depend on it. (A client that lost a   *)
(* connection may have a frame overtaken, a repeated message comes twice,  *)
(* and one that is handed out again comes behind later frames.)            *)
StreamOrder ==
  \A p \in Children : \A i, j \in 1 .. Len(fed[p]) :
    LET f == fed[p][i]
        g == fed[p][j]
    IN  i < j /\ f[1] = g[1] /\ f[1] \notin upset /\ copies[f] = 1 /\ copies[g] = 1
          /\ g \notin back => f[2] < g[2]

(* The answer of get_task_status, pieced together from three reads of a    *)
(* state that changes and expires meanwhile: SUCCESS always comes with the *)
(* result, FAILURE with an error, and never both.                          *)
PollIsConsistent ==
  [][ReadError =>
       LET error == MetaRead = "FAILURE"
       IN  /\ poll.state = "SUCCESS" => poll.result
           /\ poll.state = "FAILURE" => error
           /\ ~ (poll.result /\ error)]_vars

(* A queued task whose outcome a client waits for gets one, unless the     *)
(* whole worker dies with it: then its state is STARTED for good.          *)
TasksAreDecided ==
  \A f \in Polled :
    (\E i \in 1 .. Len(broker) : broker[i] = f) ~> (meta[f] \in Ready \/ f \in lost)
==============================================================================
