# ANPR_ComputerVision in TLA+

TLA+ models of the automatic number-plate recognition system in this
repository, the TLC runs that check them on small instances, and TLAPS proofs
of every safety property the runs check. `PROJECT.json` ties every definition
to the source lines it models (`map`), lists the runs, the mutated code each
property must notice (`mutants`), the disagreements found between code and
documentation (`findings`), the hazards of the code (`hazards`) and the
theorems.

    tlc -workers 2 -config FrameScheduler.cfg FrameScheduler.tla
    tlc -workers 2 -config Backoffice.cfg MCBackoffice.tla
    tlapm BackofficeProofs.tla

## 1. The system: components, state, interaction

A camera's frames come in through a *frame source* (`ingest/`), either read by
the *frame scheduler* (a thread and a bounded queue,
`anpr_core/pipeline/scheduler.py`) or by `ingest_cli.py`, which posts each one
to the API; the API encrypts it and enqueues a Celery task; a worker's
*orchestrator* (`anpr_core/pipeline/orchestrator.py`) detects plates, drops poor
crops, reads each with two OCR backends, tracks the plates over frames, votes
over a track's readings, classifies the region, repairs the text for that region
and decides whether to persist it. Detections published on a Redis channel reach
browsers over websockets (`api/routers/websocket.py`). The rest of the API is
the back office: review queue, watchlist, streams, users, and the reads behind
the dashboard; the dashboard itself is a React application. A Lambda rotates the
database password.

| component | state it keeps | operations | shared with | what is hard | correct when |
|---|---|---|---|---|---|
| frame scheduler | queue, `_stop`, four counters | reader loop, `get`, `stop` | consumer threads | interleaving of put, evict, get; shutdown | newest run kept, order, every frame accounted for, source released |
| RTSP adapter | capture, backoff, time of last failure | `_connect`, `read` | its caller's loop | outages, timeouts, a result with two meanings | backoff follows failures; recovers with the camera |
| orchestrator | `frame_counter`, the tracker | `process_frame`, `reset_tracking` | tracker, OCR, voter | a step failing for one crop of several; early returns | a text stays with its plate |
| plate tracker | histories per track, frame number, ByteTrack | `update`, `reset` | orchestrator | positions, ids reused after reset, tracks that outlive their plate | one reading per frame and track, in order |
| fusion, voter, postprocessors, gate | none | pure functions | orchestrator | lengths, ties, quorum, order of search; a vote per character | one odd frame never decides; persisted texts are valid |
| live stream | connections per stream, listener tasks | connect, leave, listen, broadcast | event loop, Redis | awaits inside an iteration over a set that changes; who cancels the listener | no dead connection stays registered; members are served; duplicates have two known causes |
| rotation Lambda | stages of the secret, the database's password | create, set, test, finish | Secrets Manager, RDS, operators | retries, asynchronous change, stopping half way | `AWSCURRENT` works whenever a rotation is complete |
| frame ingest | client counters, Celery queue and reserved messages, one orchestrator per child process, result backend | post, publish, reserve, take, return, store, poll | clients, API, workers | several children for one stream; deaths, lost answers, messages repeated or handed out again; a record read three times | executed at most as often as published; a stream's order kept; every task decided |
| data, audit | none (reads) | seven scoped reads, audit list and export | PostgreSQL | hand-written checks in different orders; filters that replace the scope; a list that fails for one row | rows of assigned regions only; lists and details agree |
| review queue | rows of `review_queue` | resolve (list and statistics only read) | reviewers | load, then commit without a version; a JSON column changed in place | a decision is whole; a correction stays |
| watchlist | rows of `watchlist` | create, get, list, update, delete | operators | rows gone between load and commit | rows keep their columns; reads agree |
| streams | rows of `cameras` and `detections` | create, get, list, delete with cascade | detections and reviews written meanwhile | two deletes in one transaction, foreign keys without ON DELETE, two of them independent | a stream goes with all detections that name it or none |
| authentication, users, roles | rows of `users`, tokens of clients | login, register, refresh, token checks, change password, list and update users | API, clients | a token's role is older than the database's; check, then commit | a lost role expires; what was decided stays; emails unique |
| browser session, live page | token in localStorage, store, requests in flight, socket | login, logout, fetch user, intercept 401, select camera, socket events | other tabs, API | answers after logout, sockets replaced under late events | hydration ends; status and list belong to the current socket |

`PROJECT.json` "components" lists every part, the ones left out too, with the
reason; "hazards" lists what is hard to test at the line where it bites.

## 2. Plan

Order of work, most important behaviour first. All ten are done.

1. `FrameScheduler` refining `FrameWindow`, with its proofs.
2. `RtspSource`: the adapter and the loop around it.
3. `Voter`, the vote over a track's readings, and `PlateTracking`: a frame's way
   through orchestrator and tracker.
4. `Recognition`: the pure text algorithms, run for one track, with `Voter`
   again.
5. `LiveStream`: the websocket registry and its listeners.
6. `RotateSecret`: the Lambda against Secrets Manager and RDS.
7. `FrameIngest`: clients, API, Celery and its worker, with `FrameIngestProofs`.
8. `DataAccess` (the reads) and `Backoffice` (the writes of review queue,
   watchlist and streams beside them), with `BackofficeProofs`.
9. `Accounts`: users, tokens and roles, with `AccountsProofs`.
10. `BrowserSession`: store, interceptor and live page of one tab.

A module for retention and archive was planned and dropped: nothing calls
that code (section 7).

Then theorems about the components as they stood: `RotateSecret`,
`LiveStream`, `BrowserSession`, the order of frames in `FrameIngest`, the
agreement of reads in `Backoffice`, the text algorithms of `Recognition`,
`RtspSource` and `PlateTracking`. The two modules that vote share `Voter`, so
there is nothing left to reconcile between them.

Left is what the prover cannot do: liveness (section 6). No module declares a
RECURSIVE operator.

## 3. Modules and how they correspond to the code

**FrameWindow** is what the scheduler promises: frames numbered as the camera
delivers them, a window `lo+1 .. hi` of waiting ones, the oldest delivered or
dropped, the newest skipped only when nothing waits.

**FrameScheduler** has one action per operation on state that another thread
can see. The reader's `pc` follows `_reader_loop`: `Check` (`while not
self._stop`), `ReadFrame`/`ReadEnds` (`source.read()`), `CountRead`, `Put`,
`EvictOldest`/`LoseNewest` (`get_nowait` in the handler of `queue.Full`),
`CountDrop`, `Reput`, `Close`. A consumer's `cpc` follows `get`: `Get`,
`CountConsumed`, `RecordSize`. `delivered`, `evicted`, `lost` and `readAtStop`
are history. `frames_consumed += 1` is one step: CPython 3.11, the version the
project is built with, switches threads only at calls and at the end of loops,
never between the load and the store of an attribute. A `get` that times out
and the `join(timeout=1.0)` of `stop` change nothing.

**RtspSource** keeps the time since the last failure instead of the clock,
saturated at the largest backoff, and lets a connection attempt take time.
`Read` is one call of `read()`, with `_connect` (`Waits`, `Reconnects`,
`AttemptFails`) inside it. A capture that was open when the camera went is
`dead` for good, also when the camera is back: only `Drops`, which releases it,
leads to a new connection. `EndsOnNone` selects the caller. Its specification
is `RtspSpec`, and that of `BrowserSession` is `TabSpec`: the proofs about each
stand beside those of the component next to it, in one module.

**Voter** is the vote of `voter.py`, position by position over the readings of a
track: the character with the most votes, of equals the first that was read,
and `Unsure` when it lacks the quorum of `min_votes` or 67 %. It declares no
state; `PlateTracking` and `Recognition` both extend it.

**PlateTracking** models `process_frame` with `PlateTracker.update`. A
detection is a record of what the environment makes of a plate in this frame:
whether the quality gate passes it, what the OCR reads (the text, a misread,
or nothing when it raises), whether ByteTrack returns it. Texts are sequences of
characters, and a voted text may be one that no frame read. The code's alignment
by position (crops, OCR results, tracked boxes, zip) is kept. What the region,
the regular expressions and the confidences decide is free within what they can:
`Rewrites` undoes up to two confusions of a text that can pass, and `Judged`
lets the gate persist it or not (`Recognition` has what both depend on). Every
way out of `process_frame` before the tracker leaves the same state and is one
action, `FrameWithoutPlates`. ByteTrack is external and idealised: it never
confuses two plates. `Kept` is a sequence without the elements a step drops,
given by the ranks of the indices that stay, so that the alignment can be proved
about. **MCPlateTracking** gives two plates: ABC, of which every frame misses or
misreads one character so that three frames vote a text none of them read, and
DE.

**Recognition** holds the pure functions: `Fuse`, `Vote` (the voted text with
its confidences), `Postprocess`, `Gate`, and `Frame`, which applies them to one
track as `process_frame` does. Plates are sequences over the letters and digits
that occur in the confusion maps; regular expressions are their letter and digit
layouts; confidences are hundredths. `FirstValid` keeps the order of the nested
search loops. `Squeezed` builds the text without its spaces prefix by prefix,
and `Mean` is an operator of its own, so that both can be reasoned about.
**MCRecognition** gives the six outputs a backend may have.

**LiveStream** runs on one event loop: a step is what happens between two
awaits. `iter` is a broadcast in progress over the live set object: the size the
set had (Python raises when it changed), the members to visit, the ones a send
failed to; once the key is deleted the broadcast goes on over an abandoned set
(`Detached`). A connection that joins during a broadcast comes ahead of the loop
or behind it, and its join may make CPython hash the members into a new table
(`Ahead`): the loop, which goes on from the same slot, may then meet any member
again or miss it, unless the size has changed by the time it looks. CPython
rebuilds a table when three fifths of its slots are used, those of members that
left included: at the fifth join for the eight slots a set starts with.
`TableSlots` is the join from which a rebuild may happen, `joined` counts the
joins of the set object, and `rebuilt` is history.

**RotateSecret** has one action per step of the Lambda and per retry inside
it; `StepFails` is any exception and the loss of an answer. Secrets Manager
(next step, retry), the database (which applies a password some time after
`ModifyDBInstance` returned) and the operator of `docs/SECRETS_ROTATION.md` are
external.

**FrameIngest** names a task after its frame. A client (`cli`) reads, posts and
counts; `wire` holds the POSTs the API has not answered, and a client that loses
its connection goes on while its request is still served. Publishing may fail or
repeat the message (`copies`). The worker reserves the first messages of the
queue, `Prefetch` at most (four per child in Celery, whose multiplier
`celery_app.py` does not set); a child takes the first reserved one and
acknowledges it at once; `runs` counts executions, `fed` is what its
orchestrator was given, across streams. A child that dies has its outcome
recorded by the main process. A worker that dies leaves its tasks STARTED, and
what it had reserved, or had begun so recently that the acknowledgement is lost
too, `unacked`; Redis gives that back (`Restore`) at the head of the queue when
the visibility timeout of an hour is over, however far later frames have come by
then. The timeout may also end for a message that a living worker still holds
(`Overdue`): `docker-compose.prod.yml:95` lets a task run for that same hour.
`Outcome` is what the backend can store: a result with plates holds
`numpy.float32` and cannot be encoded. The GET of a task's state is three steps
(`ReadState`, `ReadResult`, `ReadError`) with the cache of `AsyncResult`; in
between the task goes on and its record may expire. Redis, Celery and the camera
are external. **MCFrameIngest** gives the two streams two frames and one.

**DataAccess** translates the read endpoints as operators over the tables that
return a status and a set of rows, each with its checks in the order of the
code. Scope, region and camera filters are parameters, and so is the limit of
the audit list, which fails as a whole when an entry it would show has a NULL
where the response requires a value (`complete`). `list_review_queue` and its
statistics are left out. **Backoffice** extends it with the writes. A request is
loaded in one step and committed in a later one; `old` is the row as the session
loaded it, `new` what the handler made of it, and `Update` writes the columns
that differ, as SQLAlchemy does under READ COMMITTED. `BlobAfter` keeps the
aliasing of `detection_blob`: the correction goes into the loaded dict, so the
session sees a change only when the stored blob was empty and a new dict took
its place. The cascade of `delete_stream` is two steps in one transaction, with
the row locks (`Locked`) and foreign keys that PostgreSQL puts between them and
other writers; a detection refers to a camera and, independently, to a stream or
NULL, so that two cascades can wait for one another (`WaitsFor`, `Deadlocked`).
`decisions` and `dead` are history. **MCBackoffice** gives two regions with one
plate each, an audit log of three entries, the oldest with a NULL, and the
symmetry sets.

**Accounts** has a clock in ticks; `Life` is `jwt_expire_minutes`. A token
fixes user and role; `require_role` trusts it, `settings.py` and `refresh` ask
the database. Registration, password change and user administration are check
and commit with other requests between; a commit writes the columns that the
request changed (`Written`). `seen` and `decided` are history: when each role
and each password of a user was last in force, and what was last decided on.
`list_users` only reads and is left out.

**BrowserSession** is one tab. A request carries the token stored when it is
sent; its answer is applied to the store as it is on arrival. `Sets` is a
change of the store with the React effects it triggers (`Effect`, `Unmount`).
A socket that was replaced stays in `replaced` until its close event.

## 4. Runs

| run | instance | distinct states | shows |
|---|---|---|---|
| scheduler | 2 consumers, queue of 2, 6 frames | 48,651 | accounting, bound on losses, shutdown, refinement of `FrameWindow` |
| rtsp_adapter | backoff 4, 6, 9, 13, 19, 20; attempts up to 6 ticks | 918 | backoff after any outages; recovery |
| rtsp_in_loop | the same, caller leaves on None | violation | the promised reconnect never happens in the repository's loops |
| live_stream | 3 clients, 2 messages, rebuilds from the third join | 154,143 | registry, listeners, copies |
| plate_tracking | 2 plates, 4 frames, 4 readings, texts of up to 3 characters | 110,442 | texts and histories; what may be persisted |
| rotate_secret | 3 rotations, 3 invocations per step, 2 operator retries | 16,995 | AWSCURRENT was tested and works |
| rotation_revert | the same | violation | a failed test reverts nothing |
| recognition | 6 outputs per backend, 3 frames, 3 regions | 16,957 | fusion, voting, repair, gate |
| frame_ingest | 2 streams with 2 and 1 frames, 2 children, 2 reserved messages, 1 fault | 1,478,129 | executions, order, polled answers, every task decided |
| backoffice | 3 requests, 2 at once; 2 cameras, detections, entries; 1 item | 932,555 | decisions, corrections, scope of reads, agreement of reads, cascade |
| accounts | 2 clients, 3 users, 3 ticks, 2 writing requests | 1,091,916 | unique emails, expiry of roles, decisions that stay |
| browser_session | 2 requests in flight, 2 cameras, 2 changes from outside | 487,904 | socket and status, list of detections, hydration |

`TypeOK` of each module (`RtspTypeOK`, `TabTypeOK`) also carries the bounds and
references between its tables that its mutants break: unique emails in
`Accounts`, foreign keys in `Backoffice`, `task_count` in `FrameIngest`.

Why the bounds are enough. *Scheduler*: a queue of two is the smallest in which
"the oldest" and "the newest" differ; six frames fill, drain and refill it and
allow two losses, each after two deliveries. *RTSP*: the delays reach the cap,
and the attempt may outlast or undercut the delay. *Live stream*: three clients
are needed for a starter that leaves while one stays and another comes; two
messages tell a repeated message from the next one. `TableSlots` is 3 instead of
CPython's 5, so that the least number of clients for a join and a leave under a
broadcast, three, is enough to meet a rebuilt table. *Tracking*: two plates are
needed to swap texts; three readings are where voting begins, and a fourth
separates two-of-four from a majority; four frames hold these four readings, and
frames without plates in place of some. Texts of three characters of which each
frame loses another one are the least that vote a text nobody read. *Rotation*:
with three, one may stop half way, one follows it and one is complete.
*Recognition*: voting needs three frames, and the six outputs were chosen so
that lengths, ties, confusions (one, two next to each other, and two apart in a
plate that is short of a US layout by just these two), spaces and low confidence
all meet. *Frame ingest*: two frames of one stream are the least that can be out
of order, two children the least that split a stream, the second stream shares
both children; two reserved messages are the least of which one may be taken
while the other is lost with the worker and comes back behind it; one fault of
any kind at any place; polled is the frame that others are ahead of. *Back
office*: two requests race and a third meets what they left; a second camera,
detection and entry keep the tables from being all or nothing; the one item is
what the reviewers race for; the stream there is at first lies in the region the
user may see (`Seeded`), those that are created in either. `Verdicts` are
"approved" and "rejected", which the code treats alike. *Accounts*: a life of
one tick and a refresh life of two let a token outlive the role, be refreshed,
and outlive the refresh token within three ticks; three ids are two who race for
an address and the administrator. *Browser*: two slots hold two `fetchUser` at
once, or one beside a login. Bounds appear as guards (`MaxFrames`,
`MaxMessages`, `MaxRotations`, `MaxTracks`, `MaxReadings`, ...) or, for the RTSP
timer, as a saturated value. Deadlock is checked in the RTSP and tracking runs;
elsewhere the system may stop (the reader thread ends, every client has left, no
rotation is due, the bounded requests are used up). Symmetry is used in
`accounts` (ids, passwords, clients) and `backoffice` (row ids, verdicts,
request slots), which check safety only and choose no element of those sets; the
user, the plates and the audit log of `backoffice` are fixed, one pattern is
enough for them all.

**Fairness.** Four liveness properties. `StopReleasesSource` assumes weak
fairness of the reader thread alone: the operating system schedules it, and
`source.read()` returns, since OpenCV gives up on a silent camera. Nothing is
assumed of consumers. `StreamRecovers` assumes that time passes and that a
caller still in its loop calls `read()` again, which both loops of the
repository do at once; nothing is assumed of the camera, and the property only
speaks of one that stays up from some time on. `TasksAreDecided` assumes weak
fairness of each living child (`Work`): it goes on with its task and takes the
next one, which is Celery's loop; of `Reserve`, the worker's loop over the
queue; and of `Restore`, a timer of Redis' transport. The clients, the network
and whoever polls may stop at any time, and children and the worker may die.
`HydrationEnds` assumes that React runs the effect of `useAuth` when its
dependency changes (`FetchUserBegins`), that every request is answered by the
API or fails (`Answered`, per request), and that a page whose location was set
is replaced (`Reloads`); nothing is assumed of the user, of other tabs or of
sockets.

## 5. Findings

Eighteen statements of the documentation, of docstrings or of comments that the
code does not keep; `PROJECT.json` quotes the lines. Two have a run of their
own that TLC refutes: the automatic reconnect of the RTSP adapter, and the
rotation that reverts when its test fails. The others are facts of the models,
and the passing run named with each shows what holds instead:

- scheduler: one frame may be lost uncounted on overflow (the loss is bounded);
- live stream: the listener is no singleton once clients overlap;
- tracking: the tracker's clock stands still over frames without readable
  plates;
- fusion, vote, repair: the more confident backend always has its way, also
  where ML_SPEC calls the difference an agreement and takes the first backend's
  character; two votes of three are a quorum, where ML_SPEC asks for three or
  67 %; for US plates (and EU) one confusion is tried, ML_SPEC has up to two;
- review queue: a corrected plate is dropped unless the stored blob was empty;
  any item makes the list, and a resolution without notes its answer, a 500;
- streams: the cascade goes by stream id alone. A detection of another camera
  that names the stream goes too; one of the camera itself that names another
  stream or none, or one under review, makes the deletion a 500;
- plate events: once the plate's region is allowed, its detections by cameras of
  every region are shown, which the list of detections hides from the same user;
- audit: one entry without `ip_address` or `details` makes a list that would
  show it a 500, while the CSV export has it;
- accounts: while the rate limiter is on, nobody can register: the decorator
  takes the JSON body for the request;
- ingest: the client counts every queued frame as failed (202 is not 200);
  a task that found plates ends in FAILURE, because its result holds
  `numpy.float32`;
- browser: `fetchUser` is not started once on mount but by every change of the
  store; a refused login reloads the page and takes its error message with it.

## 6. Proofs

Eight modules of proofs, 43 theorems listed in `PROJECT.json`: every invariant
and action property of section 4 and the refinement. Each rests only on the
named assumptions of the constants and on an inductive invariant (`Init =>
Inv`, one case per action, then PTL). None of the properties below is inductive
by itself except where it says so. TLC checked every invariant on the instances
of section 4 before it was proved.

**CaptureProofs** is about the two ways of getting frames. The scheduler, for
every queue size (0 included, the unbounded queue), every number of frames and
every finite set of consumers (`SchedulerAssumption`): the state invariants of
run `scheduler`, five more that they rest on, and that the scheduler implements
`FrameWindow`.

- `TypeInv` adds `RoomMade`: in the handler of `queue.Full` the queue is
  bounded, and after the eviction there is room. Without it the second
  `put_nowait` could exceed the capacity. `ReputHasRoom` follows.
- `QueueIsNewestRun` gives the frame at each place in the queue;
  `DeliveredBelow` says that what was delivered is older than the head.
  Together they give `DeliveredInOrder`.
- `LossPaidFor` strengthens `LossBound` for the time between `queue.Full` and
  `get_nowait`: the room that has appeared in the queue was made by
  deliveries, so when the queue is found empty, `MaxQueue` frames were
  delivered since.
- `StopSeen` tells a reader that is past the check of `_stop` from one that
  has read since.
- `StatsCounted` relates the counters to the history; counting the consumers
  in mid-`get` uses the cardinality theorems.
- For the refinement, `StepShapes` says what each step does to the window, and
  each shape is a step of `FrameWindow` or a stutter.

The RTSP adapter, for any first delay, any cap from there up and any length of
an attempt (`RtspAssumption`): `RtspTypeOK` and `BackoffMatchesFailures`, which
together are inductive. What has to be shown is that the delays after n
failures exist at all: `BackoffMatchesFailures` chooses the function that
starts at the first delay and follows `Raise`. `DelaySteps` builds it for every
bound, by the smallest counterexample, and `DelayFacts` gives its steps and its
range; from there on the invariant is that `backoff` is `Delay[failures]`, also
when the failures counted are saturated: a raise adds at least one tick until
the cap is reached, so by then the delay is the cap (or the single tick that
rounding never raises).

**PlateTrackingProofs**, for any finite set of plates, any texts over any
characters with any confusions, and any numbers of frames, tracks and readings
(`PlateTrackingAssumption`): `TypeOK`, `HistoryIsSound`, `PersistedIsSupported`,
and that no two plates share a track (`TracksAreDistinct`). The invariant is
these four, with the tracker's frame never ahead of the pipeline's (nothing else
bounds it) and what is persisted being part of the report. Neither
`HistoryIsSound` nor the distinct tracks survives a frame without an argument
about positions:

- `KeptFacts`, `KeptDistinct`: a filtered sequence has one element for every
  index kept, each from an index of its own, so no plate appears twice in it.
- `OcrFacts`, `EntryFacts`: the reading at a position is of the crop at that
  position of what the OCR was given; if nothing was dropped on the way, this
  is the detection's own plate. That is why the property speaks of the frames
  that are whole, and it is all that the code's zip guarantees.
- `NewNumbers`, `NextTrackFacts`: the plates that are new in a frame get as
  many consecutive numbers as there are, without repetition.
- `HistoryStep`: a frame adds one reading to the track of each detection that
  ByteTrack returns and leaves the others alone, because the tracks differ.
- `SupportersFacts`, `VotedFacts`, `FinalTextFacts`: each character of a voted
  text is `Unsure` or has a quorum of readings behind it at its place, two of
  them once there are three readings; before, the text is a reading of its own.
- `JudgedFacts`, `ReportFacts`: what passes the gate has no `Unsure` in it, and
  postprocessing leaves each character or puts a confusion of it.

**FrameIngestProofs**, for any finite streams and children, any numbers of
frames and any number of faults (`FrameIngestAssumption`): `TypeOK`,
`RunsAtMostPublished`, `PollIsConsistent`, `StreamOrder` and `NothingForgotten`.
The invariant counts messages (`QueueInv`): the copies of a frame in the queue,
its executions and what Redis keeps of it (`unacked`) together are what was
published and what was handed out again (`again`), and a frame that is still on
the wire has not been published. For the poll it says what the step reached so
far fixes: a cached record that is final stays the answer to the later reads,
and the result of a SUCCESS comes with its state. For the order it follows a
frame from the wire to the orchestrator (`OrderInv`): what is on the wire of an
undisturbed stream is the client's next frame (`LineInv`), the queue is in order
(`QueueOrder`), what Redis keeps is ahead of it (`AwayOrder`), and for each
child what its orchestrator was given precedes the task it holds, and both
precede the queue (`ChildOrder`). A message that is given back goes to the head
of the queue, so it is in order with what follows (`GivenBackOrder`) and may be
late only for what was taken meanwhile: the order is that of every pair of
frames of which the later one given was not handed out again, was published
once, and whose client lost no connection. One child at a time takes from the
queue, so the order survives any number of children. `NothingForgotten` is the
safety part of `TasksAreDecided`: no message vanishes, and a record left at
STARTED has a child at work on its task or died with the worker, whichever of
two executions of one task ends first.

**AccountsProofs**, for any sets of users, clients and passwords, any lives of
the tokens and any number of requests (`AccountsAssumption`): `TypeOK`,
`RolesExpire` and `DecisionsStay`. The invariant ties each access token to the
history: its role was in force no earlier than `exp - Life`. For `DecisionsStay`
it is that `decided` is the table itself, in both columns: each commit writes
the column it decides and no other (`WrittenFacts`), however old the row is that
it loaded. Emails need the constraint at the commit of a registration; the check
before it is not enough, and the proof does not use it.

**BackofficeProofs**, for any tables, assignments and requests
(`DataAccessAssumption`, `BackofficeAssumption`): `TypeOK`, `DecisionIsWhole`,
`CorrectionsStay`, `ReadsStayInScope`, `ReadsAgree` and `CascadeIsWhole`.
`ReadsStayInScope` holds in every state and needs no invariant. `ReadsAgree`
needs only that rows refer to rows (`CameraReadsAgree`, `PlateReadsAgree`,
`DetectionsByRegion`). That each audit entry without a NULL can be listed at
all, although the list is limited and lost for one entry with a NULL, is
`ExportAgrees`: the request that asks for its time, user and action; no two
entries share a time (`DataAccessAssumption`). The others rest on:

- `RowsInv`, `ItemsInv`: rows refer to rows, and no item refers to a detection
  that a transaction has deleted and not committed (`Locked`). That is why a
  committed cascade leaves nothing dangling and takes nothing under review.
- `ResolveInv`: a resolution in progress loaded the item either untouched
  (`Fresh`), and then writes every column it decides, or after a decision; and
  if that is still the only one, the row is as it was loaded, so that the
  columns written and the columns kept make up one decision. A blob that was
  filled when it was loaded is filled still.
- `CameraInv`: what a cascade has deleted is there until it commits, and two
  cascades never delete the same detection.
- `Undecided`: an item without decisions is untouched.

**RotateSecretProofs**, for any number of rotations, invocations, attempts and
operator retries: `TypeOK`, `CurrentWasTested`, `CompleteMeansConnected`. The
invariant `Progress` says what each step that is behind the rotation has
achieved: after *set* the database has the new password or is about to
(`Ordered`), after *test* it has it, nothing else is under way (`Settled`) and
the version is in `tested`, after *finish* AWSCURRENT names it. Retries of later
steps keep what earlier ones achieved; a new rotation starts with none of it,
and that is why one that stopped half way does no harm to the next.

**LiveFeedProofs** is about both ends of the websocket. The server, for any
finite set of websockets and any number of messages: `TypeOK`, `MembersServed`,
`SequentialClientsClean` and `AtMostOncePerListener`. A message counts as spent
for a listener and a connection (`Spent`) once the listener has ended, is past
the message, or is in a broadcast of it that has passed the connection; every
copy a connection got is charged to a listener that is spent for it, or to a
rebuild of the set under a broadcast of the message (`CopiesInv`; `RebuildPays`
is the step that may make members unspent again), and the order of the inbox
(`InboxInv`) keeps a message from coming back. `AloneInv` is the state of a
stream whose connections never overlapped: one listener, owned by the one
member, with nobody else to send to. `MembersServed` is inductive.

The page, for any users, cameras, slots and caps: `TabTypeOK`,
`StatusFollowsSocket` and the action property `ListsSelectedCamera`. What the
code relies on is `ReplacedAreDeaf`: a socket that is replaced has had its
listeners removed in the same step, so no late event of it finds its way to the
page; with `SocketHasCamera` the status follows. `Sets` lists its outcomes as
separate disjuncts, one per case of the proof.

**RecognitionProofs**, for any outputs of the backends and any number of frames
(`RecognitionAssumption`): `TypeOK`, `EvidenceDecides`, `PersistedIsSound` and
`GivesUpOnlyWhenHopeless`. The invariant `TrackInv` says that the decision is
what voting, postprocessing and the gate make of the history (`Verdict`), and
that the last reading is the fusion of the inputs. All else is lemmas about the
operators, one for each: `FuseFacts`, `BestVoteFacts`, `VoteFacts` and
`MajorityFacts` (more than half of the readings is more votes than any other
character can have, and a quorum), `NormalFacts`, `SqueezedFacts`,
`FirstValidFacts`, `PostprocessFacts` (the result is the text, the text without
its spaces, or one that differs in at most `Swaps` places, each by a confusion)
and `HopelessFacts` (every choice of confusions within reach is in one of the
sets that are searched). Induction is on numbers only and by the smallest
counterexample (`Smallest`, `UpTo`), which bounds the folds of a mean and the
prefixes of `Squeezed`.

Only model-checked: the four liveness properties (`StopReleasesSource`,
`StreamRecovers`, `TasksAreDecided`, `HydrationEnds`). They rest on fairness,
and the rule that derives liveness from it needs ENABLED, which the prover
lacks.

## 7. Not modelled, and why

- Neural networks, image operations and the quality gate's metrics: their
  results are free inputs of `PlateTracking` and `Recognition`.
- Code without a live caller, as `pyproject.toml:162-176` says itself:
  `workers/tasks_privacy.py`, `workers/s3_utils.py`, `api/auth.py`,
  `api/rbac.py`, `api/encryption.py`, `api/settings.py`, `api/privacy/`. Three
  tasks of `workers/tasks.py` are stubs that log and return.
- Migrations: their two revisions describe tables with integer keys and other
  columns than `db/models`, from which `init_db` creates the schema that the
  routers use. The models' columns, keys and constraints are the tables and
  guards of `DataAccess`, `Backoffice` and `Accounts`.
- Of the API: the rate limiter, `/me` and health checks (no state of the
  system), get and put of settings (they store nothing), the blacklist's writer
  (no caller: the check is there, as a constant), the list and the statistics of
  the review queue and the list of users (reads no property is about). The
  handlers' answer to a role that may not write, 403, changes nothing and is
  left out.
- Of the dashboard: pages that make one request each; `useWatchlistAlerts`,
  which no component uses; `ReviewQueuePage`, whose requests carry `status`
  where the API requires `action`, so that none reaches the handler.
- `scripts/seed_db.py` hashes a password of eleven characters, which
  `validate_password_strength` refuses, so the script raises; `Init` of
  `Accounts` stands for accounts seeded some other way.
- Deployment workflows and scripts (templates with placeholder ARNs, unset step
  outputs and missing scripts), terraform, training, benchmarks and demos
  (declarative or offline).
- Within the modules: ByteTrack's mistakes, redelivery of a stale rotation
  invocation, and websocket authentication, which only decides whether `Connect`
  happens; ordering, paging and text search of the lists; the writers of
  detections and review items, which are outside `src/api` and free actions of
  `Backoffice`.
