# Sentinel in TLA+

Sentinel watches camera streams, detects persons in hazardous zones, stores
every violation in SQLite, raises throttled alerts and reports to a broker.
These modules model the parts of it where threads, retries, outages and
shutdown meet.  Paths below are relative to the repository root.

## 1. The system

### Components

| Component | State it keeps | Operations | Here |
| --- | --- | --- | --- |
| ViolationLogger (`src/utils/violation_logger.*`) | bounded queue, the writer's batch, the table, limits, counters, two mutexes | init, log_violation, flush, set_queue_limits, set_retry_policy, writer thread, destructor; get_pending_uploads, mark_uploaded, cleanup_old_logs | `ViolationLogger`, `ViolationLedger`, `CloudSync` |
| AlertThrottler (`src/utils/alert_throttler.*`) | per (zone, object): last alert, run of frames, violating flag | should_alert, set_cooldown, set_min_consecutive_frames | `AlertThrottler` |
| CameraSource (`src/pipeline/camera_source.*`) | GStreamer graph, stream state, reconnect flag and attempts, loop thread | start, stop, reconnectionLoop, on_new_sample, handleMessage | `CameraSource`, `PipelineManager` |
| PipelineManager (`src/pipeline/pipeline_manager.*`) | streams, last detections, degradation per stream, tiling thread, MQTT reconnection time | start, stop, onFrameReceived, checkAlerts, updateTiledView, enforceRuntimeDegradationPolicy, cloud sync | `PipelineManager`, `Degradation`, `Quality`, `FramePath`, `CloudSync`, `SystemLifecycle` |
| SortTracker, KalmanBoxTracker (`src/tracking`) | tracks with ages, streaks and states | update, associateDetectionsToTrackers, solveHungarian | `SortTracker`, `Hungarian`, `FramePath` |
| SystemLifecycle (`src/system_lifecycle.*`, `src/main.cpp`) | running and shutdown flags, health thread | start, run, healthCheckLoop, shutdown | `SystemLifecycle` |
| MJPEGStreamer (`src/utils/mjpeg_streamer.*`) | last frame and its number, listener and client threads | start, stop, publish, client_handler | `MJPEGStreamer` |
| MQTTClient (`src/utils/mqtt_client.*`) | the client of the library, messages in flight | connect, publish, disconnect (subscribe only as the restart command) | `CloudSync` |
| Web backend (`web/backend/src`) | config.json, its cached copy, MQTT session, masked URIs | routes, configManager | `ConfigStore` |
| ConfigLoader (`src/utils/config_loader.*`) | none | what it accepts | `ConfigStore` (`Loadable`) |
| LatencyLogger, inference, spatial, visualizer, frontend, installer | timers, numerics, drawing | | not modelled |

### How they interact

- One GStreamer streaming thread per camera runs `CameraSource::on_new_sample`
  and, through the frame callback, `PipelineManager::onFrameReceived`: the
  VRAM policy, inference (one mutex for all), the tracker of the stream, then
  `checkAlerts`, which calls `log_violation` for every violating object of
  every frame and `should_alert` for each of them.
- The reconnection loop of each source is a thread; `stop` joins it.  It reads
  the bus messages, since no GLib main loop runs.
- The writer thread of the logger takes batches from the queue and writes them
  to SQLite, which the web backend opens too.
- The tiling thread renders, publishes frames to the MJPEG streamer, sends
  heartbeats and telemetry, replaces an MQTT client that is not connected, and
  every ten seconds publishes the rows not yet uploaded and marks them.
- The lifecycle's health thread watches the manager; a restart command from
  the broker ends the process in an orderly way, and docker starts it again
  with what `config.json` says by then.  The web backend writes that file and
  people edit it.
- A viewer of the live view has a detached thread of its own, which reads the
  members of the streamer and is joined by nobody.

### What is hard

- Interleavings: records travel from the callers to the queue under one mutex
  and from the batch to the table under another; the reconnect flag is written
  by the loop, the bus handler, the streaming thread and `stop`.
- Failure and retry: a database locked by another connection, batches retried
  and given up, launches that fail, time out or come through late.
- Limits: the bounded queue whose limit may shrink under load, the doubled
  delay of the reconnection.
- Crashes: the process may be killed between publishing a batch and marking
  it, the machine may lose the last commits with its power, and the backend may
  die with `config.json` half written.
- Order of destruction: the members of the manager are destroyed in the
  reverse of their declaration while threads that use them are joined one
  after another.
- Data that outlives what it describes: vectors of the tracker are erased from
  while positions computed earlier are still used.
- Liveness: shutdown must drain the queue; a source must settle once its
  camera is back; `stop` must return from wherever the loop is.

`PROJECT.json` lists every hazard at its line with the property that covers
it, or the reason why none does.

## 2. The modules

| Module | Models | State and actions against the code |
| --- | --- | --- |
| `ViolationEvents` | the record of one violation | a record keeps camera, (zone, object) and timestamp; `Coalesced` is the rewriting of the tail of the queue; `calls` is history |
| `ViolationLedger` | what the logger promises | a backlog and a table; records are accepted, folded, displaced, stored in order, or abandoned |
| `ViolationLogger` | the logger with all its threads | variables are the members of the class with the trailing underscore dropped, plus where each thread is; one action per critical section or blocking point |
| `ViolationLoggerProofs` | theorems about it | |
| `AlertThrottler` | the throttler and its callers | one action per branch of `should_alert`; `log` is history |
| `AlertThrottlerProofs` | theorems about it | |
| `CameraSource` | one source: owner, loop, streaming thread, camera | one action per point at which another thread may see a change |
| `CameraSourceProofs` | theorems about it | |
| `Quality` | how far a stream is degraded | the two fields of the stream's context and their step; no variables |
| `Degradation` | the frames of one stream while free memory changes | one action per frame: count, adapt, pause or resume, decide; of a pause and a start only the outcome |
| `SortTracker` | the life of the tracks of one list | operators on a track and on the list, one per phase of `update`; no variables |
| `Hungarian` | `solveHungarian` in floats with the gate of its caller, and a reference | the local variables are a record, and one step of a loop is a function of it; `asked` and `found` are the matrix of a call and what the caller reads off |
| `HungarianProofs` | theorems about it | |
| `FramePath` | the frames of one stream from the policy to the labels | `Degradation` with the tracker behind it: `trackers_`, `occlusion_frames_`, `next_id_` and the labels handed on |
| `FramePathProofs` | theorems about it, `Degradation` and `SortTracker` | |
| `MCFramePath` | the small instance; runs the calls of `Hungarian` beside the frames | |
| `CloudSync` | a stored violation on its way to the broker | the table with its sequence, what a power failure would leave of it, the tiling thread between its three calls, the client and its messages |
| `CloudSyncProofs` | theorems about it | |
| `MJPEGStreamer` | the live view | where the listener and the thread of each viewer are; no specification of its own |
| `ConfigStore` | `config.json` and the backend | the file, the backend's copy, an update under way: read, truncated, filled; no specification of its own |
| `SystemLifecycle` | the process from start to exit and back, with both of the above | where the main thread is, and one frame callback; one action per call it makes and per thread it waits for |
| `MCSystemLifecycle` | the small instance; the configurations and updates that TLC follows | |
| `SystemLifecycleProofs` | theorems about it | |
| `PipelineManager` | the manager and one source, with the streaming thread as a second caller of start and stop | instantiates `CameraSource` on variables of the same names; adds where the main thread is and where the callback is |
| `PipelineManagerProofs` | theorems about it | |
| `MCViolationLogger`, `MCAlertThrottler` | small instances for TLC | |

**ViolationLogger.**  A critical section under `queue_mutex_` is one action.
`db_mutex_` is held across steps by init and by the writer through all its
attempts, so it is the variable `dbMutex`.  `log_violation` is two actions:
the look at `db_` under `db_mutex_` together with the timestamp
(`LogViolation`), then the queue section (`Coalesce` or `Enqueue`).  An
attempt of `write_batch_with_retry` either commits, meets a lock and is rolled
back (`AttemptRetries`), or ends the batch (`AttemptGivesUp`, also taken for an
error that is not a lock).  A second lock of `db_mutex_` by its own thread,
which `init` does through `cleanup_old_logs`, is undefined behaviour: the model
takes both outcomes, waiting for itself and going on.  Confidence and boxes are
left out.  `accepted`, `displaced`, `abandoned` and the `calls` of a record are
history and are read by no guard.

**AlertThrottler.**  The whole call runs under one mutex and is one action.
Time is an integer of units of the cooldown; two streams may ask about the same
key because each numbers zones and tracks from 1 and the pipeline passes only
these numbers (`pipeline_manager.cpp:382-399`).

**CameraSource.**  `should_reconnect_`, `stream_state_` and
`reconnect_attempt_` are written by several threads without a common lock, so
each write another thread could fall between is a step: `handleMessage` raises
the flag and sets the state in two steps, a frame clears the flag and sets the
state in two.  `++reconnect_attempt_` races with `= 0`: the write of the
streaming thread may be lost.  A launch ends live, or fails leaving no graph, a
pending one or a broken one; a pending graph may go live later.  Signed
overflow of the delay is undefined behaviour: the outcomes are those of builds
with and without optimisation.

**PipelineManager, Degradation, Quality.** In a build with CUDA every frame
first runs `enforceRuntimeDegradationPolicy` on the streaming thread.  Free
memory is one of four levels, those the thresholds (350, 600 and 750 MB) tell
apart, and changes at will; the input scale is counted in twentieths.
The frame that finds memory critical also stops the stream, and one that finds
it ample starts a paused one again.  `Degradation` keeps the frames, the quality
and `paused_for_vram`; of the stop and the start it keeps only the outcome, which
for the stop may be that the frame never comes back (`FrameHangs`).  A paused
stream need not deliver any more, though a frame under way may still come.
`PipelineManager` composes the policy with the
source: the actions of `CameraSource` are taken as they are, except that a
frame in the callback goes through the policy, which may stop the source
(`PolicyPauses`, `PauseStops`, `PauseJoins`, `PauseCloses`) or start it
(`PolicyResumes`, `PolicyRestarts`).  With a second caller `pipeline_mutex_`
can be contended, so these steps wait while the main thread holds it
(`OwnerHoldsPipeline`).  What GStreamer does when a streaming thread asks its
own graph to go to NULL is not this code's to decide: the constant `SelfJoin`
has both outcomes, waiting for ever and being refused.  A `std::thread`
assigned over or joined twice ends the process, and nothing is followed after
that.  The sums of the admission control depend on the other streams, so being
admitted is a choice.

**SortTracker, Hungarian, FramePath.**  Geometry and appearance only say which
pairs of a detection and a track pass the gates, so any matching may come out
of an association in `FramePath`; which one does come out is `Hungarian`'s
part.  There the local variables `u`, `v`, `p`, `way`, `minv`, `used`, `j0` and
the row are one record, with the loop the program is in (`phase`); `Step` is a
round of the search, a step of the way back, or the start of the next row, and
`Solved` is what the iterates of it come to.  The code computes with floats of
24 significant bits, and so does the model: costs are integers in a unit of
1/256, and `Fl` rounds every difference and sum to the nearest float, ties to
the even one.  Up to `Significand` (2^24 units, that is 65536) this is exact;
beside the padding (1e6, or 256000000 units) neighbouring floats are 16 units
or 1/16 apart.  `Gated` stands for `INF_COST` (1e5), `Padding` is ten times
that, as in the code, and `Infinite` is the largest float, with which the code
compares and never computes.  Costs between the multiples of 1/256 are left
out: beside the padding they round in the same way, elsewhere by some 1e-7.
In `FramePath`, which detection a track gets
changes nothing further on, so detections are numbered to fit: the first ones
are matched, in the order of the list (`InOrder`, by ranks). The code erases
tracks from `trackers_` and `occlusion_frames_` inside the loop that runs over
them, while `matched_tracker` and `predicted_boxes` keep the positions from
before: the survivors are then judged by the flag of another track. `Judged`
computes which ones really are, so the mistake is in the model. Counters are
kept no further than a comparison looks (`UpTo`). A frame that is not inferred
hands on no labels and leaves the tracks alone.

**CloudSync.**  `get_pending_uploads`, `publish` and `mark_uploaded` are three
actions of the tiling thread; the writer stores between any two of them, the
session breaks, the process is killed.  `publish` returns when the library has
the message: a message is in flight until the broker has acknowledged it, may
arrive more than once, and is forgotten when `ensureMQTTConnected` destroys the
client that held it.  With `synchronous=NORMAL` a power failure leaves the
database as of some earlier checkpoint (`durable`).  Each start deletes what is
older than the retention, uploaded or not.  `handed`, `dropped`, `stored` and
`powerCut` are history.

**SystemLifecycle, MJPEGStreamer, ConfigStore.**  The main thread goes through
start, work, `shutdown`, `stop` and the destruction of the members, and each
place where it waits for another thread is a guard.  `init` may hang instead of
coming back, as `ViolationLogger` shows (`InitHangs`); such a process can only
be killed.

One frame callback is followed through all of this.  It looks at `running_`
once, as it enters, and may then log violations and may find memory critical
and stop its own source (`FramePauses`).  `CameraSource::stop` by the main
thread clears `is_running_`, joins the loop and waits in the teardown for the
callback (`StopBegins`, `StopEnds`).  For a source that its own callback has
paused it returns at once (`StopReturnsAtOnce`): the main thread then goes on
to destroy the members while the callback may still be under way.  The
callback may be refused by GStreamer and come back, or wait for itself and
never do so (`FrameComesBack` is not fair).  When both threads are in the stop
of one source, the thread of its loop may be joined twice and either may wait
for ever (`BothInStop`).

Behaviour that C++ leaves undefined is a choice: a viewer's thread or a
callback that meets destroyed members may go on as if the memory still said so
(`DanglingLeaves`, `FrameLogsViolation`) or take the process down (`Crashes`),
and destroying the condition variable under a sleeping viewer may never return
(`DestroysStreamer` is fair only without a sleeper).  On Linux a thread blocked
in `accept` is not woken by another thread's `close`.  The port may be taken,
the database may be unusable (`StartFails`), and the process may be killed
anywhere.

The configuration has the three parts the properties tell apart.  The handlers
of the backend run one at a time, but nothing locks the file: an update reads
it and changes what it read (`HasToSave`), truncates it (`Truncates`, `Torn`)
and fills it (`WriteEnds`), each a step, and an edit by hand may fall before,
between or after them.  One request may change several settings.  A write may
fail, and the backend may die, at each of these points.

## 3. The runs

| Run | Question | Bounds |
| --- | --- | --- |
| `logger` | records and calls are accounted for, in order, never twice; flush is a barrier; the queue is bounded; the logger implements the ledger; everything accepted settles; the destructor drains | 2 cameras, 3 calls, queue limit 2 shrinking to 1, batches of 1 or 2, 1 retry shrinking to 0 |
| `logger_init` | does init come back? It need not | as above, 1 call |
| `throttler` | does should_alert answer what the history of the key says? | 6 calls, clock 0 to 4, cooldowns 0 and 1, runs of 1 and 3 |
| `throttler_shared` | is each camera's person alerted when due? No | 2 streams, 5 calls |
| `source` | one handler of the pipeline at a time; every break replaced; outages reported; the source settles; stop returns | at most 4 failed launches in a row, any number of outages |
| `frame_path` | do labels name the tracks just seen, do ghosts end, is a confirmed person remembered, do the matches of an association fit and are they the best up to rounding, does inference go on and the quality return? | 2 detections a frame, 2 ids, ages and streaks of 1 to 3, intervals 1 and 2, scales 1 and 2; 2316 matrices up to 3 x 3 over some of the costs 0, 24, 40, 512 and 25600000 (0, 0.09, 0.16, 2 and `INF_COST`) |
| `cloud_sync` | is a row marked as uploaded accounted for, handed over twice only for a reason, under an id of its own, and does everything settle? | 3 violations, batches of 2, 2 faults |
| `restart` | do the workers end before what they use, does a clean exit drain, does a viewer miss a frame, does an update keep what others wrote, does a request bring the engine back with the new configuration? | 1 viewer, 2 queued records; every configuration and update until the engine is first started, then 3 configurations and updates of the streams, each over before the engine works; edits at any time |
| `restart_completes` | does the engine exit after the restart command? Not without a further viewer | as `restart`, but no viewer and 1 queued record |
| `manager` | is a stream dark for a known reason only; does a stop of the manager return and leave nothing behind? | 1 stream, 2 failed launches in a row, 2 intervals, 2 scales |
| `manager_resume` | is a paused stream resumed when memory is ample? No | as `manager` |
| `source_backoff` | is there always a pause between 5 and 30 s before a launch? Not in a long outage | 5 failed launches, ints of 8 bits |

**Why the bounds are enough.**  Three calls of two cameras with a queue of two
reach coalescing, a record displaced from a full queue, a queue above a limit
that was lowered, a batch of two with another record behind it, a retry, and a
batch given up while a call is in progress; sequences of camera A, camera B,
camera A are the shortest in which coalescing must not skip a neighbour.  The
floor of the queue is 1 instead of 64, so that it fills.  For the throttler,
two runs of frames with a gap and an alert in each need six calls, and the
clock needs the values at, below and above the cooldown.  In `CameraSource`
four failures reach the capped delay (5, 10, 20, 30, 30) and nothing else
depends on the number of attempts until it overflows.  With 8 bits the shift
overflows at attempt 5 as it does at attempt 29 with 32 bits, after some
fifteen minutes of outage.  In `PipelineManager` the quality decides nothing,
so two intervals and two scales suffice there, and one failed launch is enough
for the main thread, the loop and the callback to meet in every phase; one
stream is enough because streams share only the memory, which is free to
change.

In `FramePath` two tracks are the fewest of which one can be erased in front of
another that is judged afterwards; ages and streaks are small and different so
that a track passes through every state, goes stationary and comes back from
dormancy within a few frames.  The intervals 1 and 2 give frames with and
without tracking next to each other; what longer intervals that change from
frame to frame may skip, with the constants of the code (1 to 6, scales 13 to
20, period 60), is the theorem `NeverStarves`.  A matrix of three detections
and three tracks is the smallest in which an augmenting path reassigns two
rows, and the shapes 1 x 3 to 3 x 2 use the padding.  The costs 24 and 40 lie
halfway between the floats beside the padding, on both sides of one, so that
rounding makes them equal; 0 and 512 are the least and the greatest a pair can
cost.  In `CloudSync` three
violations and batches of two leave a row outside a batch, two faults give a
fault during the recovery from another, and an id can be given out again after
both.  In `SystemLifecycle` viewers do not act on each other except through the
mutex, which is between one viewer and the publisher; the theorems have any
number of viewers.  The engine meets the store only when it reads the file, so
`MCSystemLifecycle` follows the store in full before the first start, where
updates, failed writes, backends that die and edits meet in every order, and
afterwards only as far as the restart asks: an old and a new configuration, one
the engine refuses, and a torn file.  The theorem about updates has no such
bound.

**What the passing runs of the manager do not say.**  `StopIsClean` and
`StopReturns` leave out a stream that is marked as paused: there the callback
may sit in `CameraSource::stop` while the manager waits for the callback, which
is the disagreement 4 below.  `QualityRecovers` leaves it out too: a paused
stream keeps its quality, because only its frames restore it.  With the constants of the code
`InferenceNeverStarves` bounds the pause by 60 frames, not by the longest
interval 6: memory that crosses 600 MB between frames changes the interval each
time, and the frame number may miss a multiple of it up to 59 times in a row.

**What the passing runs of the others do not say.**  `IdNamesOneViolation`
holds up to the first power failure only: the sequence of ids is set back with
the rows, and the cloud may then receive two violations under one id.
`UploadedIsAccountedFor` counts a message as accounted for that was in flight
in a client which was destroyed: the row looks uploaded and the broker never
had it.  `GhostsEnd` and `ConfirmedIsRemembered` have bounds that include what
judging a track by another's flag may add to its age, so they do not catch that
mistake.  `AssociationIsNearlyBest` allows for the rounding: nothing when every
detection can have a track that passes, otherwise 1/16 of a cost for each pair.
`UpdateKeepsOtherSections` says nothing of an edit that falls between the
reading and the truncation of the same update, which is lost, nor of a file
that somebody left torn, nor of `POST /config`, which replaces everything.
`WorkersEndFirst` and `CleanExitDrains` except a callback that paused its own
source: it may meet destroyed members, and what it logs last may stay in the
queue.  `CleanExitDrains` speaks of a clean exit only: a crash on the way may
lose records.  `RestartTakesEffect` leaves out a file the loader refuses (the
backend accepts cooldowns the engine does not), an `init` that hangs, a process
that is killed again as it starts, a viewer that slept through the end of the
streamer and two threads in the stop of one source, and assumes that viewers
come: without one the process does not exit, which is the disagreement 5.

**Fairness.**  Weak fairness of each thread of the process: they run unless
they are blocked.  Timed waits always end, so no wake-up has to be modelled,
and a lock that may be held again and again is not required to be won:
`EveryViolationSettles` holds even if the other connection keeps the file
locked, because the retries end.  The camera, the other connection and the
callers of start, stop, flush and log_violation owe nothing.  In `CameraSource`
fairness of `FrameArrives` says that a playing graph with a camera delivers,
and the conjunct on `CameraReturns` only ends an outage at its bound, so that
the bound is not mistaken for an end of the reconnection.

In `FramePath` the camera delivers while the stream is not paused
(`WF(FramesCome)`); nothing is asked of a paused one.  In `CloudSync` docker starts
a process that ended (`restart: always`, `docker-compose.yml:47`), the tiling
thread goes on, and the broker is up again and again for long enough to
connect, to take a message and to acknowledge it (strong fairness of
`Connects`, `Publish` and `Arrives`: the session may break again and again in
between).  In `SystemLifecycle` each thread and docker get their turn and the
writer goes on; a frame is handled in finite time (`WF(FrameEnds)`) unless it is
in the stop of its own source, of which nothing is asked.  Nobody has to kill,
log, publish or send in time, and no write of the backend has to end, except
that TLC follows only behaviours in which one is over before the engine works.
`MCViewedSpec`, used by `restart` alone, adds that viewers come again and again,
which the code does not guarantee: `restart_completes` shows what happens
without it.

**What disagrees with the repository's own words** (the runs that find a
violation; details under `findings`):

1. `init` locks `db_mutex_` and calls `cleanup_old_logs`, which locks it again
   (`violation_logger.cpp:60, 115, 361`).
2. The throttler is shared by streams that number zones and tracks from 1
   each, so one person's cooldown silences another's alert.
3. `5 * (1 << reconnect_attempt_)` overflows in a long outage: the backoff
   vanishes, or lasts for years, and then begins again at 5 s.
4. A stream paused for memory stops its own source from the frame callback
   (`pipeline_manager.cpp:665`), and only its own frames could resume it
   (`pipeline_manager.cpp:670`): it stays dark until the process restarts.
5. The streamer's `stop` closes the socket its listener is blocked on
   (`mjpeg_streamer.cpp:55`) and joins that thread, which wakes only when
   another viewer connects: after a restart command the engine does not exit
   by itself, while `docs/MQTT_EVENT_CONTRACT.md:211` says that it does.

A sixth has no run of its own.  `docs/conductor/spec.md:67` says that the
Hungarian algorithm minimizes the total cost.  In floats it does not where the
matrix is padded or gated: of two detections with the costs 40/256 and 24/256
for the only track, the first and dearer one gets it.
`AssociationIsNearlyBest` states what does hold.

## 4. The proofs

Every theorem is about all values of the constants allowed by the named
assumptions: bounds are numbers, floors and batches are positive, the values
standing for "nothing" are not members of the sets they stand beside, and for
`NeverStarves` the period is a multiple of every interval in use.  Together the
theorems state every safety property the runs check, `AssociationIsNearlyBest`
excepted.

| Module | Theorem | Property |
| --- | --- | --- |
| `ViolationLoggerProofs` | `TypeCorrect` | `TypeOK` |
| | `DatabaseIsDisciplined` | `DatabaseDiscipline` |
| | `NoRecordDisappears` | `RecordsAccountedFor` |
| | `QueueIsBounded` | `QueueStaysBounded` |
| | `FlushWaitsForAll` | `FlushIsABarrier` |
| | `RecordsStoredInOrder` | `StoredInOrder` |
| | `LoggerIsALedger` | `LedgerSpec`, the refinement |
| `AlertThrottlerProofs` | `TypeCorrect` | `TypeOK` |
| | `AnswersAreDue` | `AlertsWhenDue` |
| `CameraSourceProofs` | `OneHandlerAtATime` | `OneHandler` |
| | `SourceTypes` | `TypeOK` |
| `PipelineManagerProofs` | `DarkStreamsHaveAReason` | `DarkForAReason` |
| | `StopsAreClean` | `StopIsClean` |
| | `ManagerTypes` | `TypeOK` |
| `FramePathProofs` | `QualityTyped` | `TypeOK` of `Degradation` |
| | `NeverStarves` | `InferenceNeverStarves` |
| | `LabelsAreOfTheSeen` | `LabelsNameSeenTracks` |
| | `GhostsAreErased` | `GhostsEnd` |
| | `TheConfirmedAreRemembered` | `ConfirmedIsRemembered` |
| | `PathTypes` | `PathTypeOK` |
| | `PathImplementsDegradation` | `Spec` of `Degradation`, the refinement |
| `HungarianProofs` | `SolvedIsDone` | the loops end, with a column of its own for every row |
| | `LoopsEnd` | the same for the padded matrix of every call |
| | `AssociationsFit` | `AssociationFits` |
| `CloudSyncProofs` | `UploadsAreAccountedFor` | `UploadedIsAccountedFor` |
| | `HandedOverOnce` | `ResentOnlyWhenForgotten` |
| | `IdsAreNotReused` | `IdNamesOneViolation` |
| | `SyncTypes` | `TypeOK` |
| `SystemLifecycleProofs` | `WorkersEndBeforeMembers` | `WorkersEndFirst` |
| | `CleanExitHasDrained` | `CleanExitDrains` |
| | `NoFrameIsSleptThrough` | `SleepersMissNoFrame` |
| | `UpdatesKeepSections` | `UpdateKeepsOtherSections` |
| | `LifecycleTypes` | `TypeOK` |

**The logger.**  `TypeOK` is inductive by itself.  `DatabaseDiscipline` is not:
it needs `WriterLife`, that no writer runs before init returned or after the
destructor closed the database; together with the types this is `DBInv`.  From
`DBInv` the batch is empty when the writer takes a new one, so a batch is never
overwritten, and the balance of the counters is inductive (`RecordsStep`).  The
same split of the queue gives the account of the calls, `CallsAccountedFor`:
the accepted calls are those of the table, of the displaced and abandoned
records, of the batch and of the queue.  A flush returns true only when the
queue is empty and `writer_busy_` is down; then the batch is empty by
`DatabaseDiscipline`, and the account leaves only settled calls.

The order of the table says nothing of what is still on its way, so it is
proved of the whole line: the rows, then the batch, then the queue (`Line`).
`OrderInv` says that the records of one camera follow each other in it and have
no call in common, and that a call in progress is behind everything its camera
has there (`Waiting`).  Coalescing changes the last record only, a drop and a
batch given up leave a part of the line, and the writer moves the two marks.
For the ledger the backlog is the batch with the queue behind it, so what the
writer takes is a stutter, a commit of a batch is a store, and a displacement
is one from the middle of the backlog (`WithoutMiddle`).

**The throttler.**  An entry of `alert_states_` sums up the history of its key
(`SumsUp`): `count` is the length of the run of violating calls the history
ends in, and `last` is the latest time of its first call and its alerts.  This
is inductive (`GrowsSumsUp`), an earlier answer does not change when a call is
added (`PastStaysDue`), and for one more call the two comparisons of
`should_alert` are then exactly `Due` (`DueInRun`, `NotDue`).

**Degradation.**  The frame whose number is 0 modulo the period is inferred at
every interval, and the frames skipped since are no more than the present
number (`SkippedSinceZero`).

**The source and the manager.**  `HandlerInv` follows the owner: it starts a
loop when it has a pipeline and takes it back when the loop has ended, which
happens only after `is_running_` is down.  The attempts are within the outage
because the last one that may fail is followed by a launch that succeeds
(`AttemptsInv`); this needs who handles the pipeline.  With the policy as a
second caller `HandlerInv` is false, and `SourceInv` is what remains of it: only
a stream already marked as paused loses `is_running_` behind the owner's back.
`MainInv` adds where the main thread may find the source.  The types of the
source do not need `HandlerInv`: each of its own steps keeps them by the lemmas
of `CameraSourceProofs`, instantiated here (`SourceFacts`), and the steps of the
policy are added (`NextSourceTypes`).

**The frames.** `ListInv` says that the ids increase along the list, stay below
`next_id_`, that `occlusion_frames_` is as long as the list, and that a
tentative track lacks hits (`Sane`). An update is followed position by
position: `OldTracks` and `NewTracks` for the associations, `RoundOutcome` for
the last loop, which keeps exactly the positions that are not erased, in their
order. Both rest on ranks in finite sets of numbers: each rank below the size
is taken once (`EveryRankIsTaken`, by injections between finite sets). `Timely`
bounds the frames a track was unseen by its state; the flags of other tracks
may keep a confirmed one, and no flag keeps it longer than the larger of the
two extensions. `PlacesFit` gives each detection a position of its own that was
just seen, and each such position its detection; no such track is erased, and
ids differ where positions do.

**Cloud sync.**  `Base` says that a table, and the one a power failure would
bring back, has ids up to the sequence, events up to the last one stored and no
event twice, and that a batch consists of rows stored.  `Account` strengthens
`UploadedIsAccountedFor` to the batch already handed over and to the marks in
`durable`; it is kept because what is known of a message only grows
(`KnownGrows`).  `Handing`: an event that is neither marked nor in the batch
about to be marked has not been handed over since it was last forgotten.
`IdsCount`: until power fails the sequence equals the number of violations
stored and every row, and every pair the broker has, carries its own number.
The ids stay within their bounds because the sequence never runs ahead of the
violations stored (`Counting`), and a batch within its limit because the rows
listed have different ranks below it (`BatchLimited`).

**The lifecycle.** `EndedBy` lists, for each place of the main thread, what has
ended by then; `WorkersEndFirst` is its last place.  Once the sources are
stopped there is no callback, or the source was paused by its own, and no step
of a callback changes that (`FrameKeepsOrder`).  `Drains` follows the queue from
the logger's destructor to the exit status: a callback that is over when the
logger goes does not come again.  `ViewInv` follows a viewer from its look to
its sleep under `frame_mutex_`, and needs `EndedBy` for the process that is not
there.  `StoreInv` follows an update from its reading to its truncation
(`KeepsRead`): as long as nobody else has saved the file since, what it is about
to write agrees with the file outside its own sections.  Each kind of update
establishes this with its reading (`SettingsKeepOthers`, `StreamsKeepOthers`),
whatever the backend's copy was before; an edit sets `overlapped`, and the
engine leaves the store alone (`EngineOrStore`).

**The assignment.**  The theorems of the frames hold for every association;
`HungarianProofs` shows that the code's loops end and that its matches are one
of them, for matrices of every size and for every rounding: of `Fl` only that
it gives numbers is used (`FlIsInt`).  The library's induction theorems cannot
be used here, but a property of all numbers is a set of numbers, and if it were
not all of them the rest would have a least member (`LeastIsThere`, from the
pigeonhole principle); `Induction` says so once, and `Iterates` that a first
value and steps determine a function on the numbers, which gives the run behind
`Solved` (`RunFollows`).

The invariant has a form for each loop.  In all of them the rows begun have
columns of their own (`Matching`).  In the search the columns carry the order
they were reached in, along which `way` goes down (`Path`); the pigeonhole
principle leaves a column free (`ColumnIsFree`), so each round finds a next
one.  On the way back the column `j0` is a hole in the matching and moves down
the order, so the columns not yet visited keep their ways.  The order is not in
the code; it is what the proof adds.  `Left` counts the rounds to go and falls
with every step (`StepIsGood`), which gives `SolvedIsDone`: the number of
rounds in `Solved` is enough, and every row has a column of its own.  The gate
of the caller takes pairs away and adds none, which is `AssociationsFit`.

Only model-checked: every liveness property (the prover does not reason about
fairness and `ENABLED`), and `AssociationIsNearlyBest`.  That the potentials
bound the total from below is an argument about exact numbers; with rounding it
holds up to an error that grows with the matrix, and TLC has looked at matrices
up to 3 x 3.  That `Solved` ends is not a liveness property here: it is one of a
function, with a bound.

## 5. What is left

Worth proving next: the ordering between the steps that the liveness properties
rest on, as action properties (what an outage, a stop or a retry never loses);
an abstract specification of the identities the tracker hands out, of which
`LabelsNameSeenTracks` and `ConfirmedIsRemembered` are consequences.

Worth modelling next: the delivery of alerts over the MQTT session (an alert
raised while the client is replaced is used up, and `client_` is read by the
streaming threads while the tiling thread replaces it); the masked URIs of `GET
/config`, which `POST /config/streams` may write back; the control topic, to
which the engine subscribes once.

## 6. Not modelled

- `InferenceEngine`, `ModelLoader`, the algebra of the Kalman filter, IoU and
  appearance distances, `SpatialMapper`, `Visualizer`: floating point and
  images without control of interest.  What they decide is a choice in the
  models: which pairs pass the gates, which zone is violated.
- `LatencyLogger`, heartbeat, telemetry, `get_metrics`, the counters of the
  source: read by reports and by no decision.
- The text of messages, alerts, queries and logs; the contents of a stream's
  configuration beyond what makes a file loadable.
- The backend's database reads, its own broker connection and the sockets to
  the browser: queries and wiring without state of their own.
- The frontend, the installer and the tools: no state the engine depends on.
- `build_patch/_deps`, `build_real/_deps`, `build_verify/_deps` and the
  packages checked in with the web parts: copies of GoogleTest, nlohmann/json
  and other libraries.  They are nearly all of the repository's lines; the
  project's own C++ and backend code is some thousands of lines, and the models
  are about those.
