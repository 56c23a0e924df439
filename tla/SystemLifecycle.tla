--------------------------- MODULE SystemLifecycle ---------------------------
(***************************************************************************)
(* The engine process from start to exit and back (src/main.cpp,           *)
(* src/system_lifecycle.cpp, the destruction of PipelineManager): the main *)
(* thread joins or stops the health thread, the tiling thread, the camera  *)
(* sources and the streamer, in this order, then lets the violation logger *)
(* write what is queued.  Docker starts the process again with what        *)
(* config.json says by then.  Of the frames, one callback at a time of one *)
(* stream is followed, with the two stops of its source that it can meet:  *)
(* the main thread's, and its own when GPU memory is critical.             *)
(***************************************************************************)
EXTENDS MJPEGStreamer, ConfigStore

CONSTANT MaxQueue   (* bound: records queued in the violation logger       *)

ASSUME MaxQueueAssumption == MaxQueue \in Nat \ {0}

VARIABLES
  main,        (* where the main thread is                                 *)
  requested,   (* shutdown_requested_                                      *)
  running,     (* running_ of the pipeline manager                         *)
  health,      (* the health thread: "naps" or "gone"                      *)
  tiling,      (* the tiling thread: "works" or "gone"                     *)
  sources,     (* the camera source: "deliver", "stopping" (by the main    *)
               (* thread), "paused" (by its callback) or "stopped"         *)
  frame,       (* its frame callback: "none", "handles" or, in             *)
               (* CameraSource::stop, "pausing"                            *)
  queue,       (* records accepted by the logger and not yet settled       *)
  status,      (* how the process last ended                               *)
  loaded,      (* history: the configuration the engine runs with          *)
  left         (* history: the callback was under way when the logger went *)

threads == <<health, tiling, sources, frame>>
history == <<loaded, left>>
engine == <<main, requested, running, threads, queue, status, history>>
vars == <<engine, streamerVars, configVars>>

(* In the order in which the main thread passes them.                      *)
MainStates ==
  {"exited", "hangs", "initializes", "polls", "joins health",
   "joins tiling", "stops sources", "disconnects", "stops streamer",
   "joins listener", "destroys logger", "returns"}
Alive == main # "exited"

Init ==
  /\ main = "exited"
  /\ requested = FALSE /\ running = FALSE
  /\ health = "gone" /\ tiling = "gone"
  /\ sources = "stopped" /\ frame = "none"
  /\ queue = 0
  /\ status = "none"
  /\ loaded = Empty /\ left = FALSE
  /\ StreamerInit
  /\ ConfigInit

MainMoves(from, to) == main = from /\ main' = to

-----------------------------------------------------------------------------
(* Start: ConfigLoader::load throws on a file it cannot take; init opens   *)
(* the database, then starts the streamer; start starts the sources and    *)
(* the tiling thread, run the health thread.                               *)

(* The configuration, or the database, is not there as it should be.       *)
StartFails ==
  /\ main = "exited"
  /\ status' = "failure"
  /\ UNCHANGED <<main, requested, running, threads, queue, history,
                 streamerVars, configVars>>

Loads ==
  /\ Loadable(file)
  /\ loaded' = file
  /\ left' = FALSE
  /\ queue' = 0
  /\ status' = "none"
  /\ UNCHANGED <<requested, running, threads, configVars>>

Starts ==
  /\ MainMoves("exited", "initializes")
  /\ Loads
  /\ StreamerStarts

(* ViolationLogger::init locks a std::mutex that its thread holds; whether *)
(* it comes back is undefined (ViolationLogger follows it).                *)
InitHangs ==
  /\ MainMoves("exited", "hangs")
  /\ Loads
  /\ UNCHANGED streamerVars

StartsWork ==
  /\ MainMoves("initializes", "polls")
  /\ running' = TRUE
  /\ health' = "naps" /\ tiling' = "works" /\ sources' = "deliver"
  /\ UNCHANGED <<requested, frame, queue, status, history, streamerVars,
                 configVars>>

(* SIGTERM or SIGINT, also raised by the callback of the restart command.  *)
ShutdownIsRequested ==
  /\ Alive /\ ~requested
  /\ requested' = TRUE
  /\ UNCHANGED <<main, running, threads, queue, status, history,
                 streamerVars, configVars>>

-----------------------------------------------------------------------------
(* The other threads of the process.                                       *)

(* Mutant: the health thread waits for the state STOPPED.                  *)
HealthWaitsForTheEnd == main = "exited"

HealthNotices == requested

HealthEnds ==
  /\ health = "naps" /\ HealthNotices
  /\ health' = "gone"
  /\ UNCHANGED <<main, requested, running, tiling, sources, frame, queue,
                 status, history, streamerVars, configVars>>

(* A round of the tiling thread that has a frame to show.                  *)
TilingPublishes ==
  /\ tiling = "works"
  /\ Publish
  /\ UNCHANGED <<engine, configVars>>

TilingEnds ==
  /\ tiling = "works" /\ ~running
  /\ tiling' = "gone"
  /\ UNCHANGED <<main, requested, running, health, sources, frame, queue,
                 status, history, streamerVars, configVars>>

(* Mutant: the queue is checked after the record went in.                  *)
QueueFullTooLate == queue > MaxQueue

QueueFull == queue >= MaxQueue

(* onFrameReceived looks at running_ once.                                 *)
FrameEnters ==
  /\ frame = "none" /\ sources = "deliver" /\ running
  /\ frame' = "handles"
  /\ UNCHANGED <<main, requested, running, health, tiling, sources, queue,
                 status, history, streamerVars, configVars>>

FrameEnds ==
  /\ frame = "handles"
  /\ frame' = "none"
  /\ UNCHANGED <<main, requested, running, health, tiling, sources, queue,
                 status, history, streamerVars, configVars>>

(* GPU memory is critical: the callback stops its own source.  Both        *)
(* threads may find is_running_ still up.                                  *)
FramePauses ==
  /\ frame = "handles" /\ sources \in {"deliver", "stopping"}
  /\ frame' = "pausing"
  /\ sources' = IF sources = "deliver" THEN "paused" ELSE sources
  /\ UNCHANGED <<main, requested, running, health, tiling, queue, status,
                 history, streamerVars, configVars>>

(* The teardown in a streaming thread of the graph may be refused, or wait *)
(* for itself; a graph that is gone keeps nobody waiting.                  *)
FrameComesBack ==
  /\ frame = "pausing"
  /\ frame' = "handles"
  /\ sources' = "paused"
  /\ UNCHANGED <<main, requested, running, health, tiling, queue, status,
                 history, streamerVars, configVars>>

(* A violation in the frame: a full queue drops its oldest record.         *)
FrameLogsViolation ==
  /\ frame = "handles"
  /\ queue' = IF QueueFull THEN queue ELSE queue + 1
  /\ UNCHANGED <<main, requested, running, threads, status, history,
                 streamerVars, configVars>>

(* The writer thread stores a record, or gives it up.                      *)
WriterSettles ==
  /\ Alive /\ main # "returns" /\ queue > 0
  /\ queue' = queue - 1
  /\ UNCHANGED <<main, requested, running, threads, status, history,
                 streamerVars, configVars>>

-----------------------------------------------------------------------------
(* shutdown, and the destruction of the manager.                           *)

NoticesRequest ==
  /\ MainMoves("polls", "joins health") /\ requested
  /\ UNCHANGED <<requested, running, threads, queue, status, history,
                 streamerVars, configVars>>

JoinsHealth ==
  /\ MainMoves("joins health", "joins tiling") /\ health = "gone"
  /\ running' = FALSE
  /\ UNCHANGED <<requested, threads, queue, status, history, streamerVars,
                 configVars>>

JoinsTiling ==
  /\ MainMoves("joins tiling", "stops sources") /\ tiling = "gone"
  /\ UNCHANGED <<requested, running, threads, queue, status, history,
                 streamerVars, configVars>>

(* CameraSource::stop clears is_running_, then waits for the callback.     *)
StopBegins ==
  /\ main = "stops sources" /\ sources = "deliver"
  /\ sources' = "stopping"
  /\ UNCHANGED <<main, requested, running, health, tiling, frame, queue,
                 status, history, streamerVars, configVars>>

(* Mutant: stop does not wait for the callback.                            *)
CallbackLetGo == TRUE

CallbackAwaited == frame = "none"

StopEnds ==
  /\ MainMoves("stops sources", "disconnects")
  /\ sources = "stopping" /\ CallbackAwaited
  /\ sources' = "stopped"
  /\ UNCHANGED <<requested, running, health, tiling, frame, queue, status,
                 history, streamerVars, configVars>>

(* It returns at once for a source that is_running_ says is stopped: the   *)
(* callback that paused it may still be under way.                         *)
StopReturnsAtOnce ==
  /\ MainMoves("stops sources", "disconnects")
  /\ sources = "paused"
  /\ UNCHANGED <<requested, running, threads, queue, status, history,
                 streamerVars, configVars>>

Disconnects ==
  /\ MainMoves("disconnects", "stops streamer")
  /\ UNCHANGED <<requested, running, threads, queue, status, history,
                 streamerVars, configVars>>

StopsStreamer ==
  /\ MainMoves("stops streamer", "joins listener")
  /\ StopServing
  /\ UNCHANGED <<requested, running, threads, queue, status, history,
                 configVars>>

(* The streamer is the first member to go.  Its condition variable may     *)
(* have a sleeper: whether its destruction then returns is undefined.      *)
DestroysStreamer ==
  /\ MainMoves("joins listener", "destroys logger") /\ listener = "gone"
  /\ DestroyStreamer
  /\ UNCHANGED <<requested, running, threads, queue, status, history,
                 configVars>>

(* Mutant: the writer thread is ended with its queue.                      *)
DrainedOrNot == TRUE

Drained == queue = 0

DestroysLogger ==
  /\ MainMoves("destroys logger", "returns") /\ Drained
  /\ left' = (frame # "none")
  /\ UNCHANGED <<requested, running, threads, queue, status, loaded,
                 streamerVars, configVars>>

Ends(how) ==
  /\ main' = "exited"
  /\ status' = how
  /\ requested' = FALSE /\ running' = FALSE
  /\ health' = "gone" /\ tiling' = "gone"
  /\ sources' = "stopped" /\ frame' = "none"
  /\ StreamerVanishes
  /\ UNCHANGED <<history, configVars>>

(* main returns EXIT_SUCCESS; the shutdown of the static object returns at *)
(* once, the state being STOPPED.                                          *)
Returns == main = "returns" /\ Ends("success") /\ UNCHANGED queue

(* The main thread and the callback are in the stop of the same source.    *)
BothInStop == sources = "stopping" /\ frame = "pausing"

(* A viewer's thread or a callback that was not waited for meets members   *)
(* that are no more, or both threads join the loop of the source.          *)
Undefined ==
  \/ Dangling # {}
  \/ streamer = "destroyed" /\ frame # "none"
  \/ BothInStop

Crashes == Undefined /\ Alive /\ Ends("crashed") /\ queue' = 0

(* SIGKILL.                                                                *)
Killed == Alive /\ Ends("killed") /\ queue' = 0

StopsSources == StopBegins \/ StopEnds \/ StopReturnsAtOnce

Main ==
  \/ Starts \/ InitHangs \/ StartsWork \/ NoticesRequest \/ JoinsHealth
  \/ JoinsTiling \/ StopsSources \/ Disconnects \/ StopsStreamer
  \/ DestroysStreamer \/ DestroysLogger \/ Returns

Frame ==
  \/ FrameEnters \/ FrameEnds \/ FramePauses \/ FrameComesBack
  \/ FrameLogsViolation

StreamerThread(A) == A /\ UNCHANGED <<engine, configVars>>
ConfigStep(A) == A /\ UNCHANGED <<engine, streamerVars>>

Listener == StreamerThread(ListenerTests \/ ListenerEnters)
SomeViewerConnects == StreamerThread(ViewerConnects)
SomeClient ==
  StreamerThread(\E c \in Viewers : Client(c) \/ DanglingLeaves(c))

Next ==
  \/ Main \/ StartFails \/ ShutdownIsRequested
  \/ HealthEnds \/ TilingPublishes \/ TilingEnds
  \/ Frame \/ WriterSettles
  \/ Crashes \/ Killed
  \/ Listener \/ SomeViewerConnects \/ SomeClient
  \/ ConfigStep(Backend) \/ ConfigStep(BackendRestarts)
  \/ ConfigStep(EditedByHand)

-----------------------------------------------------------------------------
Sleeper == \E c \in Viewers : clients[c] = "sleeps" /\ ~serving

(* Every thread gets its turn, docker starts the process again, and the    *)
(* database can be opened.  A frame is handled in finite time, unless it   *)
(* stops its own source, which need not come back.  The streamer is        *)
(* destroyed for certain only without a sleeper; nobody has to be killed,  *)
(* to log, to publish or to send in time.                                  *)
Fairness ==
  /\ WF_vars(Starts) /\ WF_vars(StartsWork) /\ WF_vars(NoticesRequest)
  /\ WF_vars(JoinsHealth) /\ WF_vars(JoinsTiling) /\ WF_vars(StopsSources)
  /\ WF_vars(Disconnects) /\ WF_vars(StopsStreamer)
  /\ WF_vars(DestroysStreamer /\ ~Sleeper)
  /\ WF_vars(DestroysLogger) /\ WF_vars(Returns)
  /\ WF_vars(HealthEnds) /\ WF_vars(TilingEnds) /\ WF_vars(WriterSettles)
  /\ WF_vars(FrameEnds)
  /\ WF_vars(Listener)

Spec == Init /\ [][Next]_vars
FairSpec == Spec /\ Fairness

-----------------------------------------------------------------------------
(* Every variable has its type.                                            *)
TypeOK ==
  /\ main \in MainStates
  /\ requested \in BOOLEAN /\ running \in BOOLEAN
  /\ health \in {"naps", "gone"} /\ tiling \in {"works", "gone"}
  /\ sources \in {"deliver", "stopping", "paused", "stopped"}
  /\ frame \in {"none", "handles", "pausing"}
  /\ queue \in 0 .. MaxQueue
  /\ status \in {"none", "success", "failure", "crashed", "killed"}
  /\ loaded \in Configurations /\ left \in BOOLEAN
  /\ streamer \in {"none", "live", "destroyed"}
  /\ serving \in BOOLEAN
  /\ listener \in {"tests", "enters", "accepts", "gone"}
  /\ clients \in [Viewers -> ClientStates]
  /\ fresh \subseteq Viewers
  /\ file \in Configurations \cup {Torn}
  /\ cache \in Configurations
  /\ writing = NoWrite \/ writing \in Writes
  /\ overlapped \in BOOLEAN

(* When the first member of the manager is destroyed, the threads that use *)
(* members have ended, the detached ones of viewers excepted; and no frame *)
(* is handled any more, unless the callback has paused its own source,     *)
(* which CameraSource::stop then does not wait for (the order of stop and  *)
(* of the members of PipelineManager; camera_source.cpp:199).              *)
WorkersEndFirst ==
  streamer = "destroyed" =>
    /\ health = "gone" /\ tiling = "gone" /\ listener = "gone" /\ ~running
    /\ frame = "none" \/ sources = "paused"

(* A viewer that sleeps has the latest frame, as long as the streamer runs:*)
(* no notification is lost between its look and its sleep (frame_mutex_).  *)
SleepersMissNoFrame ==
  \A c \in Viewers : clients[c] = "sleeps" /\ serving => c \notin fresh

(* A process that says it exited gracefully has no record left in its      *)
(* queue: the logger is destroyed after whatever could log, and drains.    *)
(* It promises nothing where a callback that paused its source was under   *)
(* way when the logger was destroyed.                                      *)
CleanExitDrains == status = "success" /\ ~left => queue = 0

(* After a request the engine starts again, with what config.json says by  *)
(* then, and works; provided that viewers come, and unless the file cannot *)
(* be loaded, init hangs, the process is killed again as it starts, a      *)
(* viewer's thread slept through the end of the streamer, or the main      *)
(* thread and a callback that pauses are in the stop of one source.        *)
RestartTakesEffect ==
  /\ requested ~> \/ main = "initializes" /\ loaded = file
                  \/ main = "hangs" \/ ~Loadable(file)
                  \/ Sleeper \/ BothInStop
  /\ main = "initializes" ~> main = "polls" \/ status = "killed"

(* The contract: after a restart command an engine that works exits        *)
(* cleanly, the launcher starts it again; a callback that pauses its own   *)
(* source while the main thread stops it is left out here.                 *)
RestartCompletes ==
  main = "polls" /\ requested ~>
    main = "exited" \/ BothInStop
=============================================================================
