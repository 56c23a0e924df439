----------------------------- MODULE CameraSource -----------------------------
(***************************************************************************)
(* CameraSource (src/pipeline/camera_source.{hpp,cpp}): one camera's       *)
(* GStreamer pipeline, the loop thread that replaces it when the stream    *)
(* breaks or falls silent, and the owner that starts and stops the source. *)
(*                                                                         *)
(* Threads: the owner (start and stop), the reconnection loop, and the     *)
(* streaming thread of the pipeline, which delivers frames.  The camera    *)
(* goes down and comes back as it likes.  Nobody runs a GLib main loop, so *)
(* bus messages are read by the loop alone.  pipeline_mutex_ is taken by   *)
(* the loop, and by the owner only while there is no loop (OneHandler), so *)
(* nobody ever waits for it and it is not a variable.                      *)
(***************************************************************************)
EXTENDS Integers

CONSTANTS
  IntBits,      (* width of an int (32 in every build of the code)         *)
  FirstDelay,   (* seconds before the first reconnection (5)               *)
  LongestDelay, (* seconds no delay is to exceed (30)                      *)
  MaxOutage     (* bound: launches that fail in a row                      *)

ASSUME SourceAssumption ==
  /\ IntBits \in Nat \ {0}
  /\ FirstDelay \in Nat \ {0}
  /\ LongestDelay \in Nat /\ LongestDelay >= FirstDelay
  /\ MaxOutage \in Nat

VARIABLES
  owner,     (* where the owner is in start or stop                        *)
  running,   (* is_running_                                                *)
  should,    (* should_reconnect_                                          *)
  state,     (* stream_state_                                              *)
  attempt,   (* reconnect_attempt_                                         *)
  loop,      (* where the reconnection thread is, "none" if there is none  *)
  naps,      (* half seconds the loop sleeps before it reconnects          *)
  pipeline,  (* pipeline_: what the graph is doing                         *)
  message,   (* an error or end-of-stream message waits on the bus         *)
  frame,     (* the streaming thread: idle, or inside on_new_sample        *)
  silent,    (* more than 10 s since last_frame_received_time_             *)
  cameraUp   (* the camera answers and sends frames                        *)

control  == <<owner, running>>
flags    == <<should, state, attempt>>
loopVars == <<loop, naps>>
stream   == <<pipeline, message, frame, silent>>
vars == <<control, flags, loopVars, stream, cameraUp>>

StreamStates == {"Running", "Degraded", "Reconnecting", "Failed"}

(* A launched graph is "starting" if the camera was up and "dialing" if it *)
(* was down; a launch that timed out leaves a graph that is "pending".     *)
Launching == {"starting", "dialing"}
Pipelines == Launching \cup {"none", "live", "pending", "broken", "closing"}

Init ==
  /\ owner = "idle" /\ running = FALSE /\ should = FALSE
  /\ state = "Failed" /\ attempt = 0
  /\ loop = "none" /\ naps = 0
  /\ pipeline = "none" /\ message = FALSE /\ frame = "idle"
  /\ silent = FALSE
  /\ cameraUp \in BOOLEAN

-----------------------------------------------------------------------------
(* Launching and tearing down, by the owner or by the loop.                *)

Launched == pipeline' = IF cameraUp THEN "starting" ELSE "dialing"

(* Mutant: the next outage goes on where the last one ended.               *)
AttemptKept == attempt

AttemptReset == 0

(* The graph reached PLAYING in time.                                      *)
LaunchSucceeds ==
  /\ pipeline \in Launching
  /\ cameraUp
  /\ pipeline' = "live"
  /\ state' = "Running"
  /\ should' = FALSE /\ attempt' = AttemptReset /\ silent' = FALSE

(* The graph could not be built, failed, with or without a message on its  *)
(* bus, or was still on its way after 3 s; what was built is left there.   *)
LaunchFails ==
  /\ pipeline \in Launching
  /\ pipeline = "dialing" \/ ~cameraUp
  /\ attempt <= MaxOutage
  /\ pipeline' \in {"none", "pending", "broken"}
  /\ message' \in IF pipeline' = "none" THEN {FALSE} ELSE BOOLEAN
  /\ UNCHANGED <<should, attempt, silent>>

(* The change to NULL: no frame begins any more, the one being handled is  *)
(* waited for, and the graph is released even if the change fails or is    *)
(* late, which is reported as Degraded.                                    *)
TeardownBegins == pipeline' = IF pipeline = "none" THEN "none" ELSE "closing"
TornDown == pipeline \in {"none", "closing"} /\ frame = "idle"
Reports == IF pipeline = "none" THEN {state} ELSE {state, "Degraded"}

-----------------------------------------------------------------------------
(* The owner.                                                              *)

StartLaunches ==
  /\ owner = "idle"
  /\ owner' = "launching"
  /\ Launched
  /\ UNCHANGED <<running, flags, loopVars, message, frame, silent, cameraUp>>

StartSucceeds ==
  /\ owner = "launching"
  /\ LaunchSucceeds
  /\ running' = TRUE
  /\ loop' = "test"
  /\ owner' = "running"
  /\ UNCHANGED <<naps, message, frame, cameraUp>>

(* Degraded, or Failed where nothing was built.                            *)
StartFails ==
  /\ owner = "launching"
  /\ LaunchFails
  /\ state' \in {"Degraded", "Failed"}
  /\ owner' = "abandoning"
  /\ UNCHANGED <<running, loopVars, frame, cameraUp>>

StopBegins ==
  /\ owner = "running"
  /\ running' = FALSE
  /\ should' = FALSE
  /\ owner' = "joining"
  /\ UNCHANGED <<state, attempt, loopVars, stream, cameraUp>>

(* Mutant: the pipeline is torn down without waiting for the loop.         *)
NotJoined == TRUE

LoopJoined == loop = "none"

StopJoins ==
  /\ owner = "joining"
  /\ LoopJoined
  /\ TeardownBegins
  /\ owner' = "closing"
  /\ UNCHANGED <<running, flags, loopVars, message, frame, silent, cameraUp>>

StopReturns ==
  /\ owner = "closing"
  /\ TornDown
  /\ pipeline' = "none" /\ message' = FALSE
  /\ state' = "Failed"
  /\ owner' = "idle"
  /\ UNCHANGED <<running, should, attempt, loopVars, frame, silent, cameraUp>>

StartAbandons ==
  /\ owner = "abandoning"
  /\ TeardownBegins
  /\ owner' = "abandoned"
  /\ UNCHANGED <<running, flags, loopVars, message, frame, silent, cameraUp>>

StartReturnsFalse ==
  /\ owner = "abandoned"
  /\ TornDown
  /\ pipeline' = "none" /\ message' = FALSE
  /\ state' \in Reports
  /\ owner' = "idle"
  /\ UNCHANGED <<running, should, attempt, loopVars, frame, silent, cameraUp>>

Owner ==
  \/ StartSucceeds \/ StartFails \/ StartAbandons \/ StartReturnsFalse
  \/ StopJoins \/ StopReturns

-----------------------------------------------------------------------------
(* The reconnection loop.                                                  *)

(* Mutant: the loop never ends.                                            *)
Always == TRUE

StillRunning == running

LoopTests ==
  /\ loop = "test"
  /\ loop' = IF StillRunning THEN "pump" ELSE "none"
  /\ UNCHANGED <<control, flags, naps, stream, cameraUp>>

(* handleMessage raises should_reconnect_ and then changes the state: a    *)
(* frame may come in between and take the first back.                      *)
PumpFindsError ==
  /\ loop = "pump"
  /\ message
  /\ message' = FALSE
  /\ should' = TRUE
  /\ loop' = "error"
  /\ UNCHANGED <<control, state, attempt, naps, pipeline, frame, silent,
                 cameraUp>>

PumpReportsError ==
  /\ loop = "error"
  /\ state' = "Reconnecting"
  /\ loop' = "pump"
  /\ UNCHANGED <<control, should, attempt, naps, stream, cameraUp>>

PumpIsDone ==
  /\ loop = "pump"
  /\ ~message
  /\ loop' = "check"
  /\ UNCHANGED <<control, flags, naps, stream, cameraUp>>

(* Mutant: only bus messages are noticed.                                  *)
NeverStale == FALSE

Stale == ~should /\ silent

LoopChecks ==
  /\ loop = "check"
  /\ loop' = IF Stale THEN "stale" ELSE "decide"
  /\ UNCHANGED <<control, flags, naps, stream, cameraUp>>

LoopDeclaresStale ==
  /\ loop = "stale"
  /\ should' = TRUE
  /\ state' = "Degraded"
  /\ loop' = "decide"
  /\ UNCHANGED <<control, attempt, naps, stream, cameraUp>>

(* An int that has overflowed, as two's complement reads it.               *)
Wrapped(n) ==
  LET m == n % 2 ^ IntBits
  IN  IF m < 2 ^ (IntBits - 1) THEN m ELSE m - 2 ^ IntBits

(* delay_sec: shift counts are masked to the width, then the product wraps.*)
Delay(a) ==
  LET d == Wrapped(FirstDelay * 2 ^ (a % IntBits))
  IN  IF d > LongestDelay THEN LongestDelay ELSE d

(* The half seconds slept: i < delay_sec * 2 from i = 0.  A negative delay *)
(* is undefined behaviour: doubled as it is (a build without optimisation),*)
(* or no sleep at all (gcc -O2 and -O3, which compare delay_sec with 0).   *)
Naps(a) ==
  LET n == Wrapped(2 * Delay(a))
  IN  {IF n < 0 THEN 0 ELSE n} \cup IF Delay(a) < 0 THEN {0} ELSE {}

(* Mutant: the source gives up after two failed launches.                  *)
ThreeTries == should /\ attempt < 2

Reconnects == should

LoopBacksOff ==
  /\ loop = "decide"
  /\ Reconnects
  /\ naps' \in Naps(attempt)
  /\ state' = "Reconnecting"
  /\ loop' = "backoff"
  /\ UNCHANGED <<control, should, attempt, stream, cameraUp>>

LoopIsContent ==
  /\ loop = "decide"
  /\ ~Reconnects
  /\ loop' = "nap"
  /\ UNCHANGED <<control, flags, naps, stream, cameraUp>>

(* Slept, or told to stop.  should_reconnect_ is not read again: a stream  *)
(* that came back in the meantime is torn down too.                        *)
BackoffEnds ==
  /\ loop = "backoff"
  /\ running
  /\ attempt' = attempt + 1
  /\ naps' = 0
  /\ TeardownBegins
  /\ loop' = "teardown"
  /\ UNCHANGED <<control, should, state, message, frame, silent, cameraUp>>

BackoffIsCut ==
  /\ loop = "backoff"
  /\ ~running
  /\ naps' = 0
  /\ loop' = "none"
  /\ UNCHANGED <<control, flags, stream, cameraUp>>

LoopRelaunches ==
  /\ loop = "teardown"
  /\ TornDown
  /\ Launched
  /\ message' = FALSE
  /\ state' \in Reports
  /\ loop' = "launch"
  /\ UNCHANGED <<control, should, attempt, naps, frame, silent, cameraUp>>

LoopReconnected ==
  /\ loop = "launch"
  /\ LaunchSucceeds
  /\ loop' = "nap"
  /\ UNCHANGED <<control, naps, message, frame, cameraUp>>

(* should_reconnect_ is left as it is, unless a frame cleared it.          *)
LoopReconnectFailed ==
  /\ loop = "launch"
  /\ LaunchFails
  /\ state' = "Failed"
  /\ loop' = "nap"
  /\ UNCHANGED <<control, naps, frame, cameraUp>>

LoopNaps ==
  /\ loop = "nap"
  /\ loop' = "test"
  /\ UNCHANGED <<control, flags, naps, stream, cameraUp>>

Loop ==
  \/ LoopTests \/ PumpFindsError \/ PumpReportsError \/ PumpIsDone
  \/ LoopChecks \/ LoopDeclaresStale \/ LoopBacksOff \/ LoopIsContent
  \/ BackoffEnds \/ BackoffIsCut \/ LoopRelaunches \/ LoopReconnected
  \/ LoopReconnectFailed \/ LoopNaps

-----------------------------------------------------------------------------
(* The streaming thread, in on_new_sample.                                 *)

Delivering == pipeline \in {"starting", "live"} /\ cameraUp

(* The write of 0 races with ++reconnect_attempt_ in the loop and may be   *)
(* lost there.                                                             *)
FrameArrives ==
  /\ frame = "idle"
  /\ Delivering
  /\ silent' = FALSE
  /\ should' = FALSE
  /\ attempt' \in IF loop = "backoff" THEN {0, attempt} ELSE {0}
  /\ frame' = "arrived"
  /\ UNCHANGED <<control, state, loopVars, pipeline, message, cameraUp>>

(* The state is read, and written if it was not Running.                   *)
FrameReadsState ==
  /\ frame = "arrived"
  /\ frame' = IF state = "Running" THEN "callback" ELSE "resuming"
  /\ UNCHANGED <<control, flags, loopVars, pipeline, message, silent,
                 cameraUp>>

FrameResumes ==
  /\ frame = "resuming"
  /\ state' = "Running"
  /\ frame' = "callback"
  /\ UNCHANGED <<control, should, attempt, loopVars, pipeline, message, silent,
                 cameraUp>>

(* The frame callback returns.                                             *)
FrameIsHandled ==
  /\ frame = "callback"
  /\ frame' = "idle"
  /\ UNCHANGED <<control, flags, loopVars, pipeline, message, silent,
                 cameraUp>>

-----------------------------------------------------------------------------
(* The camera, the network, GStreamer and the clock.                       *)

CameraFails ==
  /\ cameraUp
  /\ pipeline \in Launching => attempt <= MaxOutage
  /\ cameraUp' = FALSE
  /\ UNCHANGED <<control, flags, loopVars, stream>>

CameraReturns ==
  /\ ~cameraUp
  /\ cameraUp' = TRUE
  /\ UNCHANGED <<control, flags, loopVars, stream>>

(* With a message on the bus, or silently.                                 *)
PipelineBreaks ==
  /\ pipeline = "live"
  /\ ~cameraUp
  /\ pipeline' = "broken"
  /\ message' \in {message, TRUE}
  /\ UNCHANGED <<control, flags, loopVars, frame, silent, cameraUp>>

(* A launch the loop has given up comes through after all.                 *)
PendingGoesLive ==
  /\ pipeline = "pending"
  /\ cameraUp
  /\ pipeline' = "live"
  /\ UNCHANGED <<control, flags, loopVars, message, frame, silent, cameraUp>>

Silence ==
  /\ ~silent
  /\ ~Delivering
  /\ silent' = TRUE
  /\ UNCHANGED <<control, flags, loopVars, pipeline, message, frame, cameraUp>>

-----------------------------------------------------------------------------
Next ==
  \/ StartLaunches \/ StopBegins \/ Owner
  \/ Loop
  \/ FrameArrives \/ FrameReadsState \/ FrameResumes \/ FrameIsHandled
  \/ CameraFails \/ CameraReturns
  \/ PipelineBreaks \/ PendingGoesLive \/ Silence

Spec == Init /\ [][Next]_vars

(* The threads run, time passes, and a graph with a camera delivers.       *)
(* Nobody has to start or stop the source and the camera owes nothing; the *)
(* last conjunct only ends the outage at its bound.                        *)
Fairness ==
  /\ WF_vars(Owner)
  /\ WF_vars(Loop)
  /\ WF_vars(FrameArrives)
  /\ WF_vars(FrameReadsState \/ FrameResumes \/ FrameIsHandled)
  /\ WF_vars(Silence)
  /\ WF_vars(attempt > MaxOutage /\ CameraReturns)

FairSpec == Spec /\ Fairness
-----------------------------------------------------------------------------
(* Properties.                                                             *)

(* Where the streaming thread is may be refined by whoever takes the frame.*)
SourceTyped ==
  /\ owner \in {"idle", "launching", "abandoning", "abandoned", "running",
               "joining", "closing"}
  /\ running \in BOOLEAN
  /\ should \in BOOLEAN
  /\ state \in StreamStates
  /\ attempt \in 0 .. MaxOutage + 1
  /\ loop \in {"none", "test", "pump", "error", "check", "stale", "decide",
              "backoff", "teardown", "launch", "nap"}
  /\ naps \in Nat
  /\ pipeline \in Pipelines
  /\ message \in BOOLEAN
  /\ silent \in BOOLEAN
  /\ cameraUp \in BOOLEAN

(* Every variable has its type, and attempts are counted per outage.       *)
TypeOK ==
  /\ SourceTyped
  /\ frame \in {"idle", "arrived", "resuming", "callback"}

(* The owner never touches the pipeline while the loop may (so that        *)
(* pipeline_mutex_ is never contended), a running source has a loop to     *)
(* watch it, and a source at rest has released everything: no graph, no    *)
(* loop, no message, no frame inside a callback of a destroyed owner.      *)
OneHandler ==
  /\ owner \in {"launching", "abandoning", "abandoned", "closing"} =>
       loop = "none"
  /\ running <=> owner = "running"
  /\ running => loop # "none"
  /\ owner = "idle" =>
       loop = "none" /\ pipeline = "none" /\ ~message /\ frame = "idle"

(* A graph that broke is replaced, with or without a message on the bus,   *)
(* whatever late frames do to should_reconnect_ and even while the camera  *)
(* stays away.                                                             *)
EveryBreakIsReplaced ==
  pipeline = "broken" /\ running ~> pipeline # "broken" \/ ~running

(* A source whose camera is away does not report Running for ever.         *)
OutageIsReported ==
  running /\ ~cameraUp ~> state # "Running" \/ cameraUp \/ ~running

(* Once the camera is back for good, the source ends up with a live graph  *)
(* that it reports as Running and never touches again, however many        *)
(* launches failed, timed out or came through late before.                 *)
ReconnectsAfterOutage ==
  <>[](running /\ cameraUp) => <>[](pipeline = "live" /\ state = "Running")

(* stop returns from any point of the loop: backoff, launch or teardown.   *)
StopCompletes == owner = "joining" ~> owner = "idle"

(* readme.md:96, "Exponential backoff reconnection strategy to handle      *)
(* unstable camera feeds": no launch follows the last one without a pause  *)
(* of at least the first delay and at most the longest.  The shift in      *)
(* 5 * (1 << reconnect_attempt_) overflows in a long outage.               *)
BacksOff == loop = "backoff" => naps \in 2 * FirstDelay .. 2 * LongestDelay
=============================================================================
