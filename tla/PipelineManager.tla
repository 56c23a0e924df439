--------------------------- MODULE PipelineManager ---------------------------
(***************************************************************************)
(* PipelineManager (src/pipeline/pipeline_manager.{hpp,cpp}) and one of    *)
(* its streams: the main thread starts and stops the source, and the       *)
(* streaming thread, in the frame callback, adapts the quality to the free *)
(* GPU memory, stops its own source when memory is critical and starts it  *)
(* again when memory is ample.  So CameraSource, whose owner is the main   *)
(* thread, has a second caller of start and stop.                          *)
(*                                                                         *)
(* frame takes the values of CameraSource up to "callback", and then:      *)
(* "policy" (in enforceRuntimeDegradationPolicy), "stopping", "joining"    *)
(* and "closing" (in CameraSource::stop), "restarting" (in                 *)
(* CameraSource::start).  Inference, tracking and alerts come after the    *)
(* policy and change nothing it reads.                                     *)
(***************************************************************************)
EXTENDS Quality

CONSTANTS
  IntBits, FirstDelay, LongestDelay, MaxOutage,   (* as in CameraSource    *)
  SelfJoin    (* what a state change to NULL, asked for in a streaming     *)
              (* thread of the graph, may do: "hang" or be "refused"       *)

ASSUME ManagerAssumption ==
  /\ SelfJoin \subseteq {"hang", "refused"}
  /\ IntBits \in Nat \ {0}
  /\ FirstDelay \in Nat \ {0}
  /\ LongestDelay \in Nat /\ LongestDelay >= FirstDelay
  /\ MaxOutage \in Nat

VARIABLES
  owner, running, should, state, attempt, loop, naps, pipeline, message,
  frame, silent, cameraUp,     (* as in CameraSource                       *)
  mgr,         (* where the main thread is in start and stop               *)
  admitted,    (* admission control lets the stream start                  *)
  paused,      (* paused_for_vram                                          *)
  quality,     (* dynamic_inference_interval and dynamic_input_scale       *)
  memory       (* free GPU memory                                          *)

Source == INSTANCE CameraSource

control  == <<owner, running>>
flags    == <<should, state, attempt>>
loopVars == <<loop, naps>>
source   == <<control, flags, loopVars, pipeline, message, frame, silent,
              cameraUp>>
manager  == <<mgr, admitted, paused, quality, memory>>
vars     == <<source, manager>>

Init ==
  /\ Source!Init
  /\ mgr = "created" /\ admitted = FALSE /\ paused = FALSE
  /\ quality = Best
  /\ memory \in MemoryLevels

-----------------------------------------------------------------------------
(* The main thread.                                                        *)

(* What the other streams took decides the admission too.  A stream denied *)
(* is not started; nobody looks at the result of a start.                  *)
ManagerStarts ==
  /\ mgr = "created"
  /\ \/ admitted' = TRUE /\ mgr' = "starting" /\ Source!StartLaunches
     \/ admitted' = FALSE /\ mgr' = "running" /\ UNCHANGED source
  /\ UNCHANGED <<paused, quality, memory>>

ManagerStarted ==
  /\ mgr = "starting"
  /\ owner \in {"running", "idle"}
  /\ mgr' = "running"
  /\ UNCHANGED <<source, admitted, paused, quality, memory>>

(* running_ is cleared, and the tiling thread notices.                     *)
ManagerStops ==
  /\ mgr = "running"
  /\ mgr' = "stopping"
  /\ UNCHANGED <<source, admitted, paused, quality, memory>>

ManagerStopsSource ==
  /\ mgr = "stopping"
  /\ \/ running /\ mgr' = "closing" /\ Source!StopBegins
     \/ ~running /\ mgr' = "stopped" /\ UNCHANGED source
  /\ UNCHANGED <<admitted, paused, quality, memory>>

ManagerStopped ==
  /\ mgr = "closing"
  /\ owner = "idle"
  /\ mgr' = "stopped"
  /\ UNCHANGED <<source, admitted, paused, quality, memory>>

MainThread == ManagerStarted \/ ManagerStopsSource \/ ManagerStopped

-----------------------------------------------------------------------------
(* The streaming thread, in onFrameReceived.                               *)

(* pipeline_mutex_ is held by the main thread for all of start and for the *)
(* end of stop; the loop that takes it too is joined before.               *)
OwnerHoldsPipeline ==
  owner \in {"launching", "abandoning", "abandoned", "closing"}

FrameEnters ==
  /\ frame = "callback"
  /\ frame' = IF mgr \in {"starting", "running"} THEN "policy" ELSE "idle"
  /\ UNCHANGED <<control, flags, loopVars, pipeline,
                 message, silent, cameraUp, manager>>

Pauses  == memory = "critical" /\ ~paused
Resumes == memory = "ample" /\ paused

PolicyAdapts ==
  /\ frame = "policy"
  /\ ~Pauses /\ ~Resumes
  /\ quality' = Adapted(quality, memory)
  /\ frame' = "idle"
  /\ UNCHANGED <<control, flags, loopVars, pipeline,
                 message, silent, cameraUp, mgr, admitted, paused, memory>>

(* Mutant: the stream is stopped without being marked.                     *)
Unmarked == paused

Marked == TRUE

(* stop returns at once if is_running_ is down.                            *)
PolicyPauses ==
  /\ frame = "policy"
  /\ Pauses
  /\ quality' = Adapted(quality, memory)
  /\ paused' = Marked
  /\ frame' = IF running THEN "stopping" ELSE "idle"
  /\ UNCHANGED <<control, flags, loopVars, pipeline,
                 message, silent, cameraUp, mgr, admitted, memory>>

PauseStops ==
  /\ frame = "stopping"
  /\ running' = FALSE
  /\ should' = FALSE
  /\ frame' = "joining"
  /\ UNCHANGED <<owner, state, attempt, loopVars, pipeline, message,
                 silent, cameraUp, manager>>

PauseJoins ==
  /\ frame = "joining"
  /\ loop = "none"
  /\ ~OwnerHoldsPipeline
  /\ frame' = "closing"
  /\ UNCHANGED <<control, flags, loopVars, pipeline,
                 message, silent, cameraUp, manager>>

(* Both threads may be in stop: the second join of the loop thread fails,  *)
(* which ends the process, unless the first is over.                       *)
JoinedTwice ==
  /\ frame = "joining"
  /\ owner = "joining"
  /\ mgr' = "terminated" /\ frame' = "dead"
  /\ UNCHANGED <<control, flags, loopVars, pipeline, message, silent,
                 cameraUp, admitted, paused, quality, memory>>

(* The teardown waits for the thread that asks for it, or is refused; the  *)
(* graph is released then.                                                 *)
PauseCloses ==
  /\ frame = "closing"
  /\ "refused" \in SelfJoin
  /\ pipeline' = "none" /\ message' = FALSE
  /\ state' = "Failed"
  /\ frame' = "idle"
  /\ UNCHANGED <<control, should, attempt, loopVars, silent,
                 cameraUp, manager>>

(* start returns true at once if is_running_ is up.                        *)
PolicyResumes ==
  /\ frame = "policy"
  /\ Resumes
  /\ quality' = Adapted(quality, memory)
  /\ \/ running /\ paused' = FALSE /\ frame' = "idle"
     \/ ~running /\ frame' = "restarting" /\ UNCHANGED paused
  /\ UNCHANGED <<control, flags, loopVars, pipeline,
                 message, silent, cameraUp, mgr, admitted, memory>>

(* A second graph replaces the one the main thread has just launched.  If  *)
(* it plays, the second loop thread is assigned over the first, which ends *)
(* the process; if not, both are lost, and the frames that the first may   *)
(* still deliver are not followed.                                         *)
PolicyRestarts ==
  /\ frame = "restarting"
  /\ ~OwnerHoldsPipeline
  /\ \/ mgr' = "terminated" /\ frame' = "dead"
        /\ UNCHANGED <<state, pipeline, message>>
     \/ mgr' = mgr /\ frame' = "idle"
        /\ pipeline' = "none" /\ message' = FALSE
        /\ state' \in {"Degraded", "Failed"}
  /\ UNCHANGED <<control, should, attempt, loopVars, silent,
                 cameraUp, admitted, paused, quality, memory>>

Callback ==
  \/ FrameEnters \/ PolicyAdapts \/ PolicyPauses \/ PauseStops \/ PauseJoins
  \/ PauseCloses \/ PolicyResumes \/ PolicyRestarts

-----------------------------------------------------------------------------
(* The source's own threads and surroundings, while the process lives.     *)

MemoryChanges ==
  /\ memory' \in MemoryLevels \ {memory}
  /\ UNCHANGED <<source, mgr, admitted, paused, quality>>

Alive == mgr # "terminated"

SourceOwner == Alive /\ Source!Owner /\ UNCHANGED manager
SourceLoop  == Alive /\ Source!Loop /\ UNCHANGED manager

SourceFrame ==
  /\ Alive
  /\ Source!FrameArrives \/ Source!FrameReadsState \/ Source!FrameResumes
  /\ UNCHANGED manager

SourceSurroundings ==
  /\ Alive
  /\ \/ Source!CameraFails \/ Source!CameraReturns \/ Source!PipelineBreaks
     \/ Source!PendingGoesLive \/ Source!Silence
  /\ UNCHANGED manager

Next ==
  \/ MemoryChanges
  \/ ManagerStarts \/ ManagerStops \/ MainThread
  \/ Callback \/ JoinedTwice
  \/ SourceOwner \/ SourceLoop \/ SourceFrame \/ SourceSurroundings

Spec == Init /\ [][Next]_vars

(* The threads run, and a graph with a camera delivers.  A process need    *)
(* not end where it may.                                                   *)
Fairness ==
  /\ WF_vars(MainThread)
  /\ WF_vars(Callback)
  /\ WF_vars(SourceOwner)
  /\ WF_vars(SourceLoop)
  /\ WF_vars(SourceFrame)
  /\ WF_vars(Source!Silence /\ SourceSurroundings)
  /\ WF_vars(attempt > MaxOutage /\ Source!CameraReturns /\ SourceSurroundings)

FairSpec == Spec /\ Fairness
-----------------------------------------------------------------------------
(* Properties.                                                             *)

(* Every variable of the manager and of its source has its type, attempts  *)
(* are counted per outage although the policy starts and stops the source  *)
(* too, and a process that has ended has no callback left.                 *)
TypeOK ==
  /\ Source!SourceTyped
  /\ mgr \in {"created", "starting", "running", "stopping", "closing",
             "stopped", "terminated"}
  /\ admitted \in BOOLEAN
  /\ paused \in BOOLEAN
  /\ quality \in Qualities
  /\ memory \in MemoryLevels
  /\ frame \in {"idle", "arrived", "resuming", "callback", "policy",
               "stopping", "joining", "closing", "restarting", "dead"}
  /\ frame = "dead" <=> mgr = "terminated"

(* While the manager runs, a stream is dark for one of three reasons only: *)
(* it was denied, it is marked as paused for memory, or its first start    *)
(* failed.                                                                 *)
DarkForAReason ==
  mgr = "running" /\ ~running => ~admitted \/ paused \/ owner = "idle"

(* A stop in which the memory policy has no hand returns, and leaves no    *)
(* loop, no graph and no frame behind for the destructor to meet.          *)
StopIsClean ==
  mgr = "stopped" /\ ~paused =>
    loop = "none" /\ pipeline = "none" /\ frame = "idle"

StopReturns == mgr = "stopping" ~> mgr = "stopped" \/ paused

(* pipeline_manager.cpp:674, "Stream resumed.", and                        *)
(* docs/pre_deployment_report.md:45, "frequent pause/resume cycles": when  *)
(* memory is ample again, a paused stream is resumed.                      *)
PausedStreamResumes ==
  mgr = "running" /\ paused ~> ~paused \/ memory # "ample" \/ mgr # "running"
=============================================================================
