------------------------ MODULE PipelineManagerProofs ------------------------
(***************************************************************************)
(* Whatever the memory policy and the main thread do to each other: a      *)
(* stream of a running manager is dark for a reason, a stop in which the   *)
(* policy has no hand is clean, and every variable keeps its type.  What   *)
(* is known of each step of a source alone is taken from                   *)
(* CameraSourceProofs.                                                     *)
(***************************************************************************)
EXTENDS PipelineManager, TLAPS

SourceFacts == INSTANCE CameraSourceProofs

-----------------------------------------------------------------------------
(* What the main thread and the memory policy leave of the source.         *)

(* Only the policy lowers is_running_ behind the back of the owner, and it *)
(* marks the stream before it does; the owner is at rest or done starting  *)
(* while the manager runs, and from then on nobody starts the source.      *)
SourceInv ==
  /\ running => owner = "running"
  /\ owner = "running" /\ ~running => paused
  /\ frame = "stopping" => paused
  /\ owner \notin {"running", "joining"} => loop = "none"
  /\ owner = "idle" => pipeline = "none" /\ frame = "idle"

MainInv ==
  /\ mgr = "created" => owner = "idle"
  /\ mgr \in {"running", "stopping", "stopped"} =>
       owner \in {"running", "idle"}
  /\ mgr = "stopped" => ~running

LEMMA InitInv == Init => SourceInv /\ MainInv
BY DEF Init, SourceInv, MainInv, Source!Init

LEMMA MainThreadKeepsInv ==
  ASSUME SourceInv, MainInv,
         ManagerStarts \/ ManagerStops \/ MainThread
  PROVE  SourceInv' /\ MainInv'
<1> USE DEF SourceInv, MainInv
<1>1. CASE ManagerStarts
  <2>1. CASE Source!StartLaunches /\ mgr' = "starting"
    BY <1>1, <2>1 DEF ManagerStarts, Source!StartLaunches, Source!flags,
      Source!loopVars
  <2>2. CASE UNCHANGED source /\ mgr' = "running"
    BY <1>1, <2>2 DEF ManagerStarts, source, control, flags, loopVars
  <2> QED
    BY <1>1, <2>1, <2>2 DEF ManagerStarts
<1>2. CASE ManagerStarted \/ ManagerStops \/ ManagerStopped
  BY <1>2 DEF ManagerStarted, ManagerStops, ManagerStopped, source, control,
    flags, loopVars
<1>3. CASE ManagerStopsSource
  <2>1. CASE Source!StopBegins /\ mgr' = "closing"
    BY <1>3, <2>1 DEF ManagerStopsSource, Source!StopBegins,
      Source!loopVars, Source!stream
  <2>2. CASE ~running /\ UNCHANGED source /\ mgr' = "stopped"
    BY <1>3, <2>2 DEF ManagerStopsSource, source, control, flags, loopVars
  <2> QED
    BY <1>3, <2>1, <2>2 DEF ManagerStopsSource
<1> QED
  BY <1>1, <1>2, <1>3 DEF MainThread

(* The frame callback, which belongs to a source that is not at rest.      *)
LEMMA CallbackKeepsInv ==
  ASSUME SourceInv, MainInv, Callback \/ JoinedTwice
  PROVE  SourceInv' /\ MainInv'
<1> USE DEF SourceInv, MainInv, control, flags, loopVars, manager
<1>1. owner # "idle" /\ UNCHANGED <<owner, loop>>
  BY DEF Callback, FrameEnters, PolicyAdapts, PolicyPauses, PauseStops,
    PauseJoins, PauseCloses, PolicyResumes, PolicyRestarts, JoinedTwice
<1>2. CASE PauseStops
  BY <1>1, <1>2 DEF PauseStops
<1>3. CASE PolicyPauses
  BY <1>1, <1>3 DEF PolicyPauses, Marked
<1>4. CASE PolicyResumes
  BY <1>1, <1>4 DEF PolicyResumes
<1>5. CASE PolicyRestarts \/ JoinedTwice
  BY <1>1, <1>5 DEF PolicyRestarts, JoinedTwice
<1>6. CASE FrameEnters \/ PolicyAdapts \/ PauseJoins \/ PauseCloses
  BY <1>1, <1>6 DEF FrameEnters, PolicyAdapts, PauseJoins, PauseCloses
<1> QED
  BY <1>2, <1>3, <1>4, <1>5, <1>6 DEF Callback

(* start and stop of the source, once the main thread has begun them.      *)
LEMMA OwnerKeepsInv ==
  ASSUME SourceInv, MainInv, SourceOwner
  PROVE  SourceInv' /\ MainInv'
<1> USE DEF SourceInv, MainInv, manager, Source!flags, Source!loopVars,
            Source!TornDown
<1>1. UNCHANGED <<mgr, paused>> /\ owner \notin {"running", "idle"}
  BY DEF SourceOwner, Source!Owner, Source!StartSucceeds, Source!StartFails,
    Source!StartAbandons, Source!StartReturnsFalse, Source!StopJoins,
    Source!StopReturns
<1>2. mgr \notin {"created", "running", "stopping", "stopped"}
  BY <1>1
<1>3. CASE Source!StartSucceeds
  BY <1>1, <1>2, <1>3 DEF Source!StartSucceeds
<1>4. CASE Source!StartFails
  BY <1>1, <1>2, <1>4 DEF Source!StartFails
<1>5. CASE Source!StartAbandons
  BY <1>1, <1>2, <1>5 DEF Source!StartAbandons
<1>6. CASE Source!StartReturnsFalse
  BY <1>1, <1>2, <1>6 DEF Source!StartReturnsFalse
<1>7. CASE Source!StopJoins
  BY <1>1, <1>2, <1>7 DEF Source!StopJoins, Source!LoopJoined
<1>8. CASE Source!StopReturns
  BY <1>1, <1>2, <1>8 DEF Source!StopReturns
<1> QED
  BY <1>3, <1>4, <1>5, <1>6, <1>7, <1>8 DEF SourceOwner, Source!Owner

(* The loop and the graph, which are not there when the source rests.      *)
LEMMA SourceKeepsInv ==
  ASSUME SourceInv, MainInv,
         SourceLoop \/ SourceFrame \/ SourceSurroundings
  PROVE  SourceInv' /\ MainInv'
<1>1. UNCHANGED <<owner, running, mgr, paused>>
  BY DEF SourceLoop, SourceFrame, SourceSurroundings, manager, Source!Loop,
    Source!LoopTests, Source!PumpFindsError, Source!PumpReportsError,
    Source!PumpIsDone, Source!LoopChecks, Source!LoopDeclaresStale,
    Source!LoopBacksOff, Source!LoopIsContent, Source!BackoffEnds,
    Source!BackoffIsCut, Source!LoopRelaunches, Source!LoopReconnected,
    Source!LoopReconnectFailed, Source!LoopNaps, Source!FrameArrives,
    Source!FrameReadsState, Source!FrameResumes, Source!CameraFails,
    Source!CameraReturns, Source!PipelineBreaks, Source!PendingGoesLive,
    Source!Silence, Source!control
<1>2. CASE SourceLoop
  <2>1. loop # "none" /\ UNCHANGED frame
    BY <1>2 DEF SourceLoop, Source!Loop, Source!LoopTests,
      Source!PumpFindsError, Source!PumpReportsError, Source!PumpIsDone,
      Source!LoopChecks, Source!LoopDeclaresStale, Source!LoopBacksOff,
      Source!LoopIsContent, Source!BackoffEnds, Source!BackoffIsCut,
      Source!LoopRelaunches, Source!LoopReconnected,
      Source!LoopReconnectFailed, Source!LoopNaps, Source!stream
  <2>2. owner \in {"running", "joining"}
    BY <2>1 DEF SourceInv
  <2> QED
    BY <1>1, <2>1, <2>2 DEF SourceInv, MainInv
<1>3. CASE SourceFrame
  <2>1. UNCHANGED <<loop, pipeline>> /\ frame' # "stopping"
    BY <1>3 DEF SourceFrame, Source!FrameArrives, Source!FrameReadsState,
      Source!FrameResumes, Source!loopVars
  <2>2. owner # "idle"
    BY <1>3 DEF SourceFrame, Source!FrameArrives, Source!Delivering,
      Source!FrameReadsState, Source!FrameResumes, SourceInv
  <2> QED
    BY <1>1, <2>1, <2>2 DEF SourceInv, MainInv
<1>4. CASE SourceSurroundings
  <2>1. UNCHANGED <<loop, frame>>
    BY <1>4 DEF SourceSurroundings, Source!CameraFails,
      Source!CameraReturns, Source!PipelineBreaks, Source!PendingGoesLive,
      Source!Silence, Source!loopVars, Source!stream
  <2>2. pipeline = "none" => pipeline' = "none"
    BY <1>4 DEF SourceSurroundings, Source!CameraFails,
      Source!CameraReturns, Source!PipelineBreaks, Source!PendingGoesLive,
      Source!Silence, Source!stream
  <2> QED
    BY <1>1, <2>1, <2>2 DEF SourceInv, MainInv
<1> QED
  BY <1>2, <1>3, <1>4

LEMMA NextInv ==
  SourceInv /\ MainInv /\ [Next]_vars => SourceInv' /\ MainInv'
<1> SUFFICES ASSUME SourceInv, MainInv, [Next]_vars
             PROVE  SourceInv' /\ MainInv'
  OBVIOUS
<1>1. CASE MemoryChanges \/ UNCHANGED vars
  BY <1>1 DEF MemoryChanges, vars, source, manager, control, flags,
    loopVars, SourceInv, MainInv
<1> QED
  BY <1>1, MainThreadKeepsInv, CallbackKeepsInv, OwnerKeepsInv,
    SourceKeepsInv DEF Next

(* A stream of a running manager that is not running was denied, or is     *)
(* marked as paused, or its first start failed: the mark is set before the *)
(* policy stops the source (enforceRuntimeDegradationPolicy).              *)
THEOREM DarkStreamsHaveAReason == Spec => []DarkForAReason
<1>1. SourceInv /\ MainInv => DarkForAReason
  BY DEF SourceInv, MainInv, DarkForAReason
<1> QED
  BY <1>1, InitInv, NextInv, PTL DEF Spec

(* PipelineManager::stop, with no stream paused, leaves no thread, no      *)
(* graph and no callback for the destructor to meet.                       *)
THEOREM StopsAreClean == Spec => []StopIsClean
<1>1. SourceInv /\ MainInv => StopIsClean
  BY DEF SourceInv, MainInv, StopIsClean
<1> QED
  BY <1>1, InitInv, NextInv, PTL DEF Spec

-----------------------------------------------------------------------------
(* The types.                                                              *)

(* The policy keeps a quality within its limits.                           *)
LEMMA AdaptedKeepsLimits ==
  ASSUME NEW q \in Qualities, NEW m
  PROVE  Adapted(q, m) \in Qualities
<1> USE QualityAssumption DEF Qualities
<1>1. /\ Longer(q.interval)
           \in {BaseInterval} \cup BaseInterval .. LongestInterval
      /\ Shorter(q.interval)
           \in {BaseInterval} \cup BaseInterval .. LongestInterval
  BY DEF Longer, Shorter
<1>2. q.scale \in LowestScale .. FullScale
  OBVIOUS
<1> QED
  BY <1>1, <1>2 DEF Adapted

(* What is proved of a source by itself holds of each step in which it is  *)
(* left to itself; the policy changes nothing of the loop, of the attempts *)
(* and of the naps.                                                        *)
SourceTypes ==
  SourceFacts!Typed /\ SourceFacts!AttemptsInv /\ naps \in Nat

LEMMA SourceStepKeepsTypes ==
  ASSUME SourceTypes, SourceFacts!Next
  PROVE  SourceTypes'
<1>1. SourceFacts!SourceAssumption
  BY ManagerAssumption DEF SourceFacts!SourceAssumption
<1>2. SourceFacts!Typed'
  BY <1>1, SourceFacts!NextTyped DEF SourceTypes
<1>3. SourceFacts!AttemptsInv'
  BY <1>1, SourceFacts!NextAttempts DEF SourceTypes
<1>4. naps' \in Nat
  BY <1>1, SourceFacts!NextNaps DEF SourceTypes
<1> QED
  BY <1>2, <1>3, <1>4 DEF SourceTypes

LEMMA InitSourceTypes == Init => SourceTypes
<1> SUFFICES ASSUME Init PROVE SourceTypes
  OBVIOUS
<1>1. SourceFacts!SourceAssumption
  BY ManagerAssumption DEF SourceFacts!SourceAssumption
<1>2. SourceFacts!Init
  BY DEF Init, Source!Init, SourceFacts!Init
<1> QED
  BY <1>1, <1>2, SourceFacts!InitTypes DEF SourceTypes

LEMMA NextSourceTypes == SourceTypes /\ [Next]_vars => SourceTypes'
<1> SUFFICES ASSUME SourceTypes, [Next]_vars PROVE SourceTypes'
  OBVIOUS
<1>1. UNCHANGED source => SourceTypes'
  BY DEF SourceTypes, source, control, flags, loopVars, SourceFacts!Typed,
    SourceFacts!AttemptsInv
<1>2. CASE ManagerStarts \/ ManagerStopsSource
  <2>1. Source!StartLaunches \/ Source!StopBegins \/ UNCHANGED source
    BY <1>2 DEF ManagerStarts, ManagerStopsSource
  <2>2. SourceFacts!Next \/ UNCHANGED source
    BY <2>1 DEF SourceFacts!Next, Source!StartLaunches, Source!StopBegins,
      SourceFacts!StartLaunches, SourceFacts!StopBegins, Source!Launched,
      SourceFacts!Launched, Source!flags, Source!loopVars, Source!stream,
      SourceFacts!flags, SourceFacts!loopVars, SourceFacts!stream
  <2> QED
    BY <1>1, <2>2, SourceStepKeepsTypes
<1>3. CASE SourceOwner
  <2>1. SourceFacts!Next
    BY <1>3 DEF SourceOwner, Source!Owner, SourceFacts!Next,
      SourceFacts!Owner,
      Source!StartSucceeds, SourceFacts!StartSucceeds, Source!LaunchSucceeds,
      SourceFacts!LaunchSucceeds, Source!Launching, SourceFacts!Launching,
      Source!AttemptReset, SourceFacts!AttemptReset, Source!StartFails,
      SourceFacts!StartFails, Source!loopVars, SourceFacts!loopVars,
      Source!LaunchFails, SourceFacts!LaunchFails, Source!StartAbandons,
      SourceFacts!StartAbandons, Source!flags, SourceFacts!flags,
      Source!TeardownBegins, SourceFacts!TeardownBegins,
      Source!StartReturnsFalse, SourceFacts!StartReturnsFalse,
      Source!TornDown, SourceFacts!TornDown, Source!Reports,
      SourceFacts!Reports, Source!StopJoins, SourceFacts!StopJoins,
      Source!LoopJoined, SourceFacts!LoopJoined, Source!StopReturns,
      SourceFacts!StopReturns
  <2> QED
    BY <2>1, SourceStepKeepsTypes
<1>4. CASE SourceLoop
  <2>1. SourceFacts!Loop
    BY <1>4 DEF SourceLoop, Source!Loop, SourceFacts!Loop,
    Source!LoopTests, SourceFacts!LoopTests, Source!control,
    SourceFacts!control, Source!flags, SourceFacts!flags, Source!stream,
    SourceFacts!stream, Source!StillRunning, SourceFacts!StillRunning,
    Source!PumpFindsError, SourceFacts!PumpFindsError,
    Source!PumpReportsError, SourceFacts!PumpReportsError,
    Source!PumpIsDone, SourceFacts!PumpIsDone, Source!LoopChecks,
    SourceFacts!LoopChecks, Source!Stale, SourceFacts!Stale,
    Source!LoopDeclaresStale, SourceFacts!LoopDeclaresStale,
    Source!LoopBacksOff, SourceFacts!LoopBacksOff, Source!Naps,
    SourceFacts!Naps, Source!Wrapped, SourceFacts!Wrapped, Source!Delay,
    SourceFacts!Delay, Source!Reconnects, SourceFacts!Reconnects,
    Source!LoopIsContent, SourceFacts!LoopIsContent, Source!BackoffEnds,
    SourceFacts!BackoffEnds, Source!TeardownBegins,
    SourceFacts!TeardownBegins, Source!BackoffIsCut,
    SourceFacts!BackoffIsCut, Source!LoopRelaunches,
    SourceFacts!LoopRelaunches, Source!Launched, SourceFacts!Launched,
    Source!TornDown, SourceFacts!TornDown, Source!Reports,
    SourceFacts!Reports, Source!LoopReconnected,
    SourceFacts!LoopReconnected, Source!LaunchSucceeds,
    SourceFacts!LaunchSucceeds, Source!Launching, SourceFacts!Launching,
    Source!AttemptReset, SourceFacts!AttemptReset,
    Source!LoopReconnectFailed, SourceFacts!LoopReconnectFailed,
    Source!LaunchFails, SourceFacts!LaunchFails, Source!LoopNaps,
    SourceFacts!LoopNaps
  <2> QED
    BY <2>1, SourceStepKeepsTypes DEF SourceFacts!Next
<1>5. CASE SourceFrame \/ SourceSurroundings
  <2>1. SourceFacts!Next
    BY <1>5 DEF SourceFrame, SourceSurroundings, SourceFacts!Next,
    Source!FrameArrives, SourceFacts!FrameArrives, Source!control,
    SourceFacts!control, Source!loopVars, SourceFacts!loopVars,
    Source!Delivering, SourceFacts!Delivering, Source!FrameReadsState,
    SourceFacts!FrameReadsState, Source!flags, SourceFacts!flags,
    Source!FrameResumes, SourceFacts!FrameResumes, Source!CameraFails,
    SourceFacts!CameraFails, Source!stream, SourceFacts!stream,
    Source!Launching, SourceFacts!Launching, Source!CameraReturns,
    SourceFacts!CameraReturns, Source!PipelineBreaks,
    SourceFacts!PipelineBreaks, Source!PendingGoesLive,
    SourceFacts!PendingGoesLive, Source!Silence, SourceFacts!Silence
  <2> QED
    BY <2>1, SourceStepKeepsTypes
<1>6. CASE Callback \/ JoinedTwice
  <2>1. /\ UNCHANGED <<owner, attempt, loop, naps, silent, cameraUp>>
        /\ running' \in {running, FALSE} /\ should' \in {should, FALSE}
        /\ message' \in {message, FALSE}
    BY <1>6, Zenon DEF Callback, FrameEnters, PolicyAdapts, PolicyPauses,
      PauseStops, PauseJoins, PauseCloses, PolicyResumes, PolicyRestarts,
      JoinedTwice, control, flags, loopVars
  <2>2. /\ pipeline' \in {pipeline, "none"}
        /\ state' \in {state, "Degraded", "Failed"}
    BY <1>6, Zenon DEF Callback, FrameEnters, PolicyAdapts, PolicyPauses,
      PauseStops, PauseJoins, PauseCloses, PolicyResumes, PolicyRestarts,
      JoinedTwice, control, flags, loopVars
  <2>3. /\ running' \in BOOLEAN /\ should' \in BOOLEAN
        /\ message' \in BOOLEAN
    BY <2>1, Zenon DEF SourceTypes, SourceFacts!Typed
  <2>4. /\ pipeline' \in SourceFacts!Pipelines
        /\ state' \in SourceFacts!StreamStates
    BY <2>2 DEF SourceTypes, SourceFacts!Typed, SourceFacts!Pipelines,
      SourceFacts!StreamStates
  <2>5. SourceFacts!Typed'
    BY <2>1, <2>3, <2>4 DEF SourceTypes, SourceFacts!Typed
  <2>6. SourceFacts!AttemptsInv' /\ naps' \in Nat
    BY <2>1 DEF SourceTypes, SourceFacts!AttemptsInv
  <2> QED
    BY <2>5, <2>6 DEF SourceTypes
<1>7. CASE \/ MemoryChanges \/ ManagerStarted \/ ManagerStops
           \/ ManagerStopped \/ UNCHANGED vars
  BY <1>1, <1>7 DEF MemoryChanges, ManagerStarted, ManagerStops,
    ManagerStopped, vars
<1> QED
  BY <1>2, <1>3, <1>4, <1>5, <1>6, <1>7 DEF Next, MainThread

QualityTyped == quality \in Qualities

ManagerTyped ==
  /\ mgr \in {"created", "starting", "running", "stopping", "closing",
             "stopped", "terminated"}
  /\ admitted \in BOOLEAN
  /\ paused \in BOOLEAN
  /\ memory \in MemoryLevels
  /\ frame \in {"idle", "arrived", "resuming", "callback", "policy",
               "stopping", "joining", "closing", "restarting", "dead"}
  /\ frame = "dead" <=> mgr = "terminated"

LEMMA InitTyped == Init => ManagerTyped /\ QualityTyped
<1>1. Best \in Qualities
  BY QualityAssumption DEF Best, Qualities
<1> QED
  BY <1>1 DEF Init, Source!Init, ManagerTyped, QualityTyped

LEMMA NextQuality == QualityTyped /\ [Next]_vars => QualityTyped'
<1> SUFFICES ASSUME QualityTyped, [Next]_vars PROVE QualityTyped'
  OBVIOUS
<1>1. quality' \in {quality, Adapted(quality, memory)}
  BY DEF Next, vars, manager, MemoryChanges, ManagerStarts, ManagerStops,
    MainThread, ManagerStarted, ManagerStopsSource, ManagerStopped,
    Callback, FrameEnters, PolicyAdapts, PolicyPauses, PauseStops,
    PauseJoins, PauseCloses, PolicyResumes, PolicyRestarts, JoinedTwice,
    SourceOwner, SourceLoop, SourceFrame, SourceSurroundings
<1> QED
  BY <1>1, AdaptedKeepsLimits DEF QualityTyped

LEMMA NextManager == ManagerTyped /\ [Next]_vars => ManagerTyped'
<1> SUFFICES ASSUME ManagerTyped, [Next]_vars PROVE ManagerTyped'
  OBVIOUS
<1>1. CASE ManagerStarts
  <2>1. UNCHANGED <<frame, paused, memory>>
    BY <1>1 DEF ManagerStarts, source, Source!StartLaunches
  <2> QED
    BY <1>1, <2>1 DEF ManagerStarts, ManagerTyped
<1>2. CASE ManagerStopsSource
  <2>1. UNCHANGED frame
    BY <1>2 DEF ManagerStopsSource, source, Source!StopBegins,
      Source!stream
  <2> QED
    BY <1>2, <2>1 DEF ManagerStopsSource, ManagerTyped
<1>3. CASE ManagerStarted \/ ManagerStops \/ ManagerStopped
  BY <1>3 DEF ManagerStarted, ManagerStops, ManagerStopped, source,
    ManagerTyped
<1>4. CASE Callback \/ JoinedTwice
  BY <1>4 DEF Callback, FrameEnters, PolicyAdapts, PolicyPauses, Marked,
    PauseStops, PauseJoins, PauseCloses, PolicyResumes, PolicyRestarts,
    JoinedTwice, manager, ManagerTyped
<1>5. CASE SourceOwner
  <2>1. UNCHANGED frame /\ UNCHANGED manager
    BY <1>5 DEF SourceOwner, Source!Owner, Source!StartSucceeds,
      Source!StartFails, Source!StartAbandons, Source!StartReturnsFalse,
      Source!StopJoins, Source!StopReturns
  <2> QED
    BY <2>1 DEF manager, ManagerTyped
<1>6. CASE SourceLoop
  <2>1. UNCHANGED frame /\ UNCHANGED manager
    BY <1>6 DEF SourceLoop, Source!Loop, Source!LoopTests,
      Source!PumpFindsError, Source!PumpReportsError, Source!PumpIsDone,
      Source!LoopChecks, Source!LoopDeclaresStale, Source!LoopBacksOff,
      Source!LoopIsContent, Source!BackoffEnds, Source!BackoffIsCut,
      Source!LoopRelaunches, Source!LoopReconnected,
      Source!LoopReconnectFailed, Source!LoopNaps, Source!stream
  <2> QED
    BY <2>1 DEF manager, ManagerTyped
<1>7. CASE SourceFrame
  BY <1>7 DEF SourceFrame, Source!FrameArrives, Source!FrameReadsState,
    Source!FrameResumes, manager, ManagerTyped
<1>8. CASE SourceSurroundings
  BY <1>8 DEF SourceSurroundings, Source!CameraFails, Source!CameraReturns,
    Source!PipelineBreaks, Source!PendingGoesLive, Source!Silence,
    Source!stream, manager, ManagerTyped
<1>9. CASE MemoryChanges \/ UNCHANGED vars
  BY <1>9 DEF MemoryChanges, vars, source, manager, ManagerTyped
<1> QED
  BY <1>1, <1>2, <1>3, <1>4, <1>5, <1>6, <1>7, <1>8, <1>9
    DEF Next, MainThread

(* Every variable of the manager and of its source keeps its type, for     *)
(* every configured interval and scale, delay and outage: no adaptation    *)
(* leaves the limits, attempts are counted per outage although the policy  *)
(* starts and stops the source too, and a process that has ended has no    *)
(* callback left.                                                          *)
THEOREM ManagerTypes == Spec => []TypeOK
<1>1. SourceTypes => Source!SourceTyped
  BY DEF SourceTypes, SourceFacts!Typed, SourceFacts!AttemptsInv,
    SourceFacts!Pipelines, SourceFacts!Launching, SourceFacts!StreamStates,
    Source!SourceTyped, Source!Pipelines, Source!Launching,
    Source!StreamStates
<1>2. SourceTypes /\ ManagerTyped /\ QualityTyped => TypeOK
  BY <1>1 DEF ManagerTyped, QualityTyped, TypeOK
<1> QED
  BY <1>2, InitTyped, InitSourceTypes, NextQuality, NextManager,
    NextSourceTypes, PTL DEF Spec
=============================================================================
