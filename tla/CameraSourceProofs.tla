-------------------------- MODULE CameraSourceProofs --------------------------
(***************************************************************************)
(* For any delays, any width of an int and outages of any length: one      *)
(* thread at a time handles the pipeline, a running source has a loop, a   *)
(* source at rest holds nothing, and the attempts are counted per outage.  *)
(***************************************************************************)
EXTENDS CameraSource, FiniteSetTheorems, TLAPS

-----------------------------------------------------------------------------
(* Who handles the pipeline.                                               *)

(* The owner starts the loop when it has a pipeline and takes it back when *)
(* the loop has ended; the loop does not end on its own.                   *)
HandlerInv ==
  /\ running <=> owner = "running"
  /\ running => loop # "none"
  /\ owner \notin {"running", "joining"} => loop = "none"
  /\ owner = "idle" => pipeline = "none" /\ ~message /\ frame = "idle"

LEMMA InitHandler == Init => HandlerInv
BY DEF Init, HandlerInv

LEMMA OwnerKeepsHandler ==
  ASSUME HandlerInv, StartLaunches \/ StopBegins \/ Owner
  PROVE  HandlerInv'
<1> USE DEF HandlerInv, flags, loopVars, stream, TornDown
<1>1. CASE StartLaunches
  BY <1>1 DEF StartLaunches
<1>2. CASE StopBegins
  BY <1>2 DEF StopBegins
<1>3. CASE StartSucceeds
  BY <1>3 DEF StartSucceeds
<1>4. CASE StartFails
  BY <1>4 DEF StartFails
<1>5. CASE StartAbandons
  BY <1>5 DEF StartAbandons
<1>6. CASE StartReturnsFalse
  BY <1>6 DEF StartReturnsFalse
<1>7. CASE StopJoins
  BY <1>7 DEF StopJoins, LoopJoined
<1>8. CASE StopReturns
  BY <1>8 DEF StopReturns
<1> QED
  BY <1>1, <1>2, <1>3, <1>4, <1>5, <1>6, <1>7, <1>8 DEF Owner

(* While there is a loop, the owner runs or waits for it to end; a loop    *)
(* that ends has seen that it is told to.                                  *)
LEMMA LoopKeepsHandler ==
  ASSUME HandlerInv, Loop
  PROVE  HandlerInv'
<1>1. loop # "none" /\ UNCHANGED control
  BY DEF Loop, LoopTests, PumpFindsError, PumpReportsError, PumpIsDone,
    LoopChecks, LoopDeclaresStale, LoopBacksOff, LoopIsContent, BackoffEnds,
    BackoffIsCut, LoopRelaunches, LoopReconnected, LoopReconnectFailed,
    LoopNaps
<1>2. loop' = "none" => ~running
  BY DEF Loop, LoopTests, StillRunning, PumpFindsError, PumpReportsError,
    PumpIsDone, LoopChecks, LoopDeclaresStale, LoopBacksOff, LoopIsContent,
    BackoffEnds, BackoffIsCut, LoopRelaunches, LoopReconnected,
    LoopReconnectFailed, LoopNaps
<1>3. owner \in {"running", "joining"}
  BY <1>1 DEF HandlerInv
<1> QED
  BY <1>1, <1>2, <1>3 DEF HandlerInv, control

(* Without a graph there is no frame, no message and nothing to break.     *)
LEMMA StreamKeepsHandler ==
  ASSUME HandlerInv,
         \/ FrameArrives \/ FrameReadsState \/ FrameResumes
         \/ FrameIsHandled \/ CameraFails \/ CameraReturns
         \/ PipelineBreaks \/ PendingGoesLive \/ Silence
  PROVE  HandlerInv'
<1> USE DEF HandlerInv, control, flags, loopVars, stream
<1>1. CASE FrameArrives
  <2>1. pipeline # "none" /\ owner # "idle"
    BY <1>1 DEF FrameArrives, Delivering
  <2>2. UNCHANGED <<owner, running, loop, pipeline, message>>
    BY <1>1 DEF FrameArrives
  <2> QED
    BY <2>1, <2>2
<1>2. CASE FrameReadsState \/ FrameResumes \/ FrameIsHandled
  BY <1>2 DEF FrameReadsState, FrameResumes, FrameIsHandled
<1>3. CASE CameraFails \/ CameraReturns \/ Silence
  BY <1>3 DEF CameraFails, CameraReturns, Silence
<1>4. CASE PipelineBreaks \/ PendingGoesLive
  <2>1. pipeline # "none" /\ owner # "idle"
    BY <1>4 DEF PipelineBreaks, PendingGoesLive
  <2>2. UNCHANGED <<owner, running, loop>>
    BY <1>4 DEF PipelineBreaks, PendingGoesLive
  <2> QED
    BY <2>1, <2>2
<1> QED
  BY <1>1, <1>2, <1>3, <1>4

LEMMA NextHandler == HandlerInv /\ [Next]_vars => HandlerInv'
<1> SUFFICES ASSUME HandlerInv, [Next]_vars PROVE HandlerInv'
  OBVIOUS
<1>1. CASE UNCHANGED vars
  BY <1>1 DEF HandlerInv, vars, control, flags, loopVars, stream
<1> QED
  BY <1>1, OwnerKeepsHandler, LoopKeepsHandler, StreamKeepsHandler DEF Next

(* start and stop handle the pipeline only while there is no loop, a       *)
(* source that runs is watched by one, and a source at rest has released   *)
(* its graph, its thread and its callbacks (CameraSource::start and stop). *)
THEOREM OneHandlerAtATime == Spec => []OneHandler
<1>1. HandlerInv => OneHandler
  BY DEF HandlerInv, OneHandler
<1> QED
  BY <1>1, InitHandler, NextHandler, PTL DEF Spec

-----------------------------------------------------------------------------
(* The half seconds of a backoff.                                          *)

(* A set of n elements has 2^n subsets, the empty one among them.          *)
LEMMA PowersOfTwo ==
  ASSUME NEW n \in Nat
  PROVE  2 ^ n \in Nat \ {0}
<1>1. IsFiniteSet(1 .. n) /\ Cardinality(1 .. n) = n
  BY FS_Interval
<1>2. /\ IsFiniteSet(SUBSET (1 .. n))
      /\ Cardinality(SUBSET (1 .. n)) = 2 ^ n
  BY <1>1, FS_SUBSET
<1>3. SUBSET (1 .. n) # {}
  OBVIOUS
<1> QED
  BY <1>2, <1>3, FS_CardinalityType, FS_EmptySet

LEMMA WrappedIsInt ==
  ASSUME NEW n \in Int
  PROVE  Wrapped(n) \in Int
<1>1. IntBits \in Nat /\ IntBits - 1 \in Nat
  BY SourceAssumption
<1>2. 2 ^ IntBits \in Nat \ {0} /\ 2 ^ (IntBits - 1) \in Nat
  BY <1>1, PowersOfTwo
<1>3. \A p \in Nat \ {0} : n % p \in Int
  OBVIOUS
<1> QED
  BY <1>2, <1>3 DEF Wrapped

(* However the shift and the products overflow, the loop sleeps a number   *)
(* of half seconds.                                                        *)
LEMMA NapsAreCounted ==
  ASSUME NEW a \in Nat
  PROVE  Naps(a) \subseteq Nat
<1>1. /\ IntBits \in Nat \ {0} /\ FirstDelay \in Nat
      /\ LongestDelay \in Nat
  BY SourceAssumption
<1>2. a % IntBits \in Nat
  BY <1>1
<1>3. 2 ^ (a % IntBits) \in Nat
  BY <1>2, PowersOfTwo
<1>4. \A m \in Nat, n \in Nat : m * n \in Int
  OBVIOUS
<1>5. Wrapped(FirstDelay * 2 ^ (a % IntBits)) \in Int
  BY <1>1, <1>3, <1>4, WrappedIsInt
<1>6. Delay(a) \in Int
  BY <1>1, <1>5 DEF Delay
<1>7. Wrapped(2 * Delay(a)) \in Int
  BY <1>6, WrappedIsInt
<1>8. \A n \in Int : (IF n < 0 THEN 0 ELSE n) \in Nat
  OBVIOUS
<1> QED
  BY <1>7, <1>8 DEF Naps

-----------------------------------------------------------------------------
(* The types.                                                              *)

(* The bound on an outage ends it: past the bound the loop only replaces   *)
(* the graph by one that comes up.                                         *)
AttemptsInv ==
  /\ attempt \in 0 .. MaxOutage + 1
  /\ attempt = MaxOutage + 1 => loop \in {"teardown", "launch"}

Typed ==
  /\ owner \in {"idle", "launching", "abandoning", "abandoned", "running",
               "joining", "closing"}
  /\ running \in BOOLEAN
  /\ should \in BOOLEAN
  /\ state \in StreamStates
  /\ loop \in {"none", "test", "pump", "error", "check", "stale", "decide",
              "backoff", "teardown", "launch", "nap"}
  /\ pipeline \in Pipelines
  /\ message \in BOOLEAN
  /\ silent \in BOOLEAN
  /\ cameraUp \in BOOLEAN

FrameTyped == frame \in {"idle", "arrived", "resuming", "callback"}

LEMMA InitTypes == Init => Typed /\ FrameTyped /\ AttemptsInv /\ naps \in Nat
<1> SUFFICES ASSUME Init
             PROVE  Typed /\ FrameTyped /\ AttemptsInv /\ naps \in Nat
  OBVIOUS
<1>1. Typed /\ FrameTyped
  BY DEF Init, Typed, FrameTyped, StreamStates, Pipelines
<1>2. attempt = 0 /\ naps = 0
  BY DEF Init
<1> QED
  BY <1>1, <1>2, SourceAssumption DEF AttemptsInv

LEMMA NextAttempts == AttemptsInv /\ [Next]_vars => AttemptsInv'
<1> SUFFICES ASSUME AttemptsInv, [Next]_vars PROVE AttemptsInv'
  OBVIOUS
<1>1. attempt \in 0 .. MaxOutage + 1 /\ MaxOutage \in Nat
  BY SourceAssumption DEF AttemptsInv
<1>2. attempt' = 0 => AttemptsInv'
  BY <1>1 DEF AttemptsInv
<1>3. attempt' = attempt /\ loop' = loop => AttemptsInv'
  BY DEF AttemptsInv
<1>4. attempt' = attempt /\ attempt <= MaxOutage => AttemptsInv'
  BY <1>1 DEF AttemptsInv
<1>5. loop \notin {"teardown", "launch"} => attempt <= MaxOutage
  BY <1>1 DEF AttemptsInv
<1>6. CASE StartLaunches \/ StopBegins \/ Owner
  BY <1>2, <1>3, <1>6 DEF StartLaunches, StopBegins, Owner, StartSucceeds,
    LaunchSucceeds, AttemptReset, StartFails, LaunchFails, StartAbandons,
    StartReturnsFalse, StopJoins, StopReturns, flags, loopVars
<1>7. CASE BackoffEnds
  <2>1. loop = "backoff" /\ loop' = "teardown" /\ attempt' = attempt + 1
    BY <1>7 DEF BackoffEnds
  <2>2. attempt + 1 \in 0 .. MaxOutage + 1
    BY <1>1, <1>5, <2>1
  <2> QED
    BY <2>1, <2>2 DEF AttemptsInv
<1>8. CASE LoopRelaunches
  <2>1. loop' = "launch" /\ attempt' = attempt
    BY <1>8 DEF LoopRelaunches
  <2> QED
    BY <2>1 DEF AttemptsInv
<1>9. CASE LoopReconnected \/ LoopReconnectFailed
  BY <1>2, <1>4, <1>9 DEF LoopReconnected, LaunchSucceeds, AttemptReset,
    LoopReconnectFailed, LaunchFails
<1>10. CASE \/ LoopTests \/ PumpFindsError \/ PumpReportsError
            \/ PumpIsDone \/ LoopChecks \/ LoopDeclaresStale
            \/ LoopBacksOff \/ LoopIsContent \/ BackoffIsCut \/ LoopNaps
  BY <1>4, <1>5, <1>10 DEF LoopTests, PumpFindsError, PumpReportsError,
    PumpIsDone, LoopChecks, LoopDeclaresStale, LoopBacksOff, LoopIsContent,
    BackoffIsCut, LoopNaps, flags
<1>11. CASE FrameArrives
  <2>1. attempt' \in {0, attempt} /\ loop' = loop
    BY <1>11 DEF FrameArrives, loopVars
  <2> QED
    BY <1>2, <1>3, <2>1
<1>12. CASE \/ FrameReadsState \/ FrameResumes \/ FrameIsHandled
            \/ CameraFails \/ CameraReturns \/ PipelineBreaks
            \/ PendingGoesLive \/ Silence \/ UNCHANGED vars
  BY <1>3, <1>12 DEF FrameReadsState, FrameResumes, FrameIsHandled,
    CameraFails, CameraReturns, PipelineBreaks, PendingGoesLive, Silence,
    vars, flags, loopVars
<1> QED
  BY <1>6, <1>7, <1>8, <1>9, <1>10, <1>11, <1>12 DEF Next, Loop

LEMMA NextNaps ==
  AttemptsInv /\ naps \in Nat /\ [Next]_vars => (naps \in Nat)'
<1> SUFFICES ASSUME AttemptsInv, naps \in Nat, [Next]_vars
             PROVE  naps' \in Nat
  OBVIOUS
<1>1. CASE LoopBacksOff
  <2>1. attempt \in Nat
    BY SourceAssumption DEF AttemptsInv
  <2> QED
    BY <1>1, <2>1, NapsAreCounted DEF LoopBacksOff
<1>2. naps' = 0 => naps' \in Nat
  OBVIOUS
<1>3. CASE BackoffEnds \/ BackoffIsCut
  BY <1>2, <1>3 DEF BackoffEnds, BackoffIsCut
<1>4. CASE StartLaunches \/ StopBegins \/ Owner
  BY <1>4 DEF StartLaunches, StopBegins, Owner, StartSucceeds, StartFails,
    StartAbandons, StartReturnsFalse, StopJoins, StopReturns, loopVars
<1>5. CASE \/ LoopTests \/ PumpFindsError \/ PumpReportsError
           \/ PumpIsDone \/ LoopChecks \/ LoopDeclaresStale
           \/ LoopIsContent \/ LoopRelaunches \/ LoopReconnected
           \/ LoopReconnectFailed \/ LoopNaps
  BY <1>5 DEF LoopTests, PumpFindsError, PumpReportsError, PumpIsDone,
    LoopChecks, LoopDeclaresStale, LoopIsContent, LoopRelaunches,
    LoopReconnected, LoopReconnectFailed, LoopNaps
<1>6. CASE \/ FrameArrives \/ FrameReadsState \/ FrameResumes
           \/ FrameIsHandled \/ CameraFails \/ CameraReturns
           \/ PipelineBreaks \/ PendingGoesLive \/ Silence
           \/ UNCHANGED vars
  BY <1>6 DEF FrameArrives, FrameReadsState, FrameResumes, FrameIsHandled,
    CameraFails, CameraReturns, PipelineBreaks, PendingGoesLive, Silence,
    vars, loopVars
<1> QED
  BY <1>1, <1>3, <1>4, <1>5, <1>6 DEF Next, Loop

LEMMA NextTyped == Typed /\ [Next]_vars => Typed'
<1> SUFFICES ASSUME Typed, [Next]_vars PROVE Typed'
  OBVIOUS
<1> USE DEF Typed, StreamStates, Pipelines, Launching, control, flags,
            loopVars, stream
<1>1. CASE StartLaunches \/ StopBegins
  BY <1>1 DEF StartLaunches, Launched, StopBegins
<1>2. CASE StartSucceeds \/ LoopReconnected
  BY <1>2 DEF StartSucceeds, LoopReconnected, LaunchSucceeds
<1>3. CASE StartFails \/ LoopReconnectFailed
  BY <1>3 DEF StartFails, LoopReconnectFailed, LaunchFails
<1>4. CASE StartAbandons \/ StopJoins \/ BackoffEnds
  BY <1>4 DEF StartAbandons, StopJoins, BackoffEnds, TeardownBegins
<1>5. CASE StartReturnsFalse \/ StopReturns
  BY <1>5 DEF StartReturnsFalse, StopReturns, Reports
<1>6. CASE LoopRelaunches
  BY <1>6 DEF LoopRelaunches, Launched, Reports
<1>7. CASE \/ LoopTests \/ PumpFindsError \/ PumpReportsError
           \/ PumpIsDone \/ LoopChecks \/ LoopDeclaresStale
           \/ LoopBacksOff \/ LoopIsContent \/ BackoffIsCut \/ LoopNaps
  <2>1. /\ UNCHANGED <<control, pipeline, silent, cameraUp>>
        /\ message' \in {message, FALSE}
    BY <1>7, Zenon DEF LoopTests, PumpFindsError, PumpReportsError,
      PumpIsDone, LoopChecks, LoopDeclaresStale, LoopBacksOff, LoopIsContent,
      BackoffIsCut, LoopNaps
  <2>2. /\ should' \in {should, TRUE}
        /\ state' \in {state, "Reconnecting", "Degraded"}
    BY <1>7, Zenon DEF LoopTests, PumpFindsError, PumpReportsError,
      PumpIsDone, LoopChecks, LoopDeclaresStale, LoopBacksOff, LoopIsContent,
      BackoffIsCut, LoopNaps
  <2>3. loop' \in {"none", "test", "pump", "error", "check", "stale",
                   "decide", "backoff", "nap"}
    BY <1>7 DEF LoopTests, PumpFindsError, PumpReportsError,
      PumpIsDone, LoopChecks, LoopDeclaresStale, LoopBacksOff, LoopIsContent,
      BackoffIsCut, LoopNaps
  <2>4. message' \in BOOLEAN /\ should' \in BOOLEAN
    BY <2>1, <2>2, Zenon
  <2>5. state' \in StreamStates
    BY <2>2
  <2> QED
    BY <2>1, <2>3, <2>4, <2>5
<1>8. CASE \/ FrameArrives \/ FrameReadsState \/ FrameResumes
           \/ FrameIsHandled
  BY <1>8 DEF FrameArrives, FrameReadsState, FrameResumes, FrameIsHandled
<1>9. CASE \/ CameraFails \/ CameraReturns \/ PipelineBreaks
           \/ PendingGoesLive \/ Silence
  <2>1. UNCHANGED <<control, flags, loop>>
    BY <1>9 DEF CameraFails, CameraReturns, PipelineBreaks, PendingGoesLive,
      Silence
  <2>2. /\ pipeline' \in {pipeline, "broken", "live"}
        /\ message' \in {message, TRUE}
    BY <1>9, Zenon DEF CameraFails, CameraReturns, PipelineBreaks,
      PendingGoesLive, Silence
  <2>3. silent' \in {silent, TRUE} /\ cameraUp' \in {cameraUp, TRUE, FALSE}
    BY <1>9, Zenon DEF CameraFails, CameraReturns, PipelineBreaks,
      PendingGoesLive, Silence
  <2>4. message' \in BOOLEAN /\ silent' \in BOOLEAN /\ cameraUp' \in BOOLEAN
    BY <2>2, <2>3, Zenon
  <2>5. pipeline' \in Pipelines
    BY <2>2
  <2> QED
    BY <2>1, <2>4, <2>5
<1>10. CASE UNCHANGED vars
  BY <1>10 DEF vars
<1> QED
  BY <1>1, <1>2, <1>3, <1>4, <1>5, <1>6, <1>7, <1>8, <1>9, <1>10
    DEF Next, Owner, Loop

LEMMA NextFrameTyped == FrameTyped /\ [Next]_vars => FrameTyped'
<1> SUFFICES ASSUME FrameTyped, [Next]_vars PROVE FrameTyped'
  OBVIOUS
<1> USE DEF FrameTyped, stream
<1>1. CASE StartLaunches \/ StopBegins \/ Owner
  BY <1>1 DEF StartLaunches, StopBegins, Owner, StartSucceeds, StartFails,
    StartAbandons, StartReturnsFalse, StopJoins, StopReturns
<1>2. CASE Loop
  BY <1>2 DEF Loop, LoopTests, PumpFindsError, PumpReportsError, PumpIsDone,
    LoopChecks, LoopDeclaresStale, LoopBacksOff, LoopIsContent, BackoffEnds,
    BackoffIsCut, LoopRelaunches, LoopReconnected, LoopReconnectFailed,
    LoopNaps
<1>3. CASE \/ FrameArrives \/ FrameReadsState \/ FrameResumes
           \/ FrameIsHandled
  BY <1>3 DEF FrameArrives, FrameReadsState, FrameResumes, FrameIsHandled
<1>4. CASE \/ CameraFails \/ CameraReturns \/ PipelineBreaks
           \/ PendingGoesLive \/ Silence \/ UNCHANGED vars
  BY <1>4 DEF CameraFails, CameraReturns, PipelineBreaks, PendingGoesLive,
    Silence, vars
<1> QED
  BY <1>1, <1>2, <1>3, <1>4 DEF Next

(* Every variable keeps its type: attempts are counted per outage and      *)
(* start again with a launch that succeeds or a frame, and the loop sleeps *)
(* a number of half seconds even where the delay has overflowed.           *)
THEOREM SourceTypes == Spec => []TypeOK
<1>1. Typed /\ FrameTyped /\ AttemptsInv /\ naps \in Nat => TypeOK
  BY DEF Typed, FrameTyped, AttemptsInv, SourceTyped, TypeOK
<1> QED
  BY <1>1, InitTypes, NextTyped, NextFrameTyped, NextAttempts, NextNaps, PTL
    DEF Spec
=============================================================================
