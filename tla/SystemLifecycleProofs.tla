------------------------ MODULE SystemLifecycleProofs ------------------------
(***************************************************************************)
(* For any viewers and any queue: the threads of the engine end before the *)
(* members they use, a clean exit has drained the queue of the logger, no  *)
(* sleeping viewer has missed a frame, and an update of sections of        *)
(* config.json keeps the others.                                           *)
(***************************************************************************)
EXTENDS SystemLifecycle, TLAPS

-----------------------------------------------------------------------------
(* The order of the shutdown.                                              *)

AfterListener == {"destroys logger", "returns"}
AfterSources == AfterListener \cup
  {"disconnects", "stops streamer", "joins listener"}
AfterTiling == AfterSources \cup {"stops sources"}
AfterHealth == AfterTiling \cup {"joins tiling"}
BeforeWork == {"exited", "hangs", "initializes"}

(* What has ended by the time the main thread has come to a place.         *)
EndedBy ==
  /\ main \in BeforeWork \cup AfterHealth => health = "gone" /\ ~running
  /\ main \in BeforeWork \cup AfterTiling => tiling = "gone"
  /\ main \in BeforeWork => sources = "stopped" /\ frame = "none"
  /\ main \in AfterSources =>
       sources = "paused" \/ (sources = "stopped" /\ frame = "none")
  /\ main \in AfterListener => listener = "gone"
  /\ streamer = "destroyed" => main \in AfterListener

(* A callback that is over when the logger goes does not come again.       *)
Drains ==
  /\ main = "returns" /\ ~left => queue = 0 /\ frame = "none"
  /\ status = "success" => main = "exited" /\ (~left => queue = 0)

OrderInv == EndedBy /\ Drains

LEMMA InitOrder == Init => OrderInv
BY DEF Init, OrderInv, EndedBy, Drains, StreamerInit, AfterHealth,
       AfterTiling, AfterSources, AfterListener

(* The threads of the streamer start nothing that has ended, and leave the *)
(* engine alone.                                                           *)
LEMMA StreamerKeepsOrder ==
  ASSUME OrderInv,
         Listener \/ SomeViewerConnects \/ SomeClient
  PROVE  OrderInv'
<1>1. UNCHANGED <<main, running, health, tiling, sources, frame, queue,
                 status, left>>
  BY DEF Listener, SomeViewerConnects, SomeClient, StreamerThread, engine,
         threads, history
<1>2. UNCHANGED streamer /\ (listener = "gone" => listener' = "gone")
  BY DEF Listener, SomeViewerConnects, SomeClient, StreamerThread,
         ListenerTests, ListenerEnters, ViewerConnects, Client, ClientTests,
         ClientChecks, ClientSleeps, ClientSends, DanglingLeaves, ClientMoves
<1> QED
  BY <1>1, <1>2 DEF OrderInv, EndedBy, Drains

(* Each step of the main thread waits for what the next place requires.    *)
LEMMA MainKeepsOrder ==
  ASSUME OrderInv, Main
  PROVE  OrderInv'
<1> USE DEF OrderInv, EndedBy, Drains, MainMoves, AfterHealth, AfterTiling,
            AfterSources, AfterListener, BeforeWork, threads, history,
            streamerVars
<1>1. CASE Starts
  BY <1>1 DEF Starts, Loads, StreamerStarts
<1>12. CASE InitHangs
  BY <1>12 DEF InitHangs, Loads
<1>2. CASE StartsWork
  BY <1>2 DEF StartsWork
<1>3. CASE NoticesRequest
  BY <1>3 DEF NoticesRequest
<1>4. CASE JoinsHealth
  BY <1>4 DEF JoinsHealth
<1>5. CASE JoinsTiling
  BY <1>5 DEF JoinsTiling
<1>6. CASE StopBegins
  BY <1>6 DEF StopBegins
<1>13. CASE StopEnds
  BY <1>13 DEF StopEnds, CallbackAwaited
<1>14. CASE StopReturnsAtOnce
  BY <1>14 DEF StopReturnsAtOnce
<1>7. CASE Disconnects
  BY <1>7 DEF Disconnects
<1>8. CASE StopsStreamer
  BY <1>8 DEF StopsStreamer, StopServing
<1>9. CASE DestroysStreamer
  BY <1>9 DEF DestroysStreamer, DestroyStreamer
<1>10. CASE DestroysLogger
  BY <1>10 DEF DestroysLogger, Drained
<1>11. CASE Returns
  BY <1>11 DEF Returns, Ends, StreamerVanishes
<1> QED
  BY <1>1, <1>2, <1>3, <1>4, <1>5, <1>6, <1>7, <1>8, <1>9, <1>10, <1>11,
    <1>12, <1>13, <1>14 DEF Main, StopsSources

(* A callback under way after the stop of the sources has paused its own.  *)
LEMMA FrameKeepsOrder ==
  ASSUME OrderInv, Frame
  PROVE  OrderInv'
<1> USE DEF OrderInv, EndedBy, Drains, AfterHealth, AfterTiling,
            AfterSources, AfterListener, BeforeWork, threads, history,
            streamerVars
<1>1. CASE FrameEnters
  BY <1>1 DEF FrameEnters
<1>2. CASE FrameEnds
  BY <1>2 DEF FrameEnds
<1>3. CASE FramePauses
  BY <1>3 DEF FramePauses
<1>4. CASE FrameComesBack
  BY <1>4 DEF FrameComesBack
<1>5. CASE FrameLogsViolation
  <2>1. /\ frame = "handles"
        /\ UNCHANGED <<main, running, threads, status, left, streamerVars>>
    BY <1>5 DEF FrameLogsViolation
  <2>2. main # "exited" /\ status # "success" /\ (main = "returns" => left)
    BY <2>1
  <2> QED
    BY <2>1, <2>2
<1> QED
  BY <1>1, <1>2, <1>3, <1>4, <1>5 DEF Frame

LEMMA NextOrder == OrderInv /\ [Next]_vars => OrderInv'
<1> SUFFICES ASSUME OrderInv, [Next]_vars PROVE OrderInv'
  OBVIOUS
<1> USE DEF OrderInv, EndedBy, Drains, AfterHealth, AfterTiling,
            AfterSources, AfterListener, BeforeWork, threads, history,
            streamerVars
<1>1. CASE Main
  BY <1>1, MainKeepsOrder
<1>2. CASE StartFails
  BY <1>2 DEF StartFails
<1>3. CASE ShutdownIsRequested
  BY <1>3 DEF ShutdownIsRequested
<1>4. CASE HealthEnds
  BY <1>4 DEF HealthEnds
<1>11. CASE TilingEnds
  BY <1>11 DEF TilingEnds
<1>5. CASE TilingPublishes
  BY <1>5 DEF TilingPublishes, Publish, engine
<1>6. CASE Frame
  BY <1>6, FrameKeepsOrder
<1>7. CASE WriterSettles
  <2>1. main # "exited" /\ main # "returns"
    BY <1>7 DEF WriterSettles, Alive
  <2>2. UNCHANGED <<main, running, threads, status, left, streamerVars>>
    BY <1>7 DEF WriterSettles
  <2> QED
    BY <2>1, <2>2
<1>8. CASE Crashes \/ Killed
  BY <1>8 DEF Crashes, Killed, Ends, StreamerVanishes
<1>9. CASE Listener \/ SomeViewerConnects \/ SomeClient
  BY <1>9, StreamerKeepsOrder
<1>10. CASE UNCHANGED <<engine, streamerVars>>
  BY <1>10 DEF engine
<1> QED
  BY <1>1, <1>2, <1>3, <1>4, <1>5, <1>6, <1>7, <1>8, <1>9, <1>10, <1>11
    DEF Next, ConfigStep, vars

(* No thread of the engine but those of viewers, and no frame, is left     *)
(* when the first member of the manager is destroyed, except the callback  *)
(* that has paused its own source, which stop does not wait for (the order *)
(* of stop and of the members; camera_source.cpp:199).                     *)
THEOREM WorkersEndBeforeMembers == Spec => []WorkersEndFirst
<1>1. OrderInv => WorkersEndFirst
  BY DEF OrderInv, EndedBy, WorkersEndFirst, AfterHealth, AfterTiling,
         AfterSources, AfterListener
<1> QED
  BY <1>1, InitOrder, NextOrder, PTL DEF Spec

(* A process that returns from main has written or settled every record    *)
(* its logger accepted, unless such a callback was under way when the      *)
(* logger was destroyed.                                                   *)
THEOREM CleanExitHasDrained == Spec => []CleanExitDrains
<1>1. OrderInv => CleanExitDrains
  BY DEF OrderInv, Drains, CleanExitDrains
<1> QED
  BY <1>1, InitOrder, NextOrder, PTL DEF Spec

-----------------------------------------------------------------------------
(* The look and the sleep of a viewer's thread.                            *)

(* A thread that has found nothing new, and one that sleeps on it, are     *)
(* overtaken by no frame; a process that is not there has no viewers.      *)
ViewInv ==
  /\ clients \in [Viewers -> ClientStates]
  /\ main = "exited" => listener = "gone" /\ fresh = {}
  /\ \A c \in Viewers :
       clients[c] \in {"decides", "sleeps"} /\ serving => c \notin fresh

LEMMA InitView == Init => ViewInv
BY DEF Init, StreamerInit, ViewInv, ClientStates

LEMMA VanishingKeepsView ==
  ASSUME StreamerVanishes
  PROVE  ViewInv'
BY DEF StreamerVanishes, ViewInv, ClientStates

(* What the thread of a viewer does to the others: nothing.                *)
LEMMA ClientKeepsView ==
  ASSUME ViewInv, UNCHANGED main,
         NEW c \in Viewers, Client(c) \/ DanglingLeaves(c)
  PROVE  ViewInv'
<1> USE DEF ViewInv, ClientMoves, ClientStates
<1>1. CASE ClientTests(c)
  BY <1>1 DEF ClientTests
<1>2. CASE ClientChecks(c)
  BY <1>2 DEF ClientChecks
<1>3. CASE ClientSleeps(c)
  BY <1>3 DEF ClientSleeps
<1>4. CASE ClientSends(c)
  BY <1>4 DEF ClientSends
<1>5. CASE DanglingLeaves(c)
  BY <1>5 DEF DanglingLeaves
<1> QED
  BY <1>1, <1>2, <1>3, <1>4, <1>5 DEF Client

LEMMA ViewerKeepsView ==
  ASSUME ViewInv, UNCHANGED main, ViewerConnects
  PROVE  ViewInv'
BY DEF ViewInv, ViewerConnects, ClientStates

(* Publishing needs the mutex, which a thread between its look and its     *)
(* sleep holds, and wakes those that sleep.                                *)
LEMMA PublishKeepsView ==
  ASSUME ViewInv, UNCHANGED main, main # "exited", Publish
  PROVE  ViewInv'
<1>1. \A c \in Viewers : clients'[c] \notin {"decides", "sleeps"}
  BY DEF ViewInv, Publish, FrameLock, MutexFree, Woken
<1>2. clients' \in [Viewers -> ClientStates]
  BY DEF ViewInv, Publish, Woken, ClientStates
<1> QED
  BY <1>1, <1>2 DEF ViewInv

LEMMA StopKeepsView ==
  ASSUME ViewInv, main # "exited", main' # "exited", StopServing
  PROVE  ViewInv'
BY DEF ViewInv, StopServing, Woken, ClientStates

LEMMA MainKeepsView ==
  ASSUME ViewInv, Main
  PROVE  ViewInv'
<1> USE DEF MainMoves, streamerVars, ViewInv
<1>1. CASE Starts
  BY <1>1 DEF Starts, StreamerStarts
<1>2. CASE StopsStreamer
  BY <1>2, StopKeepsView DEF StopsStreamer
<1>3. CASE DestroysStreamer
  BY <1>3 DEF DestroysStreamer, DestroyStreamer
<1>4. CASE Returns
  BY <1>4, VanishingKeepsView DEF Returns, Ends
<1>5. CASE \/ InitHangs \/ StartsWork \/ NoticesRequest \/ JoinsHealth
           \/ JoinsTiling \/ StopsSources \/ Disconnects \/ DestroysLogger
  <2>1. main' # "exited" /\ UNCHANGED <<clients, fresh, serving>>
    BY <1>5 DEF InitHangs, StartsWork, NoticesRequest, JoinsHealth,
                JoinsTiling, StopsSources, StopBegins, StopEnds,
                StopReturnsAtOnce, Disconnects, DestroysLogger
  <2> QED
    BY <2>1
<1> QED
  BY <1>1, <1>2, <1>3, <1>4, <1>5 DEF Main

LEMMA NextView == OrderInv /\ ViewInv /\ [Next]_vars => ViewInv'
<1> SUFFICES ASSUME OrderInv, ViewInv, [Next]_vars PROVE ViewInv'
  OBVIOUS
<1>1. CASE Main
  BY <1>1, MainKeepsView
<1>2. CASE Crashes \/ Killed
  BY <1>2, VanishingKeepsView DEF Crashes, Killed, Ends
<1>3. CASE TilingPublishes
  <2>1. main # "exited" /\ UNCHANGED main
    BY <1>3 DEF TilingPublishes, OrderInv, EndedBy, BeforeWork, engine
  <2> QED
    BY <1>3, <2>1, PublishKeepsView DEF TilingPublishes
<1>4. CASE Listener
  BY <1>4 DEF Listener, StreamerThread, ListenerTests, ListenerEnters,
              ViewInv, engine
<1>5. CASE SomeViewerConnects
  BY <1>5, ViewerKeepsView DEF SomeViewerConnects, StreamerThread, engine
<1>6. CASE SomeClient
  BY <1>6, ClientKeepsView DEF SomeClient, StreamerThread, engine
<1>7. UNCHANGED <<main, streamerVars>> => ViewInv'
  BY DEF ViewInv, streamerVars
<1>8. CASE \/ StartFails \/ ShutdownIsRequested \/ HealthEnds
           \/ TilingEnds \/ Frame \/ WriterSettles
  BY <1>7, <1>8 DEF StartFails, ShutdownIsRequested, HealthEnds, TilingEnds,
    Frame, FrameEnters, FrameEnds, FramePauses, FrameComesBack,
    FrameLogsViolation, WriterSettles
<1>9. CASE UNCHANGED <<engine, streamerVars>>
  BY <1>7, <1>9 DEF engine
<1> QED
  BY <1>1, <1>2, <1>3, <1>4, <1>5, <1>6, <1>8, <1>9
    DEF Next, ConfigStep, vars

(* While the streamer runs, no viewer sleeps on a frame it has not sent    *)
(* (publish and the wait of client_handler under frame_mutex_).            *)
THEOREM NoFrameIsSleptThrough == Spec => []SleepersMissNoFrame
<1>1. ViewInv => SleepersMissNoFrame
  BY DEF ViewInv, SleepersMissNoFrame
<1> QED
  BY <1>1, InitOrder, InitView, NextOrder, NextView, PTL DEF Spec

-----------------------------------------------------------------------------
(* Who touches what.                                                       *)

(* The engine, in all its threads, only reads config.json.                 *)
EngineStep ==
  \/ Main \/ StartFails \/ ShutdownIsRequested
  \/ HealthEnds \/ TilingPublishes \/ TilingEnds
  \/ Frame \/ WriterSettles \/ Crashes \/ Killed
  \/ Listener \/ SomeViewerConnects \/ SomeClient

LEMMA EngineLeavesStore == EngineStep => UNCHANGED configVars
<1>1. Main => UNCHANGED configVars
  BY DEF Main, Starts, InitHangs, Loads, StartsWork, NoticesRequest,
    JoinsHealth, JoinsTiling, StopsSources, StopBegins, StopEnds,
    StopReturnsAtOnce, Disconnects, StopsStreamer, DestroysStreamer,
    DestroysLogger, Returns, Ends
<1>2. Frame => UNCHANGED configVars
  BY DEF Frame, FrameEnters, FrameEnds, FramePauses, FrameComesBack,
    FrameLogsViolation
<1>3. \/ StartFails \/ ShutdownIsRequested \/ HealthEnds \/ TilingPublishes
      \/ TilingEnds \/ WriterSettles \/ Crashes \/ Killed
      => UNCHANGED configVars
  BY DEF StartFails, ShutdownIsRequested, HealthEnds, TilingPublishes,
    TilingEnds, WriterSettles, Crashes, Killed, Ends
<1>4. Listener \/ SomeViewerConnects \/ SomeClient => UNCHANGED configVars
  BY DEF Listener, SomeViewerConnects, SomeClient, StreamerThread
<1> QED
  BY <1>1, <1>2, <1>3, <1>4 DEF EngineStep

StoreStep == Backend \/ BackendRestarts \/ EditedByHand

LEMMA EngineOrStore ==
  [Next]_vars => \/ EngineStep
                 \/ StoreStep /\ UNCHANGED <<engine, streamerVars>>
                 \/ UNCHANGED vars
BY DEF Next, ConfigStep, EngineStep, StoreStep

-----------------------------------------------------------------------------
(* The sections of config.json.                                            *)

ConfigTyped ==
  /\ file \in Configurations \cup {Torn}
  /\ cache \in Configurations
  /\ writing = NoWrite \/ writing \in Writes
  /\ overlapped \in BOOLEAN

(* Between its reading and its truncation, a write agrees with the file on *)
(* the sections it was not asked for, unless somebody edited the file.     *)
KeepsRead ==
  writing.phase = "read" /\ ~overlapped /\ file # Torn =>
    \A s \in Sections \ writing.sections : writing.config[s] = file[s]

StoreInv == ConfigTyped /\ KeepsRead

LEMMA InitStore == Init => StoreInv
<1> SUFFICES ASSUME Init PROVE StoreInv
  OBVIOUS
<1>1. file \in Configurations
  BY DEF Init, ConfigInit, Configurations, StreamLists, Cooldowns
<1>2. writing.phase # "read"
  BY DEF Init, ConfigInit, NoWrite
<1> QED
  BY <1>1, <1>2 DEF Init, ConfigInit, ConfigTyped, KeepsRead, StoreInv

LEMMA LoadedTyped ==
  ASSUME ConfigTyped
  PROVE  Loaded(file) \in Configurations
BY DEF ConfigTyped, Loaded

Answers == Cooldowns \cup {"not asked"}

(* A request for settings changes the sections it asks for.                *)
LEMMA SettingsTyped ==
  ASSUME NEW config \in Configurations, NEW mqtt \in BOOLEAN,
         NEW cooldown \in Answers
  PROVE  WithSettings(config, mqtt, cooldown) \in Configurations
BY DEF Configurations, WithSettings, Answers, Cooldowns

LEMMA SettingsKeepOthers ==
  ASSUME NEW config \in Configurations, NEW mqtt \in BOOLEAN,
         NEW cooldown \in Answers,
         NEW s \in Sections \ Asked(mqtt, cooldown)
  PROVE  WithSettings(config, mqtt, cooldown)[s] = config[s]
<1>1. CASE s = "mqtt"
  BY <1>1 DEF Configurations, Sections, WithSettings, Asked
<1>2. CASE s = "streams"
  BY <1>2 DEF Configurations, Sections, WithSettings, Asked
<1>3. CASE s = "alert_cooldown"
  BY <1>3 DEF Configurations, Sections, WithSettings, Asked
<1> QED
  BY <1>1, <1>2, <1>3 DEF Sections

LEMMA AskedSections ==
  ASSUME NEW mqtt \in BOOLEAN, NEW cooldown
  PROVE  Asked(mqtt, cooldown) \in SUBSET Sections
BY DEF Asked, Sections

LEMMA StreamsTyped ==
  ASSUME NEW config \in Configurations, NEW streams \in StreamLists
  PROVE  [config EXCEPT !.streams = streams] \in Configurations
BY DEF Configurations

LEMMA StreamsKeepOthers ==
  ASSUME NEW config \in Configurations, NEW streams,
         NEW s \in Sections \ {"streams"}
  PROVE  [config EXCEPT !.streams = streams][s] = config[s]
BY DEF Configurations, Sections

(* A write that starts with what it should keep.                           *)
LEMMA HasToSaveKeeps ==
  ASSUME ConfigTyped, NEW sections \in SUBSET Sections,
         NEW config \in Configurations, HasToSave(sections, config),
         cache' \in Configurations,
         file # Torn => \A s \in Sections \ sections : config[s] = file[s]
  PROVE  StoreInv'
<1>1. /\ writing' = [phase |-> "read", sections |-> sections,
                     config |-> config]
      /\ file' = file /\ overlapped' = FALSE
  BY DEF HasToSave
<1>2. writing' \in Writes
  BY <1>1 DEF Writes
<1>3. writing'.sections = sections /\ writing'.config = config
  BY <1>1
<1> QED
  BY <1>1, <1>2, <1>3 DEF StoreInv, ConfigTyped, KeepsRead

(* A write that has ended, or has truncated the file, keeps nothing.       *)
LEMMA NothingToKeep ==
  ASSUME ConfigTyped', writing'.phase # "read"
  PROVE  StoreInv'
BY DEF StoreInv, KeepsRead

LEMMA NoWriteReadsNothing == writing' = NoWrite => writing'.phase # "read"
BY DEF NoWrite

LEMMA StoreStepKeeps == StoreInv /\ StoreStep => StoreInv'
<1> SUFFICES ASSUME StoreInv, StoreStep PROVE StoreInv'
  OBVIOUS
<1>t. ConfigTyped
  BY DEF StoreInv
<1>1. ASSUME NEW mqtt \in BOOLEAN, NEW cooldown \in Answers,
             HasToSave(Asked(mqtt, cooldown),
                       WithSettings(Loaded(file), mqtt, cooldown)),
             cache' = WithSettings(Loaded(file), mqtt, cooldown)
      PROVE  StoreInv'
  <2>1. Loaded(file) \in Configurations
    BY <1>t, LoadedTyped
  <2>2. WithSettings(Loaded(file), mqtt, cooldown) \in Configurations
    BY <2>1, SettingsTyped
  <2>3. ASSUME file # Torn, NEW s \in Sections \ Asked(mqtt, cooldown)
        PROVE  WithSettings(Loaded(file), mqtt, cooldown)[s] = file[s]
    <3>1. Loaded(file) = file
      BY <2>3 DEF Loaded
    <3> QED
      BY <2>1, <3>1, SettingsKeepOthers
  <2> QED
    BY <1>1, <1>t, <2>2, <2>3, AskedSections, HasToSaveKeeps
<1>2. CASE UpdateGlobalSettings
  BY <1>1, <1>2 DEF UpdateGlobalSettings, Answers
<1>3. CASE UpdateStreams
  <2>1. PICK streams \in StreamLists :
          /\ HasToSave({"streams"}, [Loaded(file) EXCEPT !.streams = streams])
          /\ cache' = [Loaded(file) EXCEPT !.streams = streams]
    BY <1>3 DEF UpdateStreams
  <2>2. Loaded(file) \in Configurations
    BY <1>t, LoadedTyped
  <2>3. [Loaded(file) EXCEPT !.streams = streams] \in Configurations
    BY <2>2, StreamsTyped
  <2>4. ASSUME file # Torn, NEW s \in Sections \ {"streams"}
        PROVE  [Loaded(file) EXCEPT !.streams = streams][s] = file[s]
    <3>1. Loaded(file) = file
      BY <2>4 DEF Loaded
    <3> QED
      BY <2>2, <3>1, StreamsKeepOthers
  <2>5. {"streams"} \in SUBSET Sections
    BY DEF Sections
  <2> QED
    BY <1>t, <2>1, <2>3, <2>4, <2>5, HasToSaveKeeps
<1>4. CASE ReplaceConfig
  <2>1. PICK config \in Configurations : HasToSave(Sections, config)
    BY <1>4 DEF ReplaceConfig
  <2>2. cache' \in Configurations
    BY <1>4, <1>t DEF ReplaceConfig, ConfigTyped
  <2> QED
    BY <1>t, <2>1, <2>2, HasToSaveKeeps
<1>5. CASE GetConfig
  <2>1. ConfigTyped' /\ writing' = NoWrite
    BY <1>5, <1>t, LoadedTyped DEF GetConfig, ConfigTyped
  <2> QED
    BY <2>1, NothingToKeep, NoWriteReadsNothing
<1>6. CASE Truncates
  <2>1. writing \in Writes
    BY <1>6, <1>t DEF Truncates, ConfigTyped, NoWrite
  <2>2. writing' \in Writes /\ writing'.phase = "truncated"
    BY <1>6, <2>1 DEF Truncates, Writes
  <2>3. ConfigTyped'
    BY <1>6, <1>t, <2>2 DEF Truncates, ConfigTyped
  <2> QED
    BY <2>2, <2>3, NothingToKeep
<1>7. CASE WriteEnds
  <2>1. writing.config \in Configurations
    BY <1>7, <1>t DEF WriteEnds, ConfigTyped, NoWrite, Writes
  <2>2. file' \in {writing.config, file, Torn}
    BY <1>7 DEF WriteEnds
  <2>3. ConfigTyped' /\ writing' = NoWrite
    BY <1>7, <1>t, <2>1, <2>2 DEF WriteEnds, ConfigTyped
  <2> QED
    BY <2>3, NothingToKeep, NoWriteReadsNothing
<1>8. CASE WriteFails
  <2>1. file' \in {file, Torn}
    BY <1>8 DEF WriteFails
  <2>2. ConfigTyped' /\ writing' = NoWrite
    BY <1>8, <1>t, <2>1 DEF WriteFails, ConfigTyped
  <2> QED
    BY <2>2, NothingToKeep, NoWriteReadsNothing
<1>9. CASE BackendRestarts
  <2>1. Empty \in Configurations
    BY DEF Empty, Configurations, StreamLists, Cooldowns
  <2>2. ConfigTyped' /\ writing' = NoWrite
    BY <1>9, <1>t, <2>1 DEF BackendRestarts, ConfigTyped
  <2> QED
    BY <2>2, NothingToKeep, NoWriteReadsNothing
<1>10. CASE EditedByHand
  <2>1. /\ file' \in Configurations
        /\ cache' = cache /\ writing' = writing
        /\ overlapped' = (writing.phase = "read")
    BY <1>10 DEF EditedByHand
  <2>2. overlapped' \in BOOLEAN
    BY <2>1, Zenon
  <2>3. writing'.phase = "read" => overlapped'
    BY <2>1, Zenon
  <2> QED
    BY <1>t, <2>1, <2>2, <2>3 DEF StoreInv, ConfigTyped, KeepsRead
<1> QED
  BY <1>2, <1>3, <1>4, <1>5, <1>6, <1>7, <1>8, <1>9, <1>10
    DEF StoreStep, Backend

LEMMA NextStore == StoreInv /\ [Next]_vars => StoreInv'
<1>1. StoreInv /\ UNCHANGED configVars => StoreInv'
  BY DEF StoreInv, ConfigTyped, KeepsRead, configVars
<1> QED
  BY <1>1, EngineLeavesStore, EngineOrStore, StoreStepKeeps DEF vars

(* An update keeps the sections it was not asked for as they are in the    *)
(* file it replaces, unless that does not parse or was edited since the    *)
(* update read it (loadConfig at the start of every update).               *)
THEOREM UpdatesKeepSections == Spec => UpdateKeepsOtherSections
<1>1. StoreInv =>
        [writing.phase = "read" /\ writing'.phase = "truncated"
           /\ file # Torn /\ ~overlapped =>
           \A s \in Sections \ writing.sections :
             writing.config[s] = file[s]]_configVars
  BY DEF StoreInv, KeepsRead
<1> QED
  BY <1>1, InitStore, NextStore, PTL DEF Spec, UpdateKeepsOtherSections

-----------------------------------------------------------------------------
(* The types of the engine, the streamer and the store.                    *)

QueueTyped == queue \in 0 .. MaxQueue

ThreadsTyped ==
  /\ main \in MainStates
  /\ requested \in BOOLEAN /\ running \in BOOLEAN
  /\ health \in {"naps", "gone"} /\ tiling \in {"works", "gone"}
  /\ sources \in {"deliver", "stopping", "paused", "stopped"}
  /\ frame \in {"none", "handles", "pausing"}
  /\ status \in {"none", "success", "failure", "crashed", "killed"}

StreamerTyped ==
  /\ streamer \in {"none", "live", "destroyed"}
  /\ serving \in BOOLEAN
  /\ listener \in {"tests", "enters", "accepts", "gone"}
  /\ fresh \subseteq Viewers

HistoryTyped == loaded \in Configurations /\ left \in BOOLEAN

LEMMA InitTyped ==
  Init => QueueTyped /\ ThreadsTyped /\ StreamerTyped /\ HistoryTyped
<1> SUFFICES ASSUME Init
             PROVE  QueueTyped /\ ThreadsTyped /\ StreamerTyped /\ HistoryTyped
  OBVIOUS
<1>1. ThreadsTyped /\ StreamerTyped
  BY DEF Init, ThreadsTyped, StreamerTyped, StreamerInit, MainStates
<1>2. HistoryTyped
  BY DEF Init, HistoryTyped, Empty, Configurations, StreamLists, Cooldowns
<1>3. QueueTyped
  <2>1. queue = 0 /\ 0 \in 0 .. MaxQueue
    BY MaxQueueAssumption DEF Init
  <2> QED
    BY <2>1 DEF QueueTyped
<1> QED
  BY <1>1, <1>2, <1>3

(* A full queue takes no more, an empty one gives none.                    *)
LEMMA NextQueue == QueueTyped /\ [Next]_vars => QueueTyped'
<1> SUFFICES ASSUME QueueTyped, [Next]_vars PROVE QueueTyped'
  OBVIOUS
<1>1. queue \in Nat /\ queue <= MaxQueue /\ MaxQueue \in Nat
  BY MaxQueueAssumption DEF QueueTyped
<1>2. CASE FrameLogsViolation
  <2>1. queue' = IF queue >= MaxQueue THEN queue ELSE queue + 1
    BY <1>2 DEF FrameLogsViolation, QueueFull
  <2>2. queue' \in 0 .. MaxQueue
    BY <1>1, <2>1
  <2> QED
    BY <2>2 DEF QueueTyped
<1>3. CASE WriterSettles
  <2>1. queue > 0 /\ queue' = queue - 1
    BY <1>3 DEF WriterSettles
  <2>2. queue' \in 0 .. MaxQueue
    BY <1>1, <2>1
  <2> QED
    BY <2>2 DEF QueueTyped
<1>4. CASE Crashes \/ Killed \/ Starts \/ InitHangs
  <2>1. queue' = 0
    BY <1>4 DEF Crashes, Killed, Starts, InitHangs, Loads
  <2>2. 0 \in 0 .. MaxQueue
    BY <1>1
  <2> QED
    BY <2>1, <2>2 DEF QueueTyped
<1>5. UNCHANGED queue => QueueTyped'
  BY DEF QueueTyped
<1>6. CASE \/ StartsWork \/ NoticesRequest \/ JoinsHealth \/ JoinsTiling
           \/ StopsSources \/ Disconnects \/ StopsStreamer
           \/ DestroysStreamer \/ DestroysLogger \/ Returns
  BY <1>5, <1>6 DEF StartsWork, NoticesRequest, JoinsHealth, JoinsTiling,
    StopsSources, StopBegins, StopEnds, StopReturnsAtOnce, Disconnects,
    StopsStreamer, DestroysStreamer, DestroysLogger, Returns
<1>7. CASE \/ StartFails \/ ShutdownIsRequested \/ HealthEnds
           \/ TilingPublishes \/ TilingEnds
           \/ FrameEnters \/ FrameEnds \/ FramePauses \/ FrameComesBack
  BY <1>5, <1>7 DEF StartFails, ShutdownIsRequested, HealthEnds,
    TilingPublishes, TilingEnds, FrameEnters, FrameEnds, FramePauses,
    FrameComesBack, engine
<1>8. CASE Listener \/ SomeViewerConnects \/ SomeClient
  BY <1>5, <1>8 DEF Listener, SomeViewerConnects, SomeClient,
    StreamerThread, engine
<1>9. CASE UNCHANGED engine
  BY <1>5, <1>9 DEF engine
<1> QED
  BY <1>2, <1>3, <1>4, <1>6, <1>7, <1>8, <1>9, EngineOrStore
    DEF EngineStep, Main, Frame, vars

LEMMA NextThreads == ThreadsTyped /\ [Next]_vars => ThreadsTyped'
<1> SUFFICES ASSUME ThreadsTyped, [Next]_vars PROVE ThreadsTyped'
  OBVIOUS
<1> USE DEF ThreadsTyped, MainMoves, MainStates, threads
<1>1. CASE Starts \/ InitHangs \/ StartsWork \/ NoticesRequest \/ JoinsHealth
  BY <1>1 DEF Starts, InitHangs, Loads, StartsWork, NoticesRequest,
    JoinsHealth
<1>2. CASE \/ JoinsTiling \/ StopsSources \/ Disconnects \/ StopsStreamer
           \/ DestroysStreamer \/ DestroysLogger
  BY <1>2 DEF JoinsTiling, StopsSources, StopBegins, StopEnds,
    StopReturnsAtOnce, Disconnects, StopsStreamer, DestroysStreamer,
    DestroysLogger
<1>3. CASE Returns \/ Crashes \/ Killed
  BY <1>3 DEF Returns, Crashes, Killed, Ends
<1>4. CASE \/ StartFails \/ ShutdownIsRequested \/ HealthEnds
           \/ TilingEnds \/ WriterSettles
  BY <1>4 DEF StartFails, ShutdownIsRequested, HealthEnds, TilingEnds,
    WriterSettles
<1>7. CASE FramePauses \/ FrameComesBack
  BY <1>7 DEF FramePauses, FrameComesBack
<1>8. CASE FrameEnters \/ FrameEnds \/ FrameLogsViolation
  BY <1>8 DEF FrameEnters, FrameEnds, FrameLogsViolation
<1>5. CASE UNCHANGED engine
  <2>1. /\ main' = main /\ requested' = requested /\ running' = running
        /\ health' = health /\ tiling' = tiling
        /\ sources' = sources /\ frame' = frame /\ status' = status
    BY <1>5 DEF engine
  <2>2. main' \in MainStates
    BY <2>1
  <2>3. requested' \in BOOLEAN /\ running' \in BOOLEAN
    BY <2>1, Zenon
  <2>4. health' \in {"naps", "gone"} /\ tiling' \in {"works", "gone"}
    BY <2>1
  <2>5. sources' \in {"deliver", "stopping", "paused", "stopped"}
    BY <2>1
  <2>6. frame' \in {"none", "handles", "pausing"}
    BY <2>1
  <2>7. status' \in {"none", "success", "failure", "crashed", "killed"}
    BY <2>1
  <2> QED
    BY <2>2, <2>3, <2>4, <2>5, <2>6, <2>7
<1>6. CASE \/ TilingPublishes \/ Listener \/ SomeViewerConnects
           \/ SomeClient
  BY <1>5, <1>6 DEF TilingPublishes, Listener, SomeViewerConnects,
    SomeClient, StreamerThread
<1> QED
  BY <1>1, <1>2, <1>3, <1>4, <1>5, <1>6, <1>7, <1>8, EngineOrStore
    DEF EngineStep, Main, Frame, vars

LEMMA NextStreamer == StreamerTyped /\ [Next]_vars => StreamerTyped'
<1> SUFFICES ASSUME StreamerTyped, [Next]_vars PROVE StreamerTyped'
  OBVIOUS
<1> USE DEF StreamerTyped
<1>1. CASE Starts
  BY <1>1 DEF Starts, StreamerStarts
<1>2. CASE StopsStreamer
  BY <1>2 DEF StopsStreamer, StopServing
<1>3. CASE DestroysStreamer
  BY <1>3 DEF DestroysStreamer, DestroyStreamer
<1>4. CASE Returns \/ Crashes \/ Killed
  BY <1>4 DEF Returns, Crashes, Killed, Ends, StreamerVanishes
<1>5. CASE TilingPublishes
  BY <1>5 DEF TilingPublishes, Publish
<1>6. CASE Listener \/ SomeViewerConnects
  BY <1>6 DEF Listener, SomeViewerConnects, StreamerThread, ListenerTests,
    ListenerEnters, ViewerConnects
<1>7. CASE SomeClient
  BY <1>7 DEF SomeClient, StreamerThread, Client, ClientTests, ClientChecks,
    ClientSleeps, ClientSends, DanglingLeaves, ClientMoves
<1>8. CASE UNCHANGED streamerVars
  BY <1>8 DEF streamerVars
<1>9. CASE \/ InitHangs \/ StartsWork \/ NoticesRequest \/ JoinsHealth
           \/ JoinsTiling \/ StopsSources \/ Disconnects \/ DestroysLogger
  BY <1>8, <1>9 DEF InitHangs, StartsWork, NoticesRequest, JoinsHealth,
    JoinsTiling, StopsSources, StopBegins, StopEnds, StopReturnsAtOnce,
    Disconnects, DestroysLogger
<1>10. CASE \/ StartFails \/ ShutdownIsRequested \/ HealthEnds
            \/ TilingEnds \/ Frame \/ WriterSettles
  BY <1>8, <1>10 DEF StartFails, ShutdownIsRequested, HealthEnds,
    TilingEnds, Frame, FrameEnters, FrameEnds, FramePauses, FrameComesBack,
    FrameLogsViolation, WriterSettles
<1> QED
  BY <1>1, <1>2, <1>3, <1>4, <1>5, <1>6, <1>7, <1>8, <1>9, <1>10,
    EngineOrStore DEF EngineStep, Main, vars

(* What ConfigLoader takes is no torn file.                                *)
LEMMA LoadableTyped ==
  ASSUME file \in Configurations \cup {Torn}, Loadable(file)
  PROVE  file \in Configurations
BY DEF Loadable, Torn, Sections

LEMMA NextHistory == StoreInv /\ HistoryTyped /\ [Next]_vars => HistoryTyped'
<1> SUFFICES ASSUME StoreInv, HistoryTyped, [Next]_vars PROVE HistoryTyped'
  OBVIOUS
<1>1. CASE Starts \/ InitHangs
  <2>1. loaded' = file /\ left' = FALSE /\ Loadable(file)
    BY <1>1 DEF Starts, InitHangs, Loads
  <2>2. file \in Configurations
    BY <2>1, LoadableTyped DEF StoreInv, ConfigTyped
  <2> QED
    BY <2>1, <2>2 DEF HistoryTyped
<1>2. CASE DestroysLogger
  <2>1. loaded' = loaded /\ left' = (frame # "none")
    BY <1>2 DEF DestroysLogger
  <2>2. left' \in BOOLEAN
    BY <2>1, Zenon
  <2> QED
    BY <2>1, <2>2, Zenon DEF HistoryTyped
<1>3. UNCHANGED history => HistoryTyped'
  BY DEF HistoryTyped, history
<1>4. CASE \/ StartsWork \/ NoticesRequest \/ JoinsHealth \/ JoinsTiling
           \/ StopsSources \/ Disconnects \/ StopsStreamer
           \/ DestroysStreamer
  BY <1>3, <1>4 DEF StartsWork, NoticesRequest, JoinsHealth, JoinsTiling,
    StopsSources, StopBegins, StopEnds, StopReturnsAtOnce, Disconnects,
    StopsStreamer, DestroysStreamer
<1>5. CASE \/ StartFails \/ ShutdownIsRequested \/ HealthEnds
           \/ TilingEnds \/ Frame \/ WriterSettles
  BY <1>3, <1>5 DEF StartFails, ShutdownIsRequested, HealthEnds,
    TilingEnds, Frame, FrameEnters, FrameEnds, FramePauses, FrameComesBack,
    FrameLogsViolation, WriterSettles
<1>6. CASE Returns \/ Crashes \/ Killed
  BY <1>3, <1>6 DEF Returns, Crashes, Killed, Ends
<1>7. CASE \/ TilingPublishes \/ Listener \/ SomeViewerConnects
           \/ SomeClient \/ UNCHANGED engine
  BY <1>3, <1>7 DEF TilingPublishes, Listener, SomeViewerConnects,
    SomeClient, StreamerThread, engine
<1> QED
  BY <1>1, <1>2, <1>4, <1>5, <1>6, <1>7, EngineOrStore
    DEF EngineStep, Main, vars

(* Every variable of the engine, its streamer and its configuration keeps  *)
(* its type; the queue of the logger never exceeds its limit, and the      *)
(* engine never runs with a file that was cut off.                         *)
THEOREM LifecycleTypes == Spec => []TypeOK
<1>1. QueueTyped /\ ThreadsTyped /\ StreamerTyped /\ HistoryTyped
        /\ StoreInv /\ ViewInv => TypeOK
  BY DEF QueueTyped, ThreadsTyped, StreamerTyped, HistoryTyped, StoreInv,
    ConfigTyped, ViewInv, TypeOK
<1> QED
  BY <1>1, InitTyped, NextQueue, NextThreads, NextStreamer, NextHistory,
    InitStore, NextStore, InitOrder, NextOrder, InitView, NextView, PTL
    DEF Spec
=============================================================================
