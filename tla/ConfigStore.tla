----------------------------- MODULE ConfigStore -----------------------------
(***************************************************************************)
(* config.json: written by the web backend (web/backend/src/               *)
(* configManager.js, behind routes.js), edited by hand at any time, and    *)
(* read by the engine when it starts.  An update reads the file, changes   *)
(* some sections of what it read, truncates the file and fills it: the     *)
(* handlers of the backend run one at a time, but nothing locks the file   *)
(* against other processes.                                                *)
(***************************************************************************)
EXTENDS Integers

VARIABLES
  file,       (* the contents of config.json: a configuration, or Torn     *)
  cache,      (* projectConfig of the backend                              *)
  writing,    (* the write under way                                       *)
  overlapped  (* history: the file was edited since that write read it,    *)
              (* and not yet truncated                                     *)

configVars == <<file, cache, writing, overlapped>>

(* The sections the properties tell apart.                                 *)
Sections == {"mqtt", "streams", "alert_cooldown"}
StreamLists == {"old", "new"}
Cooldowns == {"in range", "out of range"}
Configurations ==
  [mqtt : {"absent", "set"},
   streams : {"absent"} \cup StreamLists,
   alert_cooldown : Cooldowns]

(* A truncated file: no text that parses.                                  *)
Torn == [s \in Sections |-> "torn"]

(* A write has read the file and changed its sections, or has truncated    *)
(* the file too.                                                           *)
NoWrite == [phase |-> "none"]
Writes == [phase : {"read", "truncated"}, sections : SUBSET Sections,
           config : Configurations]

(* The empty object: no streams, no broker, and a cooldown by default.     *)
Empty == [mqtt |-> "absent", streams |-> "absent",
          alert_cooldown |-> "in range"]

ConfigInit ==
  /\ file = [mqtt |-> "set", streams |-> "old",
             alert_cooldown |-> "in range"]
  /\ cache = file
  /\ writing = NoWrite
  /\ overlapped = FALSE

(* Mutant: what was read last is good enough.                              *)
Remembered(contents) == cache

(* loadConfig: a file that does not parse leaves projectConfig as it was.  *)
Loaded(contents) == IF contents = Torn THEN cache ELSE contents

(* What ConfigLoader::load accepts.                                        *)
Loadable(contents) ==
  /\ contents.mqtt = "set"
  /\ contents.streams \in StreamLists
  /\ contents.alert_cooldown = "in range"

-----------------------------------------------------------------------------
(* The backend.                                                            *)

(* A handler has config to save, which differs in these sections from what *)
(* it read.                                                                *)
HasToSave(sections, config) ==
  /\ writing = NoWrite
  /\ writing' = [phase |-> "read", sections |-> sections, config |-> config]
  /\ overlapped' = FALSE
  /\ UNCHANGED file

(* updateGlobalSettings: one request may carry a broker, a cooldown, both  *)
(* or neither; any integer that is not negative passes the route and the   *)
(* store.  projectConfig is changed in place, before it is saved.          *)
Asked(mqtt, cooldown) ==
  (IF mqtt THEN {"mqtt"} ELSE {})
    \cup (IF cooldown = "not asked" THEN {} ELSE {"alert_cooldown"})

WithSettings(config, mqtt, cooldown) ==
  [config EXCEPT
     !.mqtt = IF mqtt THEN "set" ELSE @,
     !.alert_cooldown = IF cooldown = "not asked" THEN @ ELSE cooldown]

UpdateGlobalSettings ==
  \E mqtt \in BOOLEAN, cooldown \in Cooldowns \cup {"not asked"} :
    /\ HasToSave(Asked(mqtt, cooldown),
                 WithSettings(Loaded(file), mqtt, cooldown))
    /\ cache' = WithSettings(Loaded(file), mqtt, cooldown)

(* updateStreams: the list may be empty, and may carry the masked URIs     *)
(* that GET /config shows.                                                 *)
UpdateStreams ==
  \E streams \in StreamLists :
    /\ HasToSave({"streams"}, [Loaded(file) EXCEPT !.streams = streams])
    /\ cache' = [Loaded(file) EXCEPT !.streams = streams]

(* POST /config: whatever was sent replaces the file, which is not read.   *)
ReplaceConfig ==
  /\ \E config \in Configurations : HasToSave(Sections, config)
  /\ UNCHANGED cache

(* getConfig: a request that only reads refreshes projectConfig too.       *)
GetConfig ==
  /\ writing = NoWrite
  /\ cache' = Loaded(file)
  /\ UNCHANGED <<file, writing, overlapped>>

(* writeFileSync opens the file, which truncates it, and fills it.         *)
Truncates ==
  /\ writing.phase = "read"
  /\ writing' = [writing EXCEPT !.phase = "truncated"]
  /\ file' = Torn
  /\ overlapped' = FALSE
  /\ UNCHANGED cache

(* If somebody else wrote meanwhile, either text is in the file at the     *)
(* end, or some of both.                                                   *)
WriteEnds ==
  /\ writing.phase = "truncated"
  /\ file' \in IF file = Torn THEN {writing.config}
                              ELSE {writing.config, file, Torn}
  /\ cache' = writing.config
  /\ writing' = NoWrite
  /\ UNCHANGED overlapped

(* The file cannot be opened, or the disk is full; projectConfig keeps     *)
(* what was changed in place.                                              *)
WriteFails ==
  /\ writing # NoWrite
  /\ file' \in IF writing.phase = "read" THEN {file} ELSE {file, Torn}
  /\ writing' = NoWrite /\ overlapped' = FALSE
  /\ UNCHANGED cache

(* The backend dies and starts again; a write under way stays half done.   *)
BackendRestarts ==
  /\ cache' = IF file = Torn THEN Empty ELSE file
  /\ writing' = NoWrite /\ overlapped' = FALSE
  /\ UNCHANGED file

(* Someone saves another configuration from an editor.                     *)
EditedByHand ==
  /\ file' \in Configurations
  /\ overlapped' = (writing.phase = "read")
  /\ UNCHANGED <<cache, writing>>

Backend ==
  UpdateGlobalSettings \/ UpdateStreams \/ ReplaceConfig \/ GetConfig
    \/ Truncates \/ WriteEnds \/ WriteFails

-----------------------------------------------------------------------------
(* What replaces the file keeps the sections that were not asked for as    *)
(* they are in the file at that moment, whatever the backend had seen or   *)
(* failed to save before (loadConfig at the start of every update).  It    *)
(* cannot where the file does not parse, nor where somebody saved it       *)
(* after that reading: that edit is lost (configManager.js:19, 36).        *)
UpdateKeepsOtherSections ==
  [][writing.phase = "read" /\ writing'.phase = "truncated"
       /\ file # Torn /\ ~overlapped =>
       \A s \in Sections \ writing.sections :
         writing.config[s] = file[s]]_configVars
=============================================================================
