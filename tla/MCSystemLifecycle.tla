--------------------------- MODULE MCSystemLifecycle --------------------------
(***************************************************************************)
(* For TLC: until the engine has been started, the store is followed with  *)
(* every configuration and every request; after that with three            *)
(* configurations, two the engine takes and one it does not, and with      *)
(* requests that change the streams, each over before the engine works.    *)
(* The engine meets the store only when it reads the file, and edits by    *)
(* hand come at any time.                                                  *)
(***************************************************************************)
EXTENDS SystemLifecycle

MCFiles ==
  [mqtt : {"set"}, streams : StreamLists, alert_cooldown : {"in range"}]
    \cup [mqtt : {"set"}, streams : {"old"}, alert_cooldown : {"out of range"}]

FewConfigurations ==
  /\ file \in MCFiles \cup {Torn}
  /\ cache \in MCFiles
  /\ writing # NoWrite =>
       /\ main \in {"exited", "initializes"}
       /\ writing.sections = {"streams"} /\ writing.config \in MCFiles

MCNext == Next /\ (loaded' # Empty => FewConfigurations')

MCSpec == Init /\ [][MCNext]_vars /\ Fairness

(* Viewers come again and again.                                           *)
MCViewedSpec == MCSpec /\ WF_vars(SomeViewerConnects)
=============================================================================
