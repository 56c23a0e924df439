---------------------------- MODULE MJPEGStreamer ----------------------------
(***************************************************************************)
(* The live view (src/utils/mjpeg_streamer.cpp): a listening thread, one   *)
(* detached thread per viewer, a publisher, and stop, which sets a flag,   *)
(* notifies without the mutex and closes the socket that the listening     *)
(* thread may be blocked on.                                               *)
(***************************************************************************)
EXTENDS Integers

CONSTANT Viewers   (* bound: the viewers whose threads are followed        *)

VARIABLES
  streamer,   (* the object: "none", "live" or "destroyed"                 *)
  serving,    (* running_                                                  *)
  listener,   (* where the listening thread is                             *)
  clients,    (* where the thread of each viewer is                        *)
  fresh       (* viewers whose last_sent_seq is behind frame_sequence_     *)

streamerVars == <<streamer, serving, listener, clients, fresh>>

(* A thread that tests, locks or decides reads members of the streamer; a  *)
(* thread that decides holds frame_mutex_; one that sends holds nothing.   *)
ClientStates == {"none", "tests", "locks", "decides", "sleeps", "sends"}

StreamerInit ==
  /\ streamer = "none"
  /\ serving = FALSE
  /\ listener = "gone"
  /\ clients = [c \in Viewers |-> "none"]
  /\ fresh = {}

(* start; no frame has been published yet.  The port may still be taken:   *)
(* then there is no listener, and the caller does not look at the result.  *)
StreamerStarts ==
  /\ streamer' = "live"
  /\ serving' = TRUE
  /\ listener' \in {"tests", "gone"}
  /\ UNCHANGED <<clients, fresh>>

(* The threads end with their process.                                     *)
StreamerVanishes ==
  /\ streamer' = "none"
  /\ serving' = FALSE
  /\ listener' = "gone"
  /\ clients' = [c \in Viewers |-> "none"]
  /\ fresh' = {}

-----------------------------------------------------------------------------
(* The listening thread.                                                   *)

ListenerTests ==
  /\ listener = "tests"
  /\ listener' = IF serving THEN "enters" ELSE "gone"
  /\ UNCHANGED <<streamer, serving, clients, fresh>>

(* accept on a closed socket fails; otherwise it blocks.                   *)
ListenerEnters ==
  /\ listener = "enters"
  /\ listener' = IF serving THEN "accepts" ELSE "tests"
  /\ UNCHANGED <<streamer, serving, clients, fresh>>

(* A viewer connects.  On Linux a blocked accept outlives the close of its *)
(* descriptor by another thread, and only this wakes it.  The thread of    *)
(* the viewer is one of those followed, or another one.                    *)
ViewerConnects ==
  /\ listener = "accepts"
  /\ listener' = "tests"
  /\ \/ UNCHANGED <<clients, fresh>>
     \/ \E c \in Viewers :
          /\ clients[c] = "none"
          /\ clients' = [clients EXCEPT ![c] = "tests"]
          /\ fresh' \in {fresh \ {c}, fresh \cup {c}}
  /\ UNCHANGED <<streamer, serving>>

-----------------------------------------------------------------------------
(* The thread of a viewer.                                                 *)

ClientMoves(c, to) ==
  /\ clients' = [clients EXCEPT ![c] = to]
  /\ UNCHANGED <<streamer, serving, listener>>

MutexFree == \A c \in Viewers : clients[c] # "decides"

ClientTests(c) ==
  /\ streamer = "live" /\ clients[c] = "tests"
  /\ ClientMoves(c, IF serving THEN "locks" ELSE "none")
  /\ UNCHANGED fresh

(* The predicate of the wait; a client that finds nothing new goes to      *)
(* sleep, and holds the mutex until it does.                               *)
ClientChecks(c) ==
  /\ streamer = "live" /\ clients[c] = "locks"
  /\ MutexFree
  /\ ClientMoves(c, IF ~serving THEN "none"
                    ELSE IF c \in fresh THEN "sends" ELSE "decides")
  /\ fresh' = IF serving THEN fresh \ {c} ELSE fresh

ClientSleeps(c) ==
  /\ clients[c] = "decides"
  /\ ClientMoves(c, "sleeps")
  /\ UNCHANGED fresh

(* The frame is sent, or the viewer has gone; a slow viewer may block it.  *)
ClientSends(c) ==
  /\ clients[c] = "sends"
  /\ \E to \in {"tests", "none"} : ClientMoves(c, to)
  /\ UNCHANGED fresh

Client(c) ==
  ClientTests(c) \/ ClientChecks(c) \/ ClientSleeps(c) \/ ClientSends(c)

-----------------------------------------------------------------------------
Woken == [c \in Viewers |-> IF clients[c] = "sleeps" THEN "locks"
                                                     ELSE clients[c]]

(* Mutant: the frame is published without the mutex.                       *)
Unlocked == TRUE

FrameLock == MutexFree

(* publish: a new frame, under the mutex, then notify_all.                 *)
Publish ==
  /\ FrameLock
  /\ fresh' = Viewers
  /\ clients' = Woken
  /\ UNCHANGED <<streamer, serving, listener>>

(* stop, up to the join: the notification does not wait for the mutex, so  *)
(* a thread that has decided to sleep misses it.                           *)
StopServing ==
  /\ serving' = FALSE
  /\ clients' = Woken
  /\ UNCHANGED <<streamer, listener, fresh>>

(* The last members go; whatever detached threads there are go on.         *)
DestroyStreamer ==
  /\ streamer' = "destroyed"
  /\ UNCHANGED <<serving, listener, clients, fresh>>

(* The threads that will read members of a destroyed streamer.             *)
Dangling ==
  {c \in Viewers : streamer = "destroyed" /\ clients[c] \in {"tests", "locks"}}

(* If nothing worse happens, the memory still says that it is not running. *)
DanglingLeaves(c) ==
  /\ c \in Dangling
  /\ ClientMoves(c, "none")
  /\ UNCHANGED fresh
=============================================================================
