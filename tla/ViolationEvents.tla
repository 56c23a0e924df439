--------------------------- MODULE ViolationEvents ---------------------------
(***************************************************************************)
(* The records that travel through the violation logger of                 *)
(* src/utils/violation_logger.{hpp,cpp}: what one call of log_violation    *)
(* reports, and how two reports are coalesced into one record.             *)
(*                                                                         *)
(* A record keeps the camera, the (zone_id, object_id) pair as one         *)
(* "actor", and the timestamp.  Confidence, boxes and world coordinates    *)
(* decide nothing and are left out.  calls is a history field: the calls   *)
(* of log_violation the record stands for.                                 *)
(***************************************************************************)
EXTENDS Integers, Sequences

CONSTANTS
  Cameras,      (* camera_id: one streaming thread reports for each camera *)
  Actors,       (* pairs (zone_id, object_id)                              *)
  MaxCalls      (* bound: calls of log_violation in one behaviour          *)

ASSUME EventAssumption == MaxCalls \in Nat

(* A call is named by the reading of the clock it makes (make_timestamp).  *)
Calls == 1 .. MaxCalls

QueuedViolation ==
  [camera: Cameras, actor: Actors, timestamp: Calls, calls: SUBSET Calls]

(* The record one call builds before it takes the queue lock.              *)
Report(c, a, t) ==
  [camera |-> c, actor |-> a, timestamp |-> t, calls |-> {t}]

(* Same zone, same object, same camera.                                    *)
SameEvent(tail, item) == tail.camera = item.camera /\ tail.actor = item.actor

(* The tail takes the timestamp of the later report and stands for both.   *)
Coalesced(tail, item) ==
  [tail EXCEPT !.timestamp = item.timestamp, !.calls = @ \cup item.calls]

(* The calls a sequence of records stands for.                             *)
CallsOf(s) == UNION {s[i].calls : i \in DOMAIN s}
=============================================================================
