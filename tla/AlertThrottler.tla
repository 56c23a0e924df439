---------------------------- MODULE AlertThrottler ----------------------------
(***************************************************************************)
(* safety::AlertThrottler (src/utils/alert_throttler.{hpp,cpp}) and its    *)
(* caller, PipelineManager::checkAlerts: on each frame every stream asks,  *)
(* for each pair of a zone and a tracked object, whether to raise an       *)
(* alert.  The whole call runs under mutex_, so it is one action.          *)
(*                                                                         *)
(* A key is a pair (zone_id, object_id).  The streams number their zones   *)
(* and their tracks from 1 each, and one throttler serves all of them, so  *)
(* two streams may ask about the same key.                                 *)
(***************************************************************************)
EXTENDS Integers, Sequences

CONSTANTS
  Streams,          (* the cameras                                         *)
  Keys,             (* pairs (zone_id, object_id)                          *)
  Unseen,           (* the key has no entry in alert_states_               *)
  CooldownDefault,  (* cooldown_ms_ of a new throttler                     *)
  MinDefault,       (* min_consecutive_frames_ of a new throttler          *)
  Cooldowns,        (* arguments of set_cooldown                           *)
  MinFrames,        (* arguments of set_min_consecutive_frames             *)
  MaxTime,          (* bound: readings of the steady clock                 *)
  MaxCalls          (* bound: calls of should_alert for one key            *)

AlertState == [last: Nat, count: Nat, violating: BOOLEAN]

ASSUME ThrottlerAssumption ==
  /\ CooldownDefault \in Int /\ Cooldowns \subseteq Int
  /\ MinDefault \in Int /\ MinFrames \subseteq Int
  /\ MaxTime \in Nat /\ MaxCalls \in Nat
  /\ Unseen \notin AlertState

VARIABLES
  now,        (* steady_clock                                              *)
  cooldown,   (* cooldown_ms_                                              *)
  min,        (* min_consecutive_frames_                                   *)
  states,     (* alert_states_                                             *)
  log         (* history: per key, the calls made and what they returned   *)

vars == <<now, cooldown, min, states, log>>

Call == [stream: Streams, violating: BOOLEAN, time: Nat, alert: BOOLEAN,
         cooldown: Int, min: Int]

Init ==
  /\ now = 0
  /\ cooldown = CooldownDefault
  /\ min = MinDefault
  /\ states = [k \in Keys |-> Unseen]
  /\ log = [k \in Keys |-> <<>>]

Tick ==
  /\ now < MaxTime
  /\ now' = now + 1
  /\ UNCHANGED <<cooldown, min, states, log>>

SetCooldown(c) ==
  /\ cooldown' = c
  /\ UNCHANGED <<now, min, states, log>>

SetMinConsecutiveFrames(m) ==
  /\ min' = m
  /\ UNCHANGED <<now, cooldown, states, log>>

(* Mutant: the alert is due as soon as the cooldown is reached.            *)
CooldownReached(st) == now - st.last >= cooldown

CooldownOver(st) == now - st.last > cooldown

(* Mutant: a gap does not end the run of violating frames.                 *)
KeepCounting(st) == [st EXCEPT !.violating = FALSE]

StopCounting(st) == [st EXCEPT !.violating = FALSE, !.count = 0]

RestartCooldown(st) == [st EXCEPT !.last = now]

(* should_alert(k, violating) called by stream s returns alert.            *)
Returns(s, k, violating, alert) ==
  log' = [log EXCEPT ![k] = Append(@,
            [stream |-> s, violating |-> violating, time |-> now,
             alert |-> alert, cooldown |-> cooldown, min |-> min])]

FirstSight(s, k, violating) ==
  /\ states[k] = Unseen
  /\ states' = [states EXCEPT ![k] =
                  [last |-> now, count |-> IF violating THEN 1 ELSE 0,
                   violating |-> violating]]
  /\ Returns(s, k, violating, FALSE)

ViolationContinues(s, k) ==
  /\ states[k] # Unseen
  /\ states[k].violating
  /\ LET st    == [states[k] EXCEPT !.count = @ + 1]
         alert == st.count >= min /\ CooldownOver(st)
     IN  /\ states' = [states EXCEPT ![k] = IF alert THEN RestartCooldown(st)
                                                     ELSE st]
         /\ Returns(s, k, TRUE, alert)

ViolationStarts(s, k) ==
  /\ states[k] # Unseen
  /\ ~states[k].violating
  /\ states' = [states EXCEPT ![k].violating = TRUE, ![k].count = 1]
  /\ Returns(s, k, TRUE, FALSE)

NotViolating(s, k) ==
  /\ states[k] # Unseen
  /\ states' = IF states[k].violating
                 THEN [states EXCEPT ![k] = StopCounting(@)]
                 ELSE states
  /\ Returns(s, k, FALSE, FALSE)

ShouldAlert(s, k) ==
  /\ Len(log[k]) < MaxCalls
  /\ \/ \E violating \in BOOLEAN : FirstSight(s, k, violating)
     \/ ViolationContinues(s, k)
     \/ ViolationStarts(s, k)
     \/ NotViolating(s, k)
  /\ UNCHANGED <<now, cooldown, min>>

Next ==
  \/ Tick
  \/ \E c \in Cooldowns : SetCooldown(c)
  \/ \E m \in MinFrames : SetMinConsecutiveFrames(m)
  \/ \E s \in Streams, k \in Keys : ShouldAlert(s, k)

Spec == Init /\ [][Next]_vars

-----------------------------------------------------------------------------
(* Properties.                                                             *)

(* Every variable has its type; a key counts frames exactly while it is    *)
(* violating, and its last alert is not in the future.                     *)
TypeOK ==
  /\ now \in 0 .. MaxTime
  /\ cooldown \in Int
  /\ min \in Int
  /\ states \in [Keys -> AlertState \cup {Unseen}]
  /\ \A k \in Keys : states[k] # Unseen =>
       /\ states[k].violating <=> states[k].count > 0
       /\ states[k].last <= now
  /\ log \in [Keys -> Seq(Call)]

(* When the i-th call of a history h ought to raise an alert, without any  *)
(* counter: it ends a run of violating calls at least as long as required  *)
(* (and of two calls at least, for the call that starts a run never does), *)
(* and more than the cooldown has passed since the first call and since    *)
(* each alert.                                                             *)
Due(h, i) ==
  LET need == IF h[i].min < 2 THEN 2 ELSE h[i].min
  IN  /\ need <= i
      /\ \A j \in i - need + 1 .. i : h[j].violating
      /\ \A j \in 1 .. i - 1 :
           j = 1 \/ h[j].alert => h[i].time - h[j].time > h[i].cooldown

(* should_alert answers yes exactly when an alert is due in the history of *)
(* its key, through every gap, restart of a run and change of the settings.*)
AlertsWhenDue ==
  \A k \in Keys : \A i \in 1 .. Len(log[k]) :
    log[k][i].alert <=> Due(log[k], i)

(* docs/conductor/product.md:22, "cooldown per person", and                *)
(* docs/MQTT_EVENT_CONTRACT.md:334, "1 per zone+person": when an alert is  *)
(* due in what one camera has seen of one person in one zone, it is        *)
(* raised.  The code shares the run and the cooldown with the person of    *)
(* the same track number in the zone of the same number of other cameras.  *)
EachPersonIsAlerted ==
  \A s \in Streams, k \in Keys :
    LET seen == SelectSeq(log[k], LAMBDA call : call.stream = s)
    IN  \A i \in 1 .. Len(seen) : Due(seen, i) => seen[i].alert
=============================================================================
