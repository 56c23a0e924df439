----------------------------- MODULE Degradation -----------------------------
(***************************************************************************)
(* The frames of one stream while free GPU memory changes at will: each    *)
(* frame first adapts the quality and then decides whether it is inferred, *)
(* from the number of the frame and the interval just adapted              *)
(* (PipelineManager::onFrameReceived).  The frame that finds memory        *)
(* critical stops the source it comes from; what that stop and the start   *)
(* of a later frame do to the source is PipelineManager's part, and only   *)
(* their outcomes are kept here.                                           *)
(***************************************************************************)
EXTENDS Quality

CONSTANT Period    (* bound: frame_count is kept modulo Period           *)

ASSUME PeriodAssumption ==
  /\ Period \in Nat \ {0}
  /\ \A i \in 1 .. LongestInterval : Period % i = 0
  /\ Period % BaseInterval = 0

VARIABLES
  memory,    (* free GPU memory                                            *)
  paused,    (* paused_for_vram: "no" or "yes", "stuck" if the frame that  *)
             (* set it never comes back from stopping its own source       *)
  quality,   (* dynamic_inference_interval and dynamic_input_scale         *)
  count,     (* frame_count                                                *)
  skipped    (* history: frames since the last one inferred                *)

vars == <<memory, paused, quality, count, skipped>>

Init ==
  /\ memory \in MemoryLevels
  /\ paused = "no"
  /\ quality = Best
  /\ count = 0
  /\ skipped = 0

MemoryChanges ==
  /\ memory' \in MemoryLevels \ {memory}
  /\ UNCHANGED <<paused, quality, count, skipped>>

(* Mutant: the remainder is compared with 1.                               *)
InferredOneOff(n, q) == n % q.interval = 1

Inferred(n, q) == n % q.interval = 0

(* What the policy finds: memory for a pause, or for a start, which may    *)
(* fail.                                                                   *)
Pauses  == memory = "critical" /\ paused = "no"
Resumes == memory = "ample" /\ paused = "yes"

Counted == count' = (count + 1) % Period /\ quality' = Adapted(quality, memory)

(* A paused stream may still have a frame under way or a launch pending.   *)
Frame ==
  /\ paused # "stuck"
  /\ Counted
  /\ paused' \in IF Pauses THEN {"yes"}
                ELSE IF Resumes THEN {"no", "yes"} ELSE {paused}
  /\ skipped' = IF Inferred(count', quality') THEN 0 ELSE skipped + 1
  /\ UNCHANGED memory

FrameHangs ==
  /\ Pauses
  /\ Counted
  /\ paused' = "stuck"
  /\ UNCHANGED <<memory, skipped>>

Next == MemoryChanges \/ Frame \/ FrameHangs

Spec == Init /\ [][Next]_vars

(* The camera delivers while the stream is not paused.                     *)
FramesCome == Frame /\ paused = "no"

FairSpec == Spec /\ WF_vars(FramesCome)

-----------------------------------------------------------------------------
(* Every variable has its type; no stream is degraded beyond the limits.   *)
TypeOK ==
  /\ memory \in MemoryLevels
  /\ paused \in {"no", "yes", "stuck"}
  /\ quality \in Qualities
  /\ count \in 0 .. Period - 1
  /\ skipped \in Nat

(* Whatever memory does, inference does not starve: the frame whose number *)
(* is a multiple of every interval is inferred.  The longest interval is   *)
(* no bound: memory that crosses the watermark between frames can make the *)
(* number miss a multiple of the interval of each frame, up to 59 times.   *)
InferenceNeverStarves == skipped < Period

(* A stream that is not paused returns to the configured interval and the  *)
(* full scale once memory stays sufficient, however it was degraded.  A    *)
(* paused one stays as it is, since its frames alone restore it (line 677).*)
QualityRecovers ==
  <>[](~Short(memory) /\ paused = "no") => <>[](quality = Best)
=============================================================================
