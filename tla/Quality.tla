------------------------------- MODULE Quality -------------------------------
(***************************************************************************)
(* How far the inference on one stream is degraded while the GPU is short  *)
(* of memory (src/pipeline/pipeline_manager.cpp): every how many frames it *)
(* runs, and at which input scale, in twentieths.  The scale is a double;  *)
(* its rounding errors can only delay the full scale by a frame.           *)
(***************************************************************************)
EXTENDS Integers

CONSTANTS
  BaseInterval,     (* detection.inference_interval of the configuration   *)
  LongestInterval,  (* no interval is lengthened beyond it (6)             *)
  FullScale,        (* the scale 1.0 (20)                                  *)
  LowestScale       (* the scale 0.65 (13)                                 *)

ASSUME QualityAssumption ==
  /\ BaseInterval \in Nat \ {0}
  /\ LongestInterval \in Nat \ {0}
  /\ LowestScale \in Nat \ {0}
  /\ FullScale \in Nat /\ FullScale >= LowestScale

(* Free memory: under 350 MB, under 600 MB, up to 750 MB, above.           *)
MemoryLevels == {"critical", "low", "fair", "ample"}
Short(memory) == memory \in {"critical", "low"}

(* A configured interval beyond LongestInterval is left alone.             *)
Qualities ==
  [interval: {BaseInterval} \cup BaseInterval .. LongestInterval,
   scale: LowestScale .. FullScale]

Best == [interval |-> BaseInterval, scale |-> FullScale]

(* Mutant: the interval is not capped.                                     *)
CappedTooLate(i) == IF i <= LongestInterval THEN i + 1 ELSE i

Longer(i) == IF i < LongestInterval THEN i + 1 ELSE i

(* Mutant: only the scale recovers.                                        *)
StaysLong(i) == i

Shorter(i) == IF i > BaseInterval THEN i - 1 ELSE i

(* The new quality after a frame that found memory short, or did not.      *)
Adapted(q, memory) ==
  IF Short(memory)
    THEN [interval |-> Longer(q.interval),
          scale    |-> IF q.scale - 2 < LowestScale THEN LowestScale
                                                    ELSE q.scale - 2]
    ELSE [interval |-> Shorter(q.interval),
          scale    |-> IF q.scale < FullScale THEN q.scale + 1 ELSE q.scale]
=============================================================================
