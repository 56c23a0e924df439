--------------------------- MODULE MCAlertThrottler ---------------------------
(***************************************************************************)
(* A throttler for TLC: time passes in steps of half a cooldown, and the   *)
(* settings may also take the values at which the comparisons turn over.   *)
(***************************************************************************)
EXTENDS AlertThrottler

MCCooldowns == {0}
MCMinFrames == {1}
=============================================================================
