----------------------------- MODULE MCFramePath -----------------------------
(***************************************************************************)
(* For TLC, the frames of a stream, and beside them the association of     *)
(* detections with tracks, asked from the first state of the frames: what  *)
(* the frames take for any matches at all, the algorithm chooses.          *)
(***************************************************************************)
EXTENDS FramePath, Hungarian

(* Costs in 1/256: two that a float beside the padding tells from neither  *)
(* neighbour, the least, the greatest, and what passes no gate.            *)
Matrices(rows, cols, costs) == [1 .. rows -> [1 .. cols -> costs]]

MCTables ==
  UNION {Matrices(rows, cols, {24, 40, 512, Gated}) :
           rows, cols \in {1, 2}}
    \cup Matrices(1, 3, {24, 40, Gated}) \cup Matrices(3, 1, {24, 40, Gated})
    \cup Matrices(2, 3, {24, 40, Gated}) \cup Matrices(3, 2, {24, 40, Gated})
    \cup Matrices(3, 3, {0, 40})

MCInit == PathInit /\ NoCall

MCFrames == PathNext /\ NoCall /\ UNCHANGED call

MCAssociation ==
  /\ memory = "ample" /\ quality = Best /\ count = 0 /\ trackers = <<>>
  /\ CallNext
  /\ UNCHANGED pathVars

MCNext == MCFrames \/ MCAssociation

MCSpec ==
  /\ MCInit /\ [][MCNext]_<<pathVars, call>>
  /\ WF_vars(FramesCome /\ NoCall)
=============================================================================
