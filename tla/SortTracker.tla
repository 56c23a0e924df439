----------------------------- MODULE SortTracker -----------------------------
(***************************************************************************)
(* The life of the tracks of one stream (SortTracker::update with the      *)
(* counters of KalmanBoxTracker).  Geometry and appearance decide which    *)
(* detection fits which track: every assignment the gates may leave is     *)
(* possible here (what solveHungarian makes of the gates is in Hungarian). *)
(***************************************************************************)
EXTENDS Integers, Sequences, SequencesExt, FiniteSets, Functions

CONSTANTS
  MaxAge,          (* tracking.max_age (45)                                *)
  MinHits,         (* tracking.min_hits (3)                                *)
  OcclusionFrames, (* tracking.occlusion_extension_frames (15)             *)
  StationaryAge,   (* MAX_STATIONARY_AGE_LOCAL (10)                        *)
  StationaryHits,  (* STATIONARY_CONFIRM_FRAMES (3)                        *)
  MaxOcclusion,    (* bound: occlusion_frames_ is not counted beyond it    *)
  MaxId            (* bound: the ids given out                             *)

ASSUME SortTrackerAssumption ==
  {MaxAge, MinHits, OcclusionFrames, StationaryAge, StationaryHits,
   MaxOcclusion, MaxId} \subseteq Nat

(* Counters are kept no further than a comparison looks.                   *)
UpTo(bound, n) == IF n > bound THEN bound ELSE n
Larger(m, n) == IF m > n THEN m ELSE n

DormantAge == Larger(MaxAge + OcclusionFrames, 2 * MaxAge)

(* A track with its id, its state, the frames since it was last seen, its  *)
(* streak of hits and the frames in a row in which it hardly moved.        *)
Tracks ==
  [id : 1 .. MaxId, life : {"Tentative", "Confirmed", "Dormant"},
   unseen : Nat, hits : 0 .. MinHits, still : 0 .. StationaryHits]

Stationary(t) == t.still >= StationaryHits

Predicted(t) ==
  [t EXCEPT !.hits = IF t.unseen > 0 THEN 0 ELSE @, !.unseen = @ + 1]

(* KalmanBoxTracker::update with a box that moved or did not.              *)
Updated(t, moved) ==
  [t EXCEPT !.unseen = 0, !.hits = UpTo(MinHits, @ + 1),
            !.still = IF moved THEN 0 ELSE UpTo(StationaryHits, @ + 1)]

Confirmed(t) == IF t.hits >= MinHits THEN [t EXCEPT !.life = "Confirmed"]
                                     ELSE t

(* A track found by the first association, and a dormant one by the other. *)
Found(t, moved) == Confirmed(Updated(t, moved))
Reactivated(t, moved) == [Updated(t, moved) EXCEPT !.life = "Confirmed"]

Created(id) ==
  Confirmed(Updated([id |-> id, life |-> "Tentative", unseen |-> 0,
                     hits |-> 0, still |-> 0], FALSE))

-----------------------------------------------------------------------------
(* Detections 1 .. n are matched with positions of the list.               *)
Positions(tracks, lives) == {k \in DOMAIN tracks : tracks[k].life \in lives}
Active(tracks) == Positions(tracks, {"Tentative", "Confirmed"})
Dormant(tracks) == Positions(tracks, {"Dormant"})

(* Any set of tracks may be matched that is no larger than the detections. *)
(* Nothing depends on which detection a track gets, so the detections are  *)
(* numbered to fit: the first ones are matched, in the order of the list.  *)
Rank(x, S) == Cardinality({y \in S : y < x})

InOrder(detections, P) ==
  [d \in {e \in detections : Rank(e, detections) < Cardinality(P)} |->
     CHOOSE k \in P : Rank(k, P) = Rank(d, detections)]

Matches(detections, positions) ==
  {InOrder(detections, P) : P \in {Q \in SUBSET positions :
     Cardinality(Q) <= Cardinality(detections)}}

(* Mutant: the second association is given the matched detections too.     *)
EveryDetection(n, primary) == 1 .. n

Unmatched(n, primary) == (1 .. n) \ DOMAIN primary

(* The detections that neither association matched.                        *)
Fresh(n, primary, second) == (1 .. n) \ (DOMAIN primary \cup DOMAIN second)

(* The tracks after both associations, with a new one per unmatched        *)
(* detection, in the order of the detections.                              *)
Associated(tracks, n, primary, second, moved, nextId) ==
  LET new == Fresh(n, primary, second)
      old == [k \in DOMAIN tracks |->
                LET t == Predicted(tracks[k])
                IN IF k \in Range(primary) THEN Found(t, k \in moved)
                   ELSE IF k \in Range(second) THEN Reactivated(t, k \in moved)
                   ELSE t]
  IN old \o [i \in 1 .. Cardinality(new) |-> Created(nextId + i - 1)]

(* The id each detection leaves with.                                      *)
Labels(tracks, n, primary, second, nextId) ==
  [d \in 1 .. n |->
     IF d \in DOMAIN second THEN tracks[second[d]].id
     ELSE IF d \in DOMAIN primary THEN tracks[primary[d]].id
     ELSE nextId + Rank(d, Fresh(n, primary, second))]

-----------------------------------------------------------------------------
(* The last loop of update.                                                *)

EffectiveAge(t, occluded) ==
  LET age == MaxAge + (IF occluded > 0 THEN OcclusionFrames ELSE 0)
  IN IF Stationary(t) THEN Larger(age, MaxAge + StationaryAge) ELSE age

Aged(t, occluded) ==
  CASE t.life = "Tentative" -> Confirmed(t)
    [] t.life = "Confirmed" /\ t.unseen > EffectiveAge(t, occluded)
         -> [t EXCEPT !.life = "Dormant"]
    [] OTHER -> t

(* Mutant: a dormant track is judged by the age of a confirmed one.        *)
ErasedTooEarly(t) ==
  \/ t.life = "Tentative" /\ t.hits < MinHits /\ t.unseen > 1
  \/ t.life = "Dormant" /\ t.unseen > MaxAge

Erased(t) ==
  \/ t.life = "Tentative" /\ t.hits < MinHits /\ t.unseen > 1
  \/ t.life = "Dormant" /\ t.unseen > DormantAge

(* Mutant: the loop moves on after an erasure and skips the next track.    *)
KeptOrSkipped(tracks) ==
  LET alive == {k \in DOMAIN tracks : \/ ~Erased(tracks[k])
                                      \/ k > 1 /\ Erased(tracks[k - 1])}
  IN InOrder(1 .. Cardinality(alive), alive)

(* The positions that survive the loop, in the order of the list.          *)
Kept(tracks) ==
  LET alive == {k \in DOMAIN tracks : ~Erased(tracks[k])}
  IN InOrder(1 .. Cardinality(alive), alive)

(* matched_tracker and predicted_boxes are not erased with the tracks: the *)
(* i-th survivor looks up its flag, and its predicted box, at i, wherever  *)
(* it was before.  The survivors whose occlusion is judged anew:           *)
Judged(kept, old, matched) == DOMAIN kept \cap ((1 .. old) \ matched)

OcclusionAfter(n, hidden) ==
  IF hidden THEN UpTo(MaxOcclusion, n + 1) ELSE Larger(0, n - 1)
=============================================================================
