------------------------------ MODULE FramePath ------------------------------
(***************************************************************************)
(* The frames of one stream from the decision to infer to the labelled     *)
(* detections: the policy adapts the quality, the number of the frame and  *)
(* the interval decide whether it is inferred, and only then the tracker   *)
(* is updated (PipelineManager::onFrameReceived, SortTracker::update).     *)
(***************************************************************************)
EXTENDS Degradation, SortTracker

CONSTANT MaxDetections   (* bound: detections in one frame                 *)

ASSUME MaxDetectionsAssumption == MaxDetections \in Nat

VARIABLES
  trackers,    (* trackers_                                                *)
  occlusion,   (* occlusion_frames_, a vector beside it                    *)
  nextId,      (* next_id_                                                 *)
  labels       (* the ids of the detections of the last frame              *)

tracking == <<trackers, occlusion, nextId, labels>>
pathVars == <<vars, tracking>>

PathInit ==
  /\ Init
  /\ trackers = <<>> /\ occlusion = <<>>
  /\ nextId = 1
  /\ labels = <<>>

PathMemoryChanges ==
  /\ MemoryChanges
  /\ UNCHANGED tracking

(* Mutant: the counter is advanced once per frame.                         *)
AfterOne(new) == nextId + (IF new > 0 THEN 1 ELSE 0)

AfterAll(new) == nextId + new

(* update with n detections, matched in two associations, of which some    *)
(* tracks moved and some look hidden.                                      *)
Update(n, primary, second, moved) ==
  LET matched == Range(primary) \cup Range(second)
      all == Associated(trackers, n, primary, second, moved, nextId)
      new == Len(all) - Len(trackers)
      kept == Kept(all)
      before(k) == IF k \in matched \/ k > Len(trackers) THEN 0
                                                        ELSE occlusion[k]
      judged == Judged(kept, Len(trackers), matched)
  IN /\ nextId + new <= MaxId + 1
     /\ nextId' = AfterAll(new)
     /\ labels' = Labels(trackers, n, primary, second, nextId)
     /\ \E hidden \in SUBSET judged :
          occlusion' = [i \in DOMAIN kept |->
            IF i \in judged THEN OcclusionAfter(before(kept[i]), i \in hidden)
                            ELSE before(kept[i])]
     /\ trackers' = [i \in DOMAIN kept |->
                       Aged(all[kept[i]], occlusion'[i])]

TrackerUpdates ==
  \E n \in 0 .. MaxDetections :
    \E primary \in Matches(1 .. n, Active(trackers)) :
      \E second \in Matches(Unmatched(n, primary), Dormant(trackers)) :
        \E moved \in SUBSET (Range(primary) \cup Range(second)) :
          Update(n, primary, second, moved)

(* A frame that is not inferred has no detections and leaves the tracks.   *)
PathFrame ==
  /\ Frame
  /\ IF Inferred(count', quality')
       THEN TrackerUpdates
       ELSE labels' = <<>> /\ UNCHANGED <<trackers, occlusion, nextId>>

(* Neither inferred nor anything after it.                                 *)
PathFrameHangs == FrameHangs /\ UNCHANGED tracking

PathNext == PathMemoryChanges \/ PathFrame \/ PathFrameHangs

PathSpec == PathInit /\ [][PathNext]_pathVars

(* The camera delivers while the stream is not paused; no frame is refused *)
(* by the tracker.                                                         *)
PathFairSpec == PathSpec /\ WF_vars(FramesCome)

-----------------------------------------------------------------------------
(* The longest a confirmed track lives unseen, plus the frame in which it  *)
(* becomes dormant.                                                        *)
Unseen ==
  Larger(DormantAge, 1 + MaxAge + Larger(OcclusionFrames, StationaryAge))

(* Every variable has its type, the two vectors keep in step, and the ids  *)
(* of the list increase below the next one.                                *)
PathTypeOK ==
  /\ TypeOK
  /\ \A k \in DOMAIN trackers : trackers[k] \in Tracks
  /\ DOMAIN occlusion = DOMAIN trackers
  /\ \A k \in DOMAIN occlusion : occlusion[k] \in 0 .. MaxOcclusion
  /\ nextId \in 1 .. MaxId + 1
  /\ \A k, l \in DOMAIN trackers : k < l => trackers[k].id < trackers[l].id
  /\ \A k \in DOMAIN trackers : trackers[k].id < nextId
  /\ labels \in UNION {[1 .. n -> 1 .. MaxId] : n \in 0 .. MaxDetections}

(* The labels of a frame are those of the tracks just seen: no two persons *)
(* share one, none names a track that the same update erased, and no track *)
(* counts as seen without a detection (what the throttler's keys rest on). *)
LabelsNameSeenTracks ==
  labels # <<>> =>
    /\ IsInjective(labels)
    /\ Range(labels) = {t.id : t \in {u \in Range(trackers) : u.unseen = 0}}

(* A ghost does not outlive its age: an unseen track goes at the first     *)
(* update that finds it too old, also right after another was erased from  *)
(* the vectors the loop runs over.                                         *)
GhostsEnd ==
  \A t \in Range(trackers) :
    t.unseen <= (CASE t.life = "Tentative" -> 1
                   [] t.life = "Confirmed" -> Unseen - 1
                   [] t.life = "Dormant" -> Unseen)

(* A person once confirmed keeps the number through absence: the track     *)
(* stays in the list until it was unseen for longer than the dormant age,  *)
(* whatever happens to the others and whether it is dormant meanwhile.     *)
ConfirmedIsRemembered ==
  [][\A t \in Range(trackers) :
       t.life # "Tentative" /\ t.unseen < DormantAge
         => \E u \in Range(trackers') :
              u.id = t.id /\ u.life # "Tentative"]_pathVars
=============================================================================
