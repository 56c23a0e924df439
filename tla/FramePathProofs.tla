--------------------------- MODULE FramePathProofs ---------------------------
(***************************************************************************)
(* For every age, every number of hits and every number of detections:     *)
(* what the tracker promises from frame to frame, and the types.           *)
(* A position of the list is a track, and what an update does is followed  *)
(* position by position: the associations give each detection a position   *)
(* of its own (ranks in finite sets), the last loop keeps the positions    *)
(* that are not erased, in their order (ranks again).  Ids increase along  *)
(* the list (ListInv), so that a position is as good as an id; the ages    *)
(* (Timely) and the labels (LabelsInv) rest on that.                       *)
(***************************************************************************)
EXTENDS FramePath, FiniteSetTheorems, SequenceTheorems, TLAPS
-----------------------------------------------------------------------------
(* The quality, for every configured interval, every longest interval and  *)
(* every pair of scales: it keeps its limits, and inference does not       *)
(* starve.  The frame whose number is 0 modulo Period is inferred whatever *)
(* the interval, and since then no more frames have passed than the number *)
(* of the present one says.                                                *)

(* The number of frames without inference never outruns the frame number,  *)
(* as long as there are frames.                                            *)
SkippedSinceZero ==
  /\ skipped < Period
  /\ paused # "stuck" => skipped <= count

QualityInv == TypeOK /\ SkippedSinceZero

(* The policy keeps a quality within its limits.                           *)
LEMMA AdaptedStaysInLimits ==
  ASSUME NEW q \in Qualities, NEW m \in MemoryLevels
  PROVE  Adapted(q, m) \in Qualities
<1> USE QualityAssumption DEF Qualities
<1>1. q.interval \in {BaseInterval} \cup BaseInterval .. LongestInterval
  OBVIOUS
<1>2. Longer(q.interval)
        \in {BaseInterval} \cup BaseInterval .. LongestInterval
  BY <1>1 DEF Longer
<1>3. Shorter(q.interval)
        \in {BaseInterval} \cup BaseInterval .. LongestInterval
  BY <1>1 DEF Shorter
<1>4. q.scale \in LowestScale .. FullScale
  OBVIOUS
<1> QED
  BY <1>2, <1>3, <1>4 DEF Adapted

(* The frame number modulo Period counts up and falls back to 0.           *)
LEMMA CountSteps ==
  ASSUME NEW n \in 0 .. Period - 1
  PROVE  (n + 1) % Period = IF n + 1 = Period THEN 0 ELSE n + 1
BY PeriodAssumption

(* The frame 0 is inferred at every quality.                               *)
LEMMA ZeroIsInferred ==
  ASSUME NEW q \in Qualities
  PROVE  Inferred(0, q)
<1>1. q.interval \in Nat \ {0}
  BY QualityAssumption DEF Qualities
<1> QED
  BY <1>1 DEF Inferred

LEMMA InitQualityInv == Init => QualityInv
BY QualityAssumption, PeriodAssumption
  DEF Init, QualityInv, TypeOK, SkippedSinceZero, Best, Qualities

LEMMA NextQualityInv == QualityInv /\ [Next]_vars => QualityInv'
<1> SUFFICES ASSUME QualityInv, [Next]_vars PROVE QualityInv'
  OBVIOUS
<1> USE DEF QualityInv, TypeOK, SkippedSinceZero
<1>1. CASE MemoryChanges
  BY <1>1 DEF MemoryChanges
<1>2. CASE Frame
  <2>1. quality' \in Qualities /\ memory' \in MemoryLevels
    BY <1>2, AdaptedStaysInLimits DEF Frame, Counted
  <2>2. count' = IF count + 1 = Period THEN 0 ELSE count + 1
    BY <1>2, CountSteps DEF Frame, Counted
  <2>3. count' \in 0 .. Period - 1
    BY <2>2, PeriodAssumption
  <2>4. skipped' = IF Inferred(count', quality') THEN 0 ELSE skipped + 1
    BY <1>2 DEF Frame
  <2>5. paused' \in {"no", "yes", "stuck"} /\ paused # "stuck"
    BY <1>2 DEF Frame
  <2>6. skipped' \in Nat /\ skipped' <= count'
    <3>1. CASE count + 1 = Period
      <4>1. Inferred(count', quality')
        BY <2>1, <2>2, <3>1, ZeroIsInferred
      <4> QED
        BY <2>3, <2>4, <4>1
    <3>2. CASE count + 1 # Period
      BY <2>2, <2>3, <2>4, <2>5, <3>2
    <3> QED
      BY <3>1, <3>2
  <2> QED
    BY <2>1, <2>3, <2>5, <2>6, PeriodAssumption
<1>3. CASE FrameHangs
  <2>1. quality' \in Qualities /\ memory' \in MemoryLevels
    BY <1>3, AdaptedStaysInLimits DEF FrameHangs, Counted
  <2>2. count' \in 0 .. Period - 1
    BY <1>3, CountSteps, PeriodAssumption DEF FrameHangs, Counted
  <2> QED
    BY <1>3, <2>1, <2>2 DEF FrameHangs
<1>4. CASE UNCHANGED vars
  BY <1>4 DEF vars
<1> QED
  BY <1>1, <1>2, <1>3, <1>4 DEF Next

(* No stream is degraded beyond the limits (the caps of the policy).       *)
THEOREM QualityTyped == Spec => []TypeOK
<1>1. QualityInv => TypeOK
  BY DEF QualityInv
<1> QED
  BY <1>1, InitQualityInv, NextQualityInv, PTL DEF Spec

(* Within Period frames one is inferred, however memory and with it the    *)
(* interval change from frame to frame.                                    *)
THEOREM NeverStarves == Spec => []InferenceNeverStarves
<1>1. QualityInv => InferenceNeverStarves
  BY PeriodAssumption
    DEF QualityInv, TypeOK, SkippedSinceZero, InferenceNeverStarves
<1> QED
  BY <1>1, InitQualityInv, NextQualityInv, PTL DEF Spec
-----------------------------------------------------------------------------
(* Ranks in a finite set of numbers.                                       *)

(* A member has fewer members below it than there are.                     *)
LEMMA RankIsSmall ==
  ASSUME NEW S \in SUBSET Nat, IsFiniteSet(S), NEW x \in S
  PROVE  Rank(x, S) \in 0 .. Cardinality(S) - 1
<1> DEFINE below == {y \in S : y < x}
<1>1. Rank(x, S) = Cardinality(below)
  BY DEF Rank
<1>2. below \in SUBSET (S \ {x})
  <2>1. x \in Nat /\ ~(x < x)
    OBVIOUS
  <2> QED
    BY <2>1
<1>3. /\ IsFiniteSet(S \ {x})
      /\ Cardinality(S \ {x}) = Cardinality(S) - 1
  BY FS_RemoveElement
<1> HIDE DEF below
<1>4. IsFiniteSet(below) /\ Cardinality(below) <= Cardinality(S \ {x})
  BY <1>2, <1>3, FS_Subset
<1>5. Cardinality(below) \in Nat /\ Cardinality(S) \in Nat
  BY <1>4, FS_CardinalityType
<1> QED
  BY <1>1, <1>3, <1>4, <1>5

(* A larger member has more below it.                                      *)
LEMMA RankIncreases ==
  ASSUME NEW S \in SUBSET Nat, IsFiniteSet(S),
         NEW x \in S, NEW y \in S, x < y
  PROVE  Rank(x, S) < Rank(y, S)
<1> DEFINE low == {z \in S : z < x}
           high == {z \in S : z < y}
<1>1. Rank(x, S) = Cardinality(low) /\ Rank(y, S) = Cardinality(high)
  BY DEF Rank
<1>2. low \in SUBSET high
  <2>1. \A a, b, c \in Nat : a < b /\ b < c => a < c
    OBVIOUS
  <2> QED
    BY <2>1
<1>3. x \in high /\ x \notin low
  OBVIOUS
<1>4. IsFiniteSet(high) /\ IsFiniteSet(low)
  BY FS_Subset
<1> HIDE DEF low, high
<1>5. Cardinality(low) <= Cardinality(high)
  BY <1>2, <1>4, FS_Subset
<1>6. Cardinality(high) # Cardinality(low)
  BY <1>2, <1>3, <1>4, FS_Subset
<1>7. Cardinality(low) \in Nat /\ Cardinality(high) \in Nat
  BY <1>4, FS_CardinalityType
<1> QED
  BY <1>1, <1>5, <1>6, <1>7

(* No two members have the same rank.                                      *)
LEMMA RankIsInjective ==
  ASSUME NEW S \in SUBSET Nat, IsFiniteSet(S),
         NEW x \in S, NEW y \in S, Rank(x, S) = Rank(y, S)
  PROVE  x = y
<1>1. x \in Nat /\ y \in Nat
  OBVIOUS
<1>2. Rank(x, S) \in Int /\ Rank(y, S) \in Int
  BY RankIsSmall
<1>3. ~(x < y) /\ ~(y < x)
  BY <1>2, RankIncreases
<1> QED
  BY <1>1, <1>3

(* Every rank below the size is taken.                                     *)
LEMMA EveryRankIsTaken ==
  ASSUME NEW S \in SUBSET Nat, IsFiniteSet(S),
         NEW r \in 0 .. Cardinality(S) - 1
  PROVE  \E x \in S : Rank(x, S) = r
<1> DEFINE T == 0 .. Cardinality(S) - 1
           rank == [x \in S |-> Rank(x, S)]
<1>1. Cardinality(S) \in Nat
  BY FS_CardinalityType
<1>2. IsFiniteSet(T) /\ Cardinality(T) = Cardinality(S)
  BY <1>1, FS_Interval
<1>3. rank \in [S -> T]
  BY RankIsSmall
<1>4. \A x, y \in S : rank[x] = rank[y] => x = y
  BY RankIsInjective
<1> HIDE DEF T, rank
<1>5. rank \in Injection(S, T)
  BY <1>3, <1>4 DEF Injection, IsInjective
<1>6. rank \in Surjection(S, T)
  BY <1>2, <1>5, FS_Injection
<1>7. r \in T
  BY DEF T
<1>8. \E x \in S : rank[x] = r
  BY <1>6, <1>7 DEF Surjection
<1> QED
  BY <1>8 DEF rank

(* In 1 .. n the rank counts from 0.                                       *)
LEMMA RankInInterval ==
  ASSUME NEW n \in Nat, NEW e \in 1 .. n
  PROVE  Rank(e, 1 .. n) = e - 1
<1>1. {y \in 1 .. n : y < e} = 1 .. e - 1
  OBVIOUS
<1>2. Cardinality(1 .. e - 1) = e - 1
  BY FS_Interval
<1> QED
  BY <1>1, <1>2 DEF Rank

-----------------------------------------------------------------------------
(* The members of P given to the members of D, in order.                   *)

(* InOrder is injective, reaches all of P and keeps the order.             *)
LEMMA InOrderFits ==
  ASSUME NEW D \in SUBSET Nat, IsFiniteSet(D),
         NEW P \in SUBSET Nat, IsFiniteSet(P),
         Cardinality(P) <= Cardinality(D)
  PROVE  LET f == InOrder(D, P)
         IN  /\ DOMAIN f = {d \in D : Rank(d, D) < Cardinality(P)}
             /\ \A d \in DOMAIN f : f[d] \in P /\ Rank(f[d], P) = Rank(d, D)
             /\ \A k \in P : \E d \in DOMAIN f : f[d] = k
             /\ \A d, e \in DOMAIN f : f[d] = f[e] => d = e
             /\ \A d, e \in DOMAIN f : d < e => f[d] < f[e]
<1> DEFINE f == InOrder(D, P)
           dom == {d \in D : Rank(d, D) < Cardinality(P)}
<1>1. f = [d \in dom |-> CHOOSE k \in P : Rank(k, P) = Rank(d, D)]
  BY DEF InOrder
<1>2. Cardinality(P) \in Nat /\ Cardinality(D) \in Nat
  BY FS_CardinalityType
<1>3. ASSUME NEW d \in dom
      PROVE  f[d] \in P /\ Rank(f[d], P) = Rank(d, D)
  <2>1. Rank(d, D) \in 0 .. Cardinality(D) - 1 /\ Rank(d, D) < Cardinality(P)
    BY RankIsSmall
  <2>2. Rank(d, D) \in 0 .. Cardinality(P) - 1
    BY <1>2, <2>1
  <2>3. \E k \in P : Rank(k, P) = Rank(d, D)
    BY <2>2, EveryRankIsTaken
  <2> HIDE DEF f
  <2> QED
    BY <1>1, <2>3
<1>4. ASSUME NEW k \in P
      PROVE  \E d \in dom : f[d] = k
  <2>1. Rank(k, P) \in 0 .. Cardinality(P) - 1
    BY RankIsSmall
  <2>2. Rank(k, P) \in 0 .. Cardinality(D) - 1 /\ Rank(k, P) < Cardinality(P)
    BY <1>2, <2>1
  <2>3. PICK d \in D : Rank(d, D) = Rank(k, P)
    BY <2>2, EveryRankIsTaken
  <2>4. d \in dom
    BY <2>2, <2>3
  <2> HIDE DEF f
  <2>5. f[d] \in P /\ Rank(f[d], P) = Rank(k, P)
    BY <1>3, <2>3, <2>4
  <2>6. f[d] = k
    BY <2>5, RankIsInjective
  <2> QED
    BY <2>4, <2>6
<1>5. ASSUME NEW d \in dom, NEW e \in dom, f[d] = f[e]
      PROVE  d = e
  <2> HIDE DEF f
  <2>1. Rank(d, D) = Rank(e, D)
    BY <1>3, <1>5
  <2> QED
    BY <2>1, RankIsInjective
<1>6. ASSUME NEW d \in dom, NEW e \in dom, d < e
      PROVE  f[d] < f[e]
  <2> HIDE DEF f
  <2>1. Rank(d, D) < Rank(e, D)
    BY <1>6, RankIncreases
  <2>2. /\ f[d] \in P /\ Rank(f[d], P) = Rank(d, D)
        /\ f[e] \in P /\ Rank(f[e], P) = Rank(e, D)
    BY <1>3
  <2>3. Rank(d, D) \in Int /\ Rank(e, D) \in Int
    BY RankIsSmall
  <2>4. f[d] # f[e]
    BY <2>1, <2>2, <2>3
  <2>5. ~(f[e] < f[d])
    <3>1. ASSUME f[e] < f[d] PROVE Rank(e, D) < Rank(d, D)
      BY <2>2, <3>1, RankIncreases
    <3> QED
      BY <2>1, <2>3, <3>1
  <2>6. f[d] \in Nat /\ f[e] \in Nat
    BY <2>2
  <2> QED
    BY <2>4, <2>5, <2>6
<1>7. DOMAIN f = dom
  BY <1>1
<1> HIDE DEF f
<1> QED
  BY <1>3, <1>4, <1>5, <1>6, <1>7 DEF f

(* The survivors keep their order, and there is one place for each.        *)
LEMMA KeptFits ==
  ASSUME NEW m \in Nat, NEW tracks, DOMAIN tracks = 1 .. m
  PROVE  /\ \E n \in Nat : DOMAIN Kept(tracks) = 1 .. n
         /\ \A i \in DOMAIN Kept(tracks) :
              /\ Kept(tracks)[i] \in 1 .. m
              /\ ~Erased(tracks[Kept(tracks)[i]])
         /\ \A k \in 1 .. m : ~Erased(tracks[k]) =>
              \E i \in DOMAIN Kept(tracks) : Kept(tracks)[i] = k
         /\ \A i, j \in DOMAIN Kept(tracks) :
              i < j => Kept(tracks)[i] < Kept(tracks)[j]
<1> DEFINE alive == {k \in DOMAIN tracks : ~Erased(tracks[k])}
           n == Cardinality(alive)
<1>1. Kept(tracks) = InOrder(1 .. n, alive)
  BY DEF Kept
<1>2. /\ alive \in SUBSET (1 .. m)
      /\ \A k \in 1 .. m : ~Erased(tracks[k]) => k \in alive
      /\ \A k \in alive : ~Erased(tracks[k])
  OBVIOUS
<1> HIDE DEF alive
<1>3. IsFiniteSet(1 .. m) /\ 1 .. m \in SUBSET Nat
  BY FS_Interval
<1>4. IsFiniteSet(alive) /\ alive \in SUBSET Nat
  BY <1>2, <1>3, FS_Subset
<1>5. n \in Nat
  BY <1>4, FS_CardinalityType
<1> HIDE DEF n
<1>6. /\ IsFiniteSet(1 .. n) /\ 1 .. n \in SUBSET Nat
      /\ Cardinality(1 .. n) = n /\ n <= n
  BY <1>5, FS_Interval
<1> DEFINE f == InOrder(1 .. n, alive)
<1>7. Cardinality(alive) <= Cardinality(1 .. n)
  BY <1>6 DEF n
<1>8. /\ DOMAIN f = {d \in 1 .. n : Rank(d, 1 .. n) < Cardinality(alive)}
      /\ \A d \in DOMAIN f : f[d] \in alive
      /\ \A k \in alive : \E d \in DOMAIN f : f[d] = k
      /\ \A d, e \in DOMAIN f : d < e => f[d] < f[e]
  <2> HIDE DEF f
  <2> QED
    BY <1>4, <1>6, <1>7, InOrderFits DEF f
<1> HIDE DEF f
<1>9. DOMAIN f = 1 .. n
  <2>1. \A d \in 1 .. n : Rank(d, 1 .. n) = d - 1 /\ d - 1 < n
    BY <1>5, RankInInterval
  <2> QED
    BY <1>8, <2>1 DEF n
<1> QED
  BY <1>1, <1>2, <1>5, <1>8, <1>9 DEF f
-----------------------------------------------------------------------------
(* One track through one frame.                                            *)

(* What the assumption says of each constant.                              *)
LEMMA Ages ==
  /\ MaxAge \in Nat /\ MinHits \in Nat /\ OcclusionFrames \in Nat
  /\ StationaryAge \in Nat /\ StationaryHits \in Nat
  /\ MaxOcclusion \in Nat /\ MaxId \in Nat
BY SortTrackerAssumption

(* The dormant age is a number of frames.                                  *)
LEMMA DormantAgeIsNat == DormantAge \in Nat
BY Ages DEF DormantAge, Larger

(* A tentative track lacks hits: with enough of them it was confirmed.     *)
Sane(t) ==
  t \in Tracks /\ (t.life = "Tentative" => t.hits < MinHits)

(* Prediction only adds to the time unseen and may clear the hits.         *)
LEMMA PredictedTrack ==
  ASSUME NEW t, Sane(t)
  PROVE  /\ Sane(Predicted(t))
         /\ Predicted(t).id = t.id
         /\ Predicted(t).life = t.life
         /\ Predicted(t).unseen = t.unseen + 1
<1> DEFINE p == Predicted(t)
           h == IF t.unseen > 0 THEN 0 ELSE t.hits
           n == t.unseen + 1
<1>1. /\ t.id \in 1 .. MaxId /\ t.unseen \in Nat /\ t.hits \in 0 .. MinHits
      /\ t.life \in {"Tentative", "Confirmed", "Dormant"}
      /\ t.still \in 0 .. StationaryHits
      /\ t.life = "Tentative" => t.hits < MinHits
      /\ t \in Tracks
  BY DEF Sane, Tracks
<1>2. /\ h \in 0 .. MinHits /\ (t.life = "Tentative" => h < MinHits)
      /\ n \in Nat
  BY <1>1, Ages
<1>3. p = [t EXCEPT !.hits = h, !.unseen = n]
  BY DEF Predicted
<1> HIDE DEF h, n, p
<1>4. p.id = t.id /\ p.life = t.life /\ p.hits = h /\ p.unseen = n
  BY <1>1, <1>3 DEF Tracks
<1>5. p \in Tracks
  BY <1>1, <1>2, <1>3 DEF Tracks
<1> QED
  BY <1>1, <1>2, <1>4, <1>5 DEF Sane, p, n

(* A track updated with a detection was just seen.                         *)
LEMMA UpdatedTrack ==
  ASSUME NEW t \in Tracks, NEW moved \in BOOLEAN
  PROVE  /\ Updated(t, moved) \in Tracks
         /\ Updated(t, moved).id = t.id
         /\ Updated(t, moved).life = t.life
         /\ Updated(t, moved).unseen = 0
<1> DEFINE u == Updated(t, moved)
           h == UpTo(MinHits, t.hits + 1)
           s == IF moved THEN 0 ELSE UpTo(StationaryHits, t.still + 1)
<1>1. t.hits \in 0 .. MinHits /\ t.still \in 0 .. StationaryHits
  BY DEF Tracks
<1>2. h \in 0 .. MinHits /\ s \in 0 .. StationaryHits
  BY <1>1, Ages DEF UpTo
<1>3. u = [t EXCEPT !.unseen = 0, !.hits = h, !.still = s]
  BY DEF Updated
<1> HIDE DEF u, h, s
<1>4. u \in Tracks /\ u.id = t.id /\ u.life = t.life /\ u.unseen = 0
  BY <1>2, <1>3 DEF Tracks
<1> QED
  BY <1>4 DEF u

(* After the hits are compared no tentative track has enough of them.      *)
LEMMA ConfirmedTrack ==
  ASSUME NEW t \in Tracks
  PROVE  /\ Sane(Confirmed(t))
         /\ Confirmed(t).id = t.id
         /\ Confirmed(t).unseen = t.unseen
         /\ t.life = "Confirmed" => Confirmed(t).life = "Confirmed"
         /\ Confirmed(t).life \in {t.life, "Confirmed"}
<1>1. t.hits \in 0 .. MinHits
  BY DEF Tracks
<1>2. t.hits >= MinHits \/ t.hits < MinHits
  BY <1>1, Ages
<1>3. CASE t.hits >= MinHits
  <2> DEFINE c == [t EXCEPT !.life = "Confirmed"]
  <2>1. /\ c \in Tracks /\ c.id = t.id /\ c.unseen = t.unseen
        /\ c.life = "Confirmed"
    BY DEF Tracks
  <2>2. Confirmed(t) = c
    BY <1>3 DEF Confirmed
  <2> HIDE DEF c
  <2> QED
    BY <2>1, <2>2 DEF Sane
<1>4. CASE t.hits < MinHits
  <2>1. ~(t.hits >= MinHits)
    BY <1>1, <1>4, Ages
  <2>2. Confirmed(t) = t
    BY <2>1 DEF Confirmed
  <2> QED
    BY <1>4, <2>2 DEF Sane
<1> QED
  BY <1>2, <1>3, <1>4

(* A track of the first association was just seen.                         *)
LEMMA FoundTrack ==
  ASSUME NEW t \in Tracks, NEW moved \in BOOLEAN
  PROVE  /\ Sane(Found(t, moved))
         /\ Found(t, moved).id = t.id
         /\ Found(t, moved).unseen = 0
         /\ Found(t, moved).life \in {t.life, "Confirmed"}
BY UpdatedTrack, ConfirmedTrack DEF Found

(* A track of the second association is confirmed whatever its hits.       *)
LEMMA ReactivatedTrack ==
  ASSUME NEW t \in Tracks, NEW moved \in BOOLEAN
  PROVE  /\ Sane(Reactivated(t, moved))
         /\ Reactivated(t, moved).id = t.id
         /\ Reactivated(t, moved).unseen = 0
         /\ Reactivated(t, moved).life = "Confirmed"
<1> DEFINE u == Updated(t, moved)
           r == [u EXCEPT !.life = "Confirmed"]
<1>1. u \in Tracks /\ u.id = t.id /\ u.unseen = 0
  BY UpdatedTrack
<1>2. Reactivated(t, moved) = r
  BY DEF Reactivated
<1> HIDE DEF u
<1>3. r \in Tracks /\ r.id = t.id /\ r.unseen = 0 /\ r.life = "Confirmed"
  BY <1>1 DEF Tracks
<1> HIDE DEF r
<1> QED
  BY <1>2, <1>3 DEF Sane

(* A new track was just seen.                                              *)
LEMMA CreatedTrack ==
  ASSUME NEW id \in 1 .. MaxId
  PROVE  /\ Sane(Created(id))
         /\ Created(id).id = id
         /\ Created(id).unseen = 0
         /\ Created(id).life \in {"Tentative", "Confirmed"}
<1> DEFINE t == [id |-> id, life |-> "Tentative", unseen |-> 0,
                 hits |-> 0, still |-> 0]
<1>1. t \in Tracks /\ t.id = id /\ t.life = "Tentative"
  BY Ages DEF Tracks
<1>2. Created(id) = Confirmed(Updated(t, FALSE))
  BY DEF Created
<1> HIDE DEF t
<1>3. /\ Updated(t, FALSE) \in Tracks /\ Updated(t, FALSE).id = id
      /\ Updated(t, FALSE).unseen = 0
      /\ Updated(t, FALSE).life = "Tentative"
  BY <1>1, UpdatedTrack
<1> QED
  BY <1>2, <1>3, ConfirmedTrack

(* The last loop makes a track dormant or leaves it.                       *)
LEMMA AgedTrack ==
  ASSUME NEW t, Sane(t), NEW occluded \in Nat
  PROVE  /\ Sane(Aged(t, occluded))
         /\ Aged(t, occluded).id = t.id
         /\ Aged(t, occluded).unseen = t.unseen
         /\ t.life = "Tentative" <=> Aged(t, occluded).life = "Tentative"
         /\ t.life = "Dormant" => Aged(t, occluded).life = "Dormant"
         /\ Aged(t, occluded).life = "Confirmed" =>
              t.unseen <= EffectiveAge(t, occluded)
<1>1. /\ t \in Tracks /\ t.unseen \in Nat /\ t.hits \in 0 .. MinHits
      /\ t.life \in {"Tentative", "Confirmed", "Dormant"}
  BY DEF Sane, Tracks
<1>2. CASE t.life = "Tentative"
  <2>1. ~(t.hits >= MinHits)
    BY <1>1, <1>2, Ages DEF Sane
  <2>2. Aged(t, occluded) = t
    BY <1>2, <2>1 DEF Aged, Confirmed
  <2> QED
    BY <1>2, <2>2
<1>3. EffectiveAge(t, occluded) \in Nat
  BY Ages DEF EffectiveAge, Larger
<1>4. CASE t.life = "Confirmed" /\ t.unseen > EffectiveAge(t, occluded)
  <2> DEFINE d == [t EXCEPT !.life = "Dormant"]
  <2>1. /\ d \in Tracks /\ d.id = t.id /\ d.unseen = t.unseen
        /\ d.life = "Dormant"
    BY <1>1 DEF Tracks
  <2>2. Aged(t, occluded) = d
    BY <1>4 DEF Aged
  <2> HIDE DEF d
  <2> QED
    BY <1>4, <2>1, <2>2 DEF Sane
<1>5. CASE t.life = "Confirmed" /\ ~(t.unseen > EffectiveAge(t, occluded))
  <2>1. Aged(t, occluded) = t
    BY <1>5 DEF Aged
  <2>2. t.unseen <= EffectiveAge(t, occluded)
    BY <1>1, <1>3, <1>5
  <2> QED
    BY <1>5, <2>1, <2>2
<1>6. CASE t.life = "Dormant"
  <2>1. Aged(t, occluded) = t
    BY <1>6 DEF Aged
  <2> QED
    BY <1>6, <2>1
<1> QED
  BY <1>1, <1>2, <1>4, <1>5, <1>6
-----------------------------------------------------------------------------
(* The associations of one frame.                                          *)

(* No detection and no track is matched twice.                             *)
LEMMA MatchesFit ==
  ASSUME NEW D \in SUBSET Nat, IsFiniteSet(D),
         NEW positions \in SUBSET Nat, IsFiniteSet(positions),
         NEW f \in Matches(D, positions)
  PROVE  /\ DOMAIN f \subseteq D
         /\ Range(f) \subseteq positions
         /\ \A d \in DOMAIN f : f[d] \in Range(f)
         /\ \A d, e \in DOMAIN f : f[d] = f[e] => d = e
<1>1. PICK P \in SUBSET positions :
        Cardinality(P) <= Cardinality(D) /\ f = InOrder(D, P)
  BY DEF Matches
<1>2. IsFiniteSet(P) /\ P \in SUBSET Nat
  BY FS_Subset
<1>3. /\ DOMAIN f = {d \in D : Rank(d, D) < Cardinality(P)}
      /\ \A d \in DOMAIN f : f[d] \in P
      /\ \A d, e \in DOMAIN f : f[d] = f[e] => d = e
  BY <1>1, <1>2, InOrderFits
<1> QED
  BY <1>3 DEF Range

(* What the associations make of the track at k.                           *)
Handled(tracks, primary, second, moved, k) ==
  IF k \in Range(primary) THEN Found(Predicted(tracks[k]), k \in moved)
  ELSE IF k \in Range(second)
         THEN Reactivated(Predicted(tracks[k]), k \in moved)
  ELSE Predicted(tracks[k])

(* The detections left over can be counted.                                *)
LEMMA FreshIsFinite ==
  ASSUME NEW n \in Nat, NEW primary, NEW second
  PROVE  /\ IsFiniteSet(Fresh(n, primary, second))
         /\ Cardinality(Fresh(n, primary, second)) \in Nat
         /\ Fresh(n, primary, second) \in SUBSET (1 .. n)
         /\ Fresh(n, primary, second) \in SUBSET Nat
<1>1. IsFiniteSet(1 .. n) /\ 1 .. n \in SUBSET Nat
  BY FS_Interval
<1>2. Fresh(n, primary, second) \in SUBSET (1 .. n)
  BY DEF Fresh
<1> QED
  BY <1>1, <1>2, FS_Subset, FS_CardinalityType

(* Two functions on 1 .. m and 1 .. c, one after the other.                *)
LEMMA Appended ==
  ASSUME NEW m \in Nat, NEW c \in Nat, NEW f, NEW g,
         DOMAIN f = 1 .. m, DOMAIN g = 1 .. c,
         f = [k \in 1 .. m |-> f[k]], g = [k \in 1 .. c |-> g[k]]
  PROVE  /\ Len(f) = m
         /\ Len(f \o g) = m + c
         /\ DOMAIN (f \o g) = 1 .. m + c
         /\ \A k \in 1 .. m : (f \o g)[k] = f[k]
         /\ \A k \in 1 .. c : (f \o g)[m + k] = g[k]
<1> DEFINE S == {f[k] : k \in 1 .. m} \cup {g[k] : k \in 1 .. c}
<1>1. f \in Seq(S)
  BY IsASeq
<1>2. g \in Seq(S)
  BY IsASeq
<1> HIDE DEF S
<1>3. Len(f) = m /\ Len(g) = c
  BY <1>1, <1>2, LenProperties
<1>4. /\ Len(f \o g) = m + c
      /\ f \o g \in Seq(S)
      /\ \A i \in 1 .. m + c :
           (f \o g)[i] = IF i <= m THEN f[i] ELSE g[i - m]
  BY <1>1, <1>2, <1>3, ConcatProperties
<1>5. DOMAIN (f \o g) = 1 .. m + c
  BY <1>4, LenProperties
<1>6. ASSUME NEW k \in 1 .. m PROVE (f \o g)[k] = f[k]
  <2>1. k \in 1 .. m + c /\ k <= m
    OBVIOUS
  <2> QED
    BY <1>4, <2>1
<1>7. ASSUME NEW k \in 1 .. c PROVE (f \o g)[m + k] = g[k]
  <2>1. m + k \in 1 .. m + c /\ ~(m + k <= m) /\ m + k - m = k
    OBVIOUS
  <2> QED
    BY <1>4, <2>1
<1> QED
  BY <1>3, <1>4, <1>5, <1>6, <1>7

(* The list after the associations, position by position.                  *)
LEMMA AssociatedTracks ==
  ASSUME NEW m \in Nat, NEW tracks, DOMAIN tracks = 1 .. m,
         NEW n \in Nat, NEW primary, NEW second, NEW moved, NEW id \in Nat
  PROVE  LET all == Associated(tracks, n, primary, second, moved, id)
             c == Cardinality(Fresh(n, primary, second))
         IN  /\ Len(all) = m + c
             /\ DOMAIN all = 1 .. m + c
             /\ \A k \in 1 .. m :
                  all[k] = Handled(tracks, primary, second, moved, k)
             /\ \A i \in 1 .. c : all[m + i] = Created(id + i - 1)
<1> DEFINE old == [k \in 1 .. m |->
                     Handled(tracks, primary, second, moved, k)]
           c == Cardinality(Fresh(n, primary, second))
           fresh == [i \in 1 .. c |-> Created(id + i - 1)]
<1>1. c \in Nat
  BY FreshIsFinite
<1>2. Associated(tracks, n, primary, second, moved, id) = old \o fresh
  BY DEF Associated, Handled, Fresh
<1>3. DOMAIN old = 1 .. m /\ DOMAIN fresh = 1 .. c
  OBVIOUS
<1>4. old = [k \in 1 .. m |-> old[k]] /\ fresh = [i \in 1 .. c |-> fresh[i]]
  OBVIOUS
<1>5. /\ \A k \in 1 .. m :
           old[k] = Handled(tracks, primary, second, moved, k)
      /\ \A i \in 1 .. c : fresh[i] = Created(id + i - 1)
  OBVIOUS
<1> HIDE DEF old, c, fresh
<1>6. /\ Len(old \o fresh) = m + c
      /\ DOMAIN (old \o fresh) = 1 .. m + c
      /\ \A k \in 1 .. m : (old \o fresh)[k] = old[k]
      /\ \A k \in 1 .. c : (old \o fresh)[m + k] = fresh[k]
  BY <1>1, <1>3, <1>4, Appended
<1> QED
  BY <1>2, <1>5, <1>6 DEF c
-----------------------------------------------------------------------------
(* The list of the tracker from frame to frame.                            *)

(* Ids increase along the list and stay below the next one; a tentative    *)
(* track has too few hits.                                                 *)
ListInv ==
  /\ trackers \in Seq(Tracks)
  /\ \A k \in DOMAIN trackers : Sane(trackers[k])
  /\ \A k, l \in DOMAIN trackers : k < l => trackers[k].id < trackers[l].id
  /\ \A k \in DOMAIN trackers : trackers[k].id < nextId
  /\ nextId \in 1 .. MaxId + 1
  /\ DOMAIN occlusion = DOMAIN trackers
  /\ \A k \in DOMAIN occlusion : occlusion[k] \in 0 .. MaxOcclusion

(* An update with its choices.                                             *)
Round(n, primary, second, moved) ==
  /\ n \in 0 .. MaxDetections
  /\ primary \in Matches(1 .. n, Active(trackers))
  /\ second \in Matches(Unmatched(n, primary), Dormant(trackers))
  /\ Update(n, primary, second, moved)

After(n, primary, second, moved) ==
  Associated(trackers, n, primary, second, moved, nextId)

Matched(primary, second) == Range(primary) \cup Range(second)

New(n, primary, second) == Cardinality(Fresh(n, primary, second))

(* The list has a length, and the next id is a number.                     *)
LEMMA ListShape ==
  ASSUME ListInv
  PROVE  /\ Len(trackers) \in Nat
         /\ DOMAIN trackers = 1 .. Len(trackers)
         /\ nextId \in Nat
BY LenProperties, Ages DEF ListInv

(* No detection and no track is in both associations or in one twice.      *)
LEMMA RoundMatches ==
  ASSUME ListInv, NEW n, NEW primary, NEW second, NEW moved,
         Round(n, primary, second, moved)
  PROVE  /\ n \in Nat
         /\ DOMAIN primary \subseteq 1 .. n
         /\ DOMAIN second \subseteq (1 .. n) \ DOMAIN primary
         /\ Range(primary) \subseteq Active(trackers)
         /\ Range(second) \subseteq Dormant(trackers)
         /\ \A d \in DOMAIN primary : primary[d] \in Range(primary)
         /\ \A d \in DOMAIN second : second[d] \in Range(second)
         /\ \A d, e \in DOMAIN primary : primary[d] = primary[e] => d = e
         /\ \A d, e \in DOMAIN second : second[d] = second[e] => d = e
<1>1. n \in Nat
  BY MaxDetectionsAssumption DEF Round
<1>2. /\ IsFiniteSet(DOMAIN trackers) /\ DOMAIN trackers \in SUBSET Nat
      /\ IsFiniteSet(1 .. n) /\ 1 .. n \in SUBSET Nat
  <2>1. \A m \in Nat : IsFiniteSet(1 .. m) /\ 1 .. m \in SUBSET Nat
    BY FS_Interval
  <2> QED
    BY <1>1, <2>1, ListShape
<1>3. /\ Active(trackers) \in SUBSET DOMAIN trackers
      /\ Dormant(trackers) \in SUBSET DOMAIN trackers
  BY DEF Active, Dormant, Positions
<1>4. /\ IsFiniteSet(Active(trackers)) /\ Active(trackers) \in SUBSET Nat
      /\ IsFiniteSet(Dormant(trackers)) /\ Dormant(trackers) \in SUBSET Nat
  BY <1>2, <1>3, FS_Subset
<1>5. /\ Unmatched(n, primary) = (1 .. n) \ DOMAIN primary
      /\ Unmatched(n, primary) \in SUBSET (1 .. n)
  BY DEF Unmatched
<1>6. /\ IsFiniteSet(Unmatched(n, primary))
      /\ Unmatched(n, primary) \in SUBSET Nat
  BY <1>2, <1>5, FS_Subset
<1>7. /\ DOMAIN primary \subseteq 1 .. n
      /\ Range(primary) \subseteq Active(trackers)
      /\ \A d \in DOMAIN primary : primary[d] \in Range(primary)
      /\ \A d, e \in DOMAIN primary : primary[d] = primary[e] => d = e
  <2>1. primary \in Matches(1 .. n, Active(trackers))
    BY DEF Round
  <2> QED
    BY <1>2, <1>4, <2>1, MatchesFit
<1>8. /\ DOMAIN second \subseteq Unmatched(n, primary)
      /\ Range(second) \subseteq Dormant(trackers)
      /\ \A d \in DOMAIN second : second[d] \in Range(second)
      /\ \A d, e \in DOMAIN second : second[d] = second[e] => d = e
  <2>1. second \in Matches(Unmatched(n, primary), Dormant(trackers))
    BY DEF Round
  <2> QED
    BY <1>4, <1>6, <2>1, MatchesFit
<1> QED
  BY <1>1, <1>5, <1>7, <1>8

(* After the associations: the tracks that were there, seen or not, and    *)
(* the new ones.                                                           *)
LEMMA OldTracks ==
  ASSUME ListInv, NEW n, NEW primary, NEW second, NEW moved,
         Round(n, primary, second, moved), NEW k \in 1 .. Len(trackers)
  PROVE  LET u == After(n, primary, second, moved)[k]
             t == trackers[k]
         IN  /\ Sane(u) /\ u.id = t.id
             /\ t.life # "Tentative" => u.life # "Tentative"
             /\ k \in Matched(primary, second) => u.unseen = 0
             /\ k \notin Matched(primary, second) =>
                  u.unseen = t.unseen + 1 /\ u.life = t.life
<1> DEFINE t == trackers[k]
           p == Predicted(t)
           u == After(n, primary, second, moved)[k]
<1>1. /\ DOMAIN trackers = 1 .. Len(trackers) /\ Len(trackers) \in Nat
      /\ nextId \in Nat
  BY ListShape
<1>2. n \in Nat
  BY RoundMatches
<1>3. u = Handled(trackers, primary, second, moved, k)
  BY <1>1, <1>2, AssociatedTracks DEF After
<1>4. Sane(t)
  BY <1>1 DEF ListInv
<1> HIDE DEF t
<1>5. /\ Sane(p) /\ p.id = t.id /\ p.life = t.life
      /\ p.unseen = t.unseen + 1
  BY <1>4, PredictedTrack
<1>6. p \in Tracks /\ (k \in moved) \in BOOLEAN
  BY <1>5 DEF Sane
<1> HIDE DEF p, u
<1>7. CASE k \in Range(primary)
  <2>1. u = Found(p, k \in moved)
    BY <1>3, <1>7 DEF Handled, p, t
  <2>2. /\ Sane(u) /\ u.id = t.id /\ u.unseen = 0
        /\ u.life \in {t.life, "Confirmed"}
    BY <1>5, <1>6, <2>1, FoundTrack
  <2>3. k \in Matched(primary, second)
    BY <1>7 DEF Matched
  <2> QED
    BY <2>2, <2>3 DEF u, t
<1>8. CASE k \notin Range(primary) /\ k \in Range(second)
  <2>1. u = Reactivated(p, k \in moved)
    BY <1>3, <1>8 DEF Handled, p, t
  <2>2. /\ Sane(u) /\ u.id = t.id /\ u.unseen = 0
        /\ u.life = "Confirmed"
    BY <1>5, <1>6, <2>1, ReactivatedTrack
  <2>3. k \in Matched(primary, second)
    BY <1>8 DEF Matched
  <2> QED
    BY <2>2, <2>3 DEF u, t
<1>9. CASE k \notin Matched(primary, second)
  <2>1. u = p
    BY <1>3, <1>9 DEF Handled, p, t, Matched
  <2> QED
    BY <1>5, <1>9, <2>1 DEF u, t
<1> QED
  BY <1>7, <1>8, <1>9 DEF Matched

(* The new tracks have the next ids, in the order of the detections.       *)
LEMMA NewTracks ==
  ASSUME ListInv, NEW n, NEW primary, NEW second, NEW moved,
         Round(n, primary, second, moved),
         NEW i \in 1 .. New(n, primary, second)
  PROVE  LET u == After(n, primary, second, moved)[Len(trackers) + i]
         IN  Sane(u) /\ u.id = nextId + i - 1 /\ u.unseen = 0
<1>1. /\ DOMAIN trackers = 1 .. Len(trackers) /\ Len(trackers) \in Nat
      /\ nextId \in Nat /\ nextId \in 1 .. MaxId + 1 /\ MaxId \in Nat
  BY ListShape, Ages DEF ListInv
<1>2. n \in Nat
  BY RoundMatches
<1>3. New(n, primary, second) \in Nat
  BY <1>2, FreshIsFinite DEF New
<1>4. /\ After(n, primary, second, moved)[Len(trackers) + i]
           = Created(nextId + i - 1)
      /\ Len(After(n, primary, second, moved))
           = Len(trackers) + New(n, primary, second)
  BY <1>1, <1>2, AssociatedTracks DEF After, New
<1>5. nextId + (Len(After(n, primary, second, moved)) - Len(trackers))
        <= MaxId + 1
  BY DEF Round, Update, After
<1>6. nextId + New(n, primary, second) <= MaxId + 1
  BY <1>1, <1>3, <1>4, <1>5
<1>7. nextId + i - 1 \in 1 .. MaxId
  BY <1>1, <1>3, <1>6
<1> QED
  BY <1>4, <1>7, CreatedTrack

(* Ids increase over the old tracks and the new ones.                      *)
LEMMA IdsIncrease ==
  ASSUME ListInv, NEW n, NEW primary, NEW second, NEW moved,
         Round(n, primary, second, moved)
  PROVE  LET all == After(n, primary, second, moved)
             c == New(n, primary, second)
         IN  /\ c \in Nat /\ Len(all) - Len(trackers) = c
             /\ nextId + c <= MaxId + 1
             /\ DOMAIN all = 1 .. Len(trackers) + c
             /\ \A k \in DOMAIN all : Sane(all[k]) /\ all[k].id < nextId + c
             /\ \A k, l \in DOMAIN all : k < l => all[k].id < all[l].id
<1> DEFINE all == After(n, primary, second, moved)
           c == New(n, primary, second)
           m == Len(trackers)
<1>1. /\ m \in Nat /\ DOMAIN trackers = 1 .. m /\ nextId \in Nat
  BY ListShape
<1>2. n \in Nat
  BY RoundMatches
<1>3. c \in Nat
  BY <1>2, FreshIsFinite DEF New
<1>4. Len(all) = m + c /\ DOMAIN all = 1 .. m + c
  BY <1>1, <1>2, AssociatedTracks DEF After, New
<1>5. \A k \in 1 .. m : Sane(all[k]) /\ all[k].id = trackers[k].id
  BY OldTracks
<1>6. \A i \in 1 .. c : Sane(all[m + i]) /\ all[m + i].id = nextId + i - 1
  BY NewTracks
<1>7. \A k \in 1 .. m : trackers[k].id \in Nat /\ trackers[k].id < nextId
  BY <1>1 DEF ListInv, Sane, Tracks
<1>8. \A k, l \in 1 .. m : k < l => trackers[k].id < trackers[l].id
  BY <1>1 DEF ListInv
<1>9. nextId + (Len(all) - m) <= MaxId + 1
  BY DEF Round, Update, After
<1> HIDE DEF all, c, m
<1>10. ASSUME NEW k \in 1 .. m + c
       PROVE  \/ k \in 1 .. m
              \/ k - m \in 1 .. c /\ k = m + (k - m)
  BY <1>1, <1>3
<1>11. ASSUME NEW k \in 1 .. m + c, k \notin 1 .. m
       PROVE  Sane(all[k]) /\ all[k].id = nextId + (k - m) - 1
  <2>1. k - m \in 1 .. c /\ k = m + (k - m)
    BY <1>10, <1>11
  <2> QED
    BY <1>6, <2>1
<1>12. ASSUME NEW k \in 1 .. m + c
       PROVE  Sane(all[k]) /\ all[k].id < nextId + c
  <2>1. CASE k \in 1 .. m
    BY <1>1, <1>3, <1>5, <1>7, <2>1
  <2>2. CASE k \notin 1 .. m
    <3>1. k - m \in 1 .. c
      BY <1>10, <2>2
    <3>2. Sane(all[k]) /\ all[k].id = nextId + (k - m) - 1
      BY <1>11, <2>2
    <3> QED
      BY <1>1, <1>3, <3>1, <3>2
  <2> QED
    BY <2>1, <2>2
<1>13. ASSUME NEW k \in 1 .. m + c, NEW l \in 1 .. m + c, k < l
       PROVE  all[k].id < all[l].id
  <2>1. CASE k \in 1 .. m /\ l \in 1 .. m
    BY <1>5, <1>8, <1>13, <2>1
  <2>2. CASE k \in 1 .. m /\ l \notin 1 .. m
    <3>1. l - m \in 1 .. c
      BY <1>10, <2>2
    <3>2. all[l].id = nextId + (l - m) - 1
      BY <1>11, <2>2
    <3>3. all[k].id \in Nat /\ all[k].id < nextId
      BY <1>5, <1>7, <2>2
    <3> QED
      BY <1>1, <1>3, <3>1, <3>2, <3>3
  <2>3. CASE k \notin 1 .. m
    <3>1. l \notin 1 .. m
      BY <1>1, <1>3, <1>13, <2>3
    <3>2. /\ all[k].id = nextId + (k - m) - 1
          /\ all[l].id = nextId + (l - m) - 1
      BY <1>11, <2>3, <3>1
    <3> QED
      BY <1>1, <1>3, <1>13, <3>2
  <2> QED
    BY <2>1, <2>2, <2>3
<1>14. Len(all) - m = c /\ nextId + c <= MaxId + 1
  BY <1>1, <1>3, <1>4, <1>9
<1> QED
  BY <1>3, <1>4, <1>12, <1>13, <1>14 DEF all, c, m

(* What is left in the list, and where it comes from.                      *)
LEMMA RoundOutcome ==
  ASSUME ListInv, NEW n, NEW primary, NEW second, NEW moved,
         Round(n, primary, second, moved)
  PROVE  LET all == After(n, primary, second, moved)
             kept == Kept(all)
         IN  /\ \E c \in Nat : DOMAIN kept = 1 .. c
             /\ DOMAIN trackers' = DOMAIN kept
             /\ DOMAIN occlusion' = DOMAIN kept
             /\ trackers' = [i \in DOMAIN kept |-> trackers'[i]]
             /\ \A i \in DOMAIN kept :
                  /\ kept[i] \in DOMAIN all /\ ~Erased(all[kept[i]])
                  /\ occlusion'[i] \in 0 .. MaxOcclusion
                  /\ trackers'[i] = Aged(all[kept[i]], occlusion'[i])
             /\ \A k \in DOMAIN all : ~Erased(all[k]) =>
                  \E i \in DOMAIN kept : kept[i] = k
             /\ \A i, j \in DOMAIN kept : i < j => kept[i] < kept[j]
<1> DEFINE all == After(n, primary, second, moved)
           kept == Kept(all)
           matched == Matched(primary, second)
           judged == Judged(kept, Len(trackers), matched)
           before(k) == IF k \in matched \/ k > Len(trackers)
                          THEN 0 ELSE occlusion[k]
<1>1. PICK c \in Nat : DOMAIN all = 1 .. c /\ c >= Len(trackers)
  BY IdsIncrease, ListShape
<1>2. /\ \E d \in Nat : DOMAIN kept = 1 .. d
      /\ \A i \in DOMAIN kept : kept[i] \in 1 .. c /\ ~Erased(all[kept[i]])
      /\ \A k \in 1 .. c : ~Erased(all[k]) =>
           \E i \in DOMAIN kept : kept[i] = k
      /\ \A i, j \in DOMAIN kept : i < j => kept[i] < kept[j]
  <2> HIDE DEF all
  <2> QED
    BY <1>1, KeptFits
<1>3. /\ \E hidden \in SUBSET judged :
           occlusion' = [i \in DOMAIN kept |->
             IF i \in judged THEN OcclusionAfter(before(kept[i]), i \in hidden)
                             ELSE before(kept[i])]
      /\ trackers' = [i \in DOMAIN kept |-> Aged(all[kept[i]], occlusion'[i])]
  BY DEF Round, Update, After, Matched
<1>4. /\ Len(trackers) \in Nat /\ DOMAIN occlusion = 1 .. Len(trackers)
      /\ \A k \in 1 .. Len(trackers) : occlusion[k] \in 0 .. MaxOcclusion
  BY ListShape DEF ListInv
<1> HIDE DEF all, kept, judged, matched
<1>5. ASSUME NEW i \in DOMAIN kept
      PROVE  before(kept[i]) \in 0 .. MaxOcclusion
  <2>1. kept[i] \in 1 .. c
    BY <1>2
  <2>2. CASE kept[i] \in matched \/ kept[i] > Len(trackers)
    BY <2>2, Ages
  <2>3. CASE ~(kept[i] \in matched \/ kept[i] > Len(trackers))
    <3>1. kept[i] \in 1 .. Len(trackers)
      BY <1>1, <1>4, <2>1, <2>3
    <3> QED
      BY <1>4, <2>3, <3>1
  <2> QED
    BY <2>2, <2>3
<1>6. \A b \in 0 .. MaxOcclusion, h \in BOOLEAN :
        OcclusionAfter(b, h) \in 0 .. MaxOcclusion
  BY Ages DEF OcclusionAfter, UpTo, Larger
<1> HIDE DEF before
<1>7. DOMAIN occlusion' = DOMAIN kept
  BY <1>3
<1>8. \A i \in DOMAIN kept : occlusion'[i] \in 0 .. MaxOcclusion
  <2>1. PICK hidden \in SUBSET judged :
          occlusion' = [i \in DOMAIN kept |->
            IF i \in judged THEN OcclusionAfter(before(kept[i]), i \in hidden)
                            ELSE before(kept[i])]
    BY <1>3
  <2>2. ASSUME NEW i \in DOMAIN kept
        PROVE  occlusion'[i] \in 0 .. MaxOcclusion
    <3>1. (i \in hidden) \in BOOLEAN
      OBVIOUS
    <3>2. OcclusionAfter(before(kept[i]), i \in hidden) \in 0 .. MaxOcclusion
      BY <1>5, <1>6, <3>1
    <3> QED
      BY <1>5, <2>1, <3>2
  <2> QED
    BY <2>2
<1>9. DOMAIN trackers' = DOMAIN kept
      /\ trackers' = [i \in DOMAIN kept |-> trackers'[i]]
      /\ \A i \in DOMAIN kept :
           trackers'[i] = Aged(all[kept[i]], occlusion'[i])
  BY <1>3
<1> QED
  BY <1>1, <1>2, <1>7, <1>8, <1>9 DEF all, kept

(* An update keeps the list in order.                                      *)
LEMMA RoundListInv ==
  ASSUME ListInv, NEW n, NEW primary, NEW second, NEW moved,
         Round(n, primary, second, moved)
  PROVE  ListInv'
<1> DEFINE all == After(n, primary, second, moved)
           kept == Kept(all)
           f == New(n, primary, second)
<1>1. /\ f \in Nat /\ Len(all) - Len(trackers) = f
      /\ nextId + f <= MaxId + 1
      /\ \A k \in DOMAIN all : Sane(all[k]) /\ all[k].id < nextId + f
      /\ \A k, l \in DOMAIN all : k < l => all[k].id < all[l].id
  BY IdsIncrease
<1>2. /\ \E c \in Nat : DOMAIN kept = 1 .. c
      /\ DOMAIN trackers' = DOMAIN kept
      /\ DOMAIN occlusion' = DOMAIN kept
      /\ trackers' = [i \in DOMAIN kept |-> trackers'[i]]
      /\ \A i \in DOMAIN kept :
           /\ kept[i] \in DOMAIN all /\ ~Erased(all[kept[i]])
           /\ occlusion'[i] \in 0 .. MaxOcclusion
           /\ trackers'[i] = Aged(all[kept[i]], occlusion'[i])
      /\ \A i, j \in DOMAIN kept : i < j => kept[i] < kept[j]
  BY RoundOutcome
<1>3. nextId' = nextId + (Len(all) - Len(trackers))
  BY DEF Round, Update, After, AfterAll
<1>4. nextId' = nextId + f
  BY <1>1, <1>3
<1>5. nextId' \in 1 .. MaxId + 1
  BY <1>1, <1>4, Ages DEF ListInv
<1> HIDE DEF all, kept, f
<1>6. ASSUME NEW i \in DOMAIN kept
      PROVE  Sane(trackers'[i]) /\ trackers'[i].id = all[kept[i]].id
  <2>1. Sane(all[kept[i]]) /\ occlusion'[i] \in Nat
    BY <1>1, <1>2, Ages
  <2> QED
    BY <1>2, <2>1, AgedTrack
<1>7. PICK c \in Nat : DOMAIN kept = 1 .. c
  BY <1>2
<1>8. trackers' \in Seq(Tracks)
  <2>1. \A i \in 1 .. c : trackers'[i] \in Tracks
    BY <1>6, <1>7 DEF Sane
  <2>2. [i \in 1 .. c |-> trackers'[i]] \in Seq(Tracks)
    BY <2>1, IsASeq
  <2> QED
    BY <1>2, <1>7, <2>2
<1>9. \A k \in DOMAIN trackers' : Sane(trackers'[k])
  BY <1>2, <1>6
<1>10. \A k, l \in DOMAIN trackers' :
         k < l => trackers'[k].id < trackers'[l].id
  BY <1>1, <1>2, <1>6
<1>11. \A k \in DOMAIN trackers' : trackers'[k].id < nextId'
  BY <1>1, <1>2, <1>4, <1>6
<1> QED
  BY <1>2, <1>5, <1>8, <1>9, <1>10, <1>11 DEF ListInv

(* What a step of the frame path does to the tracker: an update, or        *)
(* nothing and no labels, or nothing at all.                               *)
LEMMA StepsOfTheTracker ==
  ASSUME [PathNext]_pathVars
  PROVE  \/ \E n, primary, second, moved : Round(n, primary, second, moved)
         \/ labels' = <<>> /\ UNCHANGED <<trackers, occlusion, nextId>>
         \/ UNCHANGED tracking
<1>1. CASE PathMemoryChanges
  BY <1>1 DEF PathMemoryChanges
<1>2. CASE PathFrame
  <2>1. CASE TrackerUpdates
    BY <2>1 DEF TrackerUpdates, Round
  <2>2. CASE labels' = <<>> /\ UNCHANGED <<trackers, occlusion, nextId>>
    BY <2>2
  <2> QED
    BY <1>2, <2>1, <2>2 DEF PathFrame
<1>3. CASE PathFrameHangs
  BY <1>3 DEF PathFrameHangs
<1>4. CASE UNCHANGED pathVars
  BY <1>4 DEF pathVars
<1> QED
  BY <1>1, <1>2, <1>3, <1>4 DEF PathNext

(* The tracker starts with an empty list.                                  *)
LEMMA InitListInv == PathInit => ListInv
<1> SUFFICES ASSUME PathInit PROVE ListInv
  OBVIOUS
<1>1. trackers = <<>> /\ occlusion = <<>> /\ nextId = 1
  BY DEF PathInit
<1>2. trackers \in Seq(Tracks) /\ DOMAIN trackers = {}
      /\ DOMAIN occlusion = {}
  BY <1>1
<1> QED
  BY <1>1, <1>2, Ages DEF ListInv

(* The list is in order from frame to frame.                               *)
LEMMA NextListInv == ListInv /\ [PathNext]_pathVars => ListInv'
<1> SUFFICES ASSUME ListInv, [PathNext]_pathVars PROVE ListInv'
  OBVIOUS
<1>1. ASSUME NEW n, NEW primary, NEW second, NEW moved,
             Round(n, primary, second, moved)
      PROVE  ListInv'
  BY <1>1, RoundListInv
<1>2. ASSUME UNCHANGED <<trackers, occlusion, nextId>> PROVE ListInv'
  BY <1>2 DEF ListInv
<1> QED
  BY <1>1, <1>2, StepsOfTheTracker DEF tracking
-----------------------------------------------------------------------------
(* Ghosts and the remembered.                                              *)

(* How long a track of each life may have been unseen.                     *)
Longest(t) ==
  CASE t.life = "Tentative" -> 1
    [] t.life = "Confirmed" -> Unseen - 1
    [] t.life = "Dormant" -> Unseen

(* The ages of the last loop are within the ages of Longest.               *)
LEMMA LongestAges ==
  /\ Unseen \in Nat /\ Unseen >= 1
  /\ DormantAge \in Nat /\ DormantAge <= Unseen
  /\ \A t, n : Stationary(t) \in BOOLEAN =>
       /\ EffectiveAge(t, n) \in Nat
       /\ EffectiveAge(t, n) <= Unseen - 1
BY Ages, DormantAgeIsNat DEF Unseen, Larger, EffectiveAge

(* A track that passed the loop is no older than its life allows.          *)
LEMMA AgedInTime ==
  ASSUME NEW t, Sane(t), ~Erased(t), NEW occluded \in Nat,
         t.life = "Confirmed" => t.unseen <= Unseen
  PROVE  Aged(t, occluded).unseen <= Longest(Aged(t, occluded))
<1> DEFINE a == Aged(t, occluded)
<1>1. /\ t \in Tracks /\ t.unseen \in Nat /\ t.hits \in 0 .. MinHits
      /\ t.life \in {"Tentative", "Confirmed", "Dormant"}
      /\ t.life = "Tentative" => t.hits < MinHits
  BY DEF Sane, Tracks
<1>2. /\ a \in Tracks /\ a.unseen = t.unseen
      /\ t.life = "Tentative" <=> a.life = "Tentative"
      /\ t.life = "Dormant" => a.life = "Dormant"
      /\ a.life = "Confirmed" => t.unseen <= EffectiveAge(t, occluded)
  BY AgedTrack DEF Sane
<1>3. a.life \in {"Tentative", "Confirmed", "Dormant"}
  BY <1>2 DEF Tracks
<1>4. /\ EffectiveAge(t, occluded) \in Nat
      /\ EffectiveAge(t, occluded) <= Unseen - 1
  <2>1. Stationary(t) \in BOOLEAN
    BY DEF Stationary
  <2> QED
    BY <2>1, LongestAges
<1> HIDE DEF a
<1>5. CASE a.life = "Tentative"
  <2>1. ~(t.unseen > 1)
    BY <1>1, <1>2, <1>5 DEF Erased
  <2> QED
    BY <1>1, <1>2, <1>5, <2>1 DEF Longest, a
<1>6. CASE a.life = "Confirmed"
  <2>1. a.unseen <= Unseen - 1
    BY <1>1, <1>2, <1>4, <1>6, LongestAges
  <2> QED
    BY <1>6, <2>1 DEF Longest, a
<1>7. CASE a.life = "Dormant"
  <2>1. t.life \in {"Confirmed", "Dormant"}
    BY <1>1, <1>2, <1>7
  <2>2. t.life = "Dormant" => ~(t.unseen > DormantAge)
    BY DEF Erased
  <2>3. a.unseen <= Unseen
    BY <1>1, <1>2, <2>1, <2>2, LongestAges
  <2> QED
    BY <1>7, <2>3 DEF Longest, a
<1> QED
  BY <1>3, <1>5, <1>6, <1>7

Timely == \A k \in DOMAIN trackers : trackers[k].unseen <= Longest(trackers[k])

(* An update leaves no track that is older than its life allows.           *)
LEMMA RoundTimely ==
  ASSUME ListInv, Timely, NEW n, NEW primary, NEW second, NEW moved,
         Round(n, primary, second, moved)
  PROVE  Timely'
<1> DEFINE all == After(n, primary, second, moved)
           kept == Kept(all)
           f == New(n, primary, second)
           m == Len(trackers)
<1>1. /\ f \in Nat /\ DOMAIN all = 1 .. m + f
      /\ \A k \in DOMAIN all : Sane(all[k])
  BY IdsIncrease
<1>2. /\ DOMAIN trackers' = DOMAIN kept
      /\ \A i \in DOMAIN kept :
           /\ kept[i] \in DOMAIN all /\ ~Erased(all[kept[i]])
           /\ occlusion'[i] \in 0 .. MaxOcclusion
           /\ trackers'[i] = Aged(all[kept[i]], occlusion'[i])
  BY RoundOutcome
<1>3. /\ m \in Nat /\ DOMAIN trackers = 1 .. m
  BY ListShape
<1>4. \A k \in 1 .. m :
        /\ k \in Matched(primary, second) => all[k].unseen = 0
        /\ k \notin Matched(primary, second) =>
             /\ all[k].unseen = trackers[k].unseen + 1
             /\ all[k].life = trackers[k].life
  BY OldTracks
<1>5. \A i \in 1 .. f : all[m + i].unseen = 0
  BY NewTracks
<1> HIDE DEF all, kept, f, m
<1>6. ASSUME NEW k \in DOMAIN all, all[k].life = "Confirmed"
      PROVE  all[k].unseen <= Unseen
  <2>1. CASE k \in 1 .. m /\ k \notin Matched(primary, second)
    <3>1. /\ trackers[k].unseen <= Longest(trackers[k])
          /\ trackers[k].life = "Confirmed"
          /\ trackers[k].unseen \in Nat
      BY <1>3, <1>4, <1>6, <2>1 DEF Timely, ListInv, Sane, Tracks
    <3>2. trackers[k].unseen <= Unseen - 1
      BY <3>1 DEF Longest
    <3> QED
      BY <1>4, <2>1, <3>1, <3>2, LongestAges
  <2>2. CASE k \in 1 .. m /\ k \in Matched(primary, second)
    BY <1>4, <2>2, LongestAges
  <2>3. CASE k \notin 1 .. m
    <3>1. k - m \in 1 .. f /\ k = m + (k - m)
      BY <1>1, <1>3, <2>3
    <3>2. all[k].unseen = 0
      BY <1>5, <3>1
    <3> QED
      BY <3>2, LongestAges
  <2> QED
    BY <2>1, <2>2, <2>3
<1>7. ASSUME NEW i \in DOMAIN trackers'
      PROVE  trackers'[i].unseen <= Longest(trackers'[i])
  <2>1. /\ kept[i] \in DOMAIN all /\ ~Erased(all[kept[i]])
        /\ Sane(all[kept[i]]) /\ occlusion'[i] \in Nat
        /\ trackers'[i] = Aged(all[kept[i]], occlusion'[i])
    BY <1>1, <1>2, Ages
  <2>2. all[kept[i]].life = "Confirmed" => all[kept[i]].unseen <= Unseen
    BY <1>6, <2>1
  <2> QED
    BY <2>1, <2>2, AgedInTime
<1> QED
  BY <1>7 DEF Timely, Longest

(* At every moment a track in the list was not unseen for longer than its  *)
(* life allows: the loop that erases from the vectors it runs over misses  *)
(* no ghost.                                                               *)
THEOREM GhostsAreErased == PathSpec => []GhostsEnd
<1> DEFINE Inv == ListInv /\ Timely
<1>1. PathInit => Inv
  <2>1. PathInit => DOMAIN trackers = {}
    BY DEF PathInit
  <2> QED
    BY <2>1, InitListInv DEF Timely
<1>2. Inv /\ [PathNext]_pathVars => Inv'
  <2> SUFFICES ASSUME Inv, [PathNext]_pathVars PROVE Timely'
    BY NextListInv
  <2>1. UNCHANGED trackers => Timely'
    BY DEF Timely, Longest
  <2> QED
    BY <2>1, RoundTimely, StepsOfTheTracker DEF tracking
<1>3. Inv => GhostsEnd
  <2> SUFFICES ASSUME Inv, NEW t \in Range(trackers)
               PROVE  t.unseen <= Longest(t)
    BY DEF GhostsEnd, Longest
  <2>1. PICK k \in DOMAIN trackers : t = trackers[k]
    BY DEF Range
  <2> QED
    BY <2>1 DEF Timely
<1> HIDE DEF Inv
<1> QED
  BY <1>1, <1>2, <1>3, PTL DEF PathSpec

(* A track once confirmed, not unseen for long, passes the last loop.      *)
LEMMA RoundRemembers ==
  ASSUME ListInv, NEW n, NEW primary, NEW second, NEW moved,
         Round(n, primary, second, moved), NEW k \in DOMAIN trackers,
         trackers[k].life # "Tentative", trackers[k].unseen < DormantAge
  PROVE  \E i \in DOMAIN trackers' :
           trackers'[i].id = trackers[k].id /\ trackers'[i].life # "Tentative"
<1> DEFINE all == After(n, primary, second, moved)
           kept == Kept(all)
           f == New(n, primary, second)
           m == Len(trackers)
<1>1. /\ f \in Nat /\ DOMAIN all = 1 .. m + f
      /\ \A j \in DOMAIN all : Sane(all[j])
  BY IdsIncrease
<1>2. /\ DOMAIN trackers' = DOMAIN kept
      /\ \A i \in DOMAIN kept :
           /\ kept[i] \in DOMAIN all
           /\ occlusion'[i] \in 0 .. MaxOcclusion
           /\ trackers'[i] = Aged(all[kept[i]], occlusion'[i])
      /\ \A j \in DOMAIN all : ~Erased(all[j]) =>
           \E i \in DOMAIN kept : kept[i] = j
  BY RoundOutcome
<1>3. m \in Nat /\ k \in 1 .. m /\ trackers[k].unseen \in Nat
  BY ListShape DEF ListInv, Sane, Tracks
<1>4. /\ all[k].id = trackers[k].id /\ all[k].life # "Tentative"
      /\ k \in Matched(primary, second) => all[k].unseen = 0
      /\ k \notin Matched(primary, second) =>
           all[k].unseen = trackers[k].unseen + 1
  BY <1>3, OldTracks
<1> HIDE DEF all, kept, f, m
<1>5. k \in DOMAIN all /\ ~(all[k].unseen > DormantAge)
  BY <1>1, <1>3, <1>4, DormantAgeIsNat
<1>6. ~Erased(all[k])
  BY <1>4, <1>5 DEF Erased
<1>7. PICK i \in DOMAIN kept : kept[i] = k
  BY <1>2, <1>5, <1>6
<1>8. /\ trackers'[i].id = all[k].id
      /\ all[k].life = "Tentative" <=> trackers'[i].life = "Tentative"
  <2>1. Sane(all[k]) /\ occlusion'[i] \in Nat
        /\ trackers'[i] = Aged(all[k], occlusion'[i])
    BY <1>1, <1>2, <1>5, <1>7, Ages
  <2> QED
    BY <2>1, AgedTrack
<1> QED
  BY <1>2, <1>4, <1>7, <1>8

(* No step takes a confirmed or dormant track from the list before it was  *)
(* unseen for the dormant age: the id a person was given outlives every    *)
(* absence shorter than that.                                              *)
THEOREM TheConfirmedAreRemembered == PathSpec => ConfirmedIsRemembered
<1> DEFINE Remembered ==
      \A t \in Range(trackers) :
        t.life # "Tentative" /\ t.unseen < DormantAge
          => \E u \in Range(trackers') : u.id = t.id /\ u.life # "Tentative"
<1>1. ListInv /\ [PathNext]_pathVars => [Remembered]_pathVars
  <2> SUFFICES ASSUME ListInv, [PathNext]_pathVars,
                      NEW t \in Range(trackers),
                      t.life # "Tentative", t.unseen < DormantAge
               PROVE  \E u \in Range(trackers') :
                        u.id = t.id /\ u.life # "Tentative"
    OBVIOUS
  <2>1. PICK k \in DOMAIN trackers : t = trackers[k]
    BY DEF Range
  <2>2. ASSUME NEW n, NEW primary, NEW second, NEW moved,
               Round(n, primary, second, moved)
        PROVE  \E u \in Range(trackers') :
                 u.id = t.id /\ u.life # "Tentative"
    <3>1. PICK i \in DOMAIN trackers' :
            trackers'[i].id = t.id /\ trackers'[i].life # "Tentative"
      BY <2>1, <2>2, RoundRemembers
    <3> QED
      BY <3>1 DEF Range
  <2>3. ASSUME trackers' = trackers
        PROVE  \E u \in Range(trackers') :
                 u.id = t.id /\ u.life # "Tentative"
    BY <2>3
  <2> QED
    BY <2>2, <2>3, StepsOfTheTracker DEF tracking
<1> QED
  BY <1>1, InitListInv, NextListInv, PTL DEF PathSpec, ConfirmedIsRemembered
-----------------------------------------------------------------------------
(* The labels of a frame.                                                  *)

(* The position, after the associations, of the track a detection got.     *)
Place(n, primary, second, d) ==
  IF d \in DOMAIN second THEN second[d]
  ELSE IF d \in DOMAIN primary THEN primary[d]
  ELSE Len(trackers) + (Rank(d, Fresh(n, primary, second)) + 1)

(* Active and dormant tracks are different ones.                           *)
LEMMA AssociationsAreDisjoint ==
  ASSUME ListInv, NEW n, NEW primary, NEW second, NEW moved,
         Round(n, primary, second, moved)
  PROVE  /\ \A d \in DOMAIN primary : primary[d] \in DOMAIN trackers
         /\ \A e \in DOMAIN second : second[e] \in DOMAIN trackers
         /\ \A d \in DOMAIN primary, e \in DOMAIN second :
              primary[d] # second[e]
<1>1. /\ \A d \in DOMAIN primary : primary[d] \in Active(trackers)
      /\ \A e \in DOMAIN second : second[e] \in Dormant(trackers)
  BY RoundMatches
<1> QED
  BY <1>1 DEF Active, Dormant, Positions

(* The new tracks are numbered by the detections left over.                *)
LEMMA FreshRanks ==
  ASSUME ListInv, NEW n, NEW primary, NEW second, NEW moved,
         Round(n, primary, second, moved)
  PROVE  LET F == Fresh(n, primary, second)
             c == New(n, primary, second)
         IN  /\ c \in Nat
             /\ \A d \in F : Rank(d, F) + 1 \in 1 .. c
             /\ \A d, e \in F : Rank(d, F) = Rank(e, F) => d = e
             /\ \A i \in 1 .. c : \E d \in F : Rank(d, F) + 1 = i
<1> DEFINE F == Fresh(n, primary, second)
           c == Cardinality(F)
<1>1. /\ F \in SUBSET Nat /\ IsFiniteSet(F) /\ c \in Nat
  BY RoundMatches, FreshIsFinite
<1> HIDE DEF F
<1>2. \A d \in F : Rank(d, F) \in 0 .. c - 1
  BY <1>1, RankIsSmall
<1>3. \A d, e \in F : Rank(d, F) = Rank(e, F) => d = e
  BY <1>1, RankIsInjective
<1>4. \A r \in 0 .. c - 1 : \E d \in F : Rank(d, F) = r
  BY <1>1, EveryRankIsTaken
<1> HIDE DEF c
<1>5. \A d \in F : Rank(d, F) + 1 \in 1 .. c
  BY <1>1, <1>2
<1>6. ASSUME NEW i \in 1 .. c PROVE \E d \in F : Rank(d, F) + 1 = i
  <2>1. i - 1 \in 0 .. c - 1
    BY <1>1
  <2>2. PICK d \in F : Rank(d, F) = i - 1
    BY <1>4, <2>1
  <2> QED
    BY <1>1, <2>2
<1> QED
  BY <1>1, <1>3, <1>5, <1>6 DEF F, c, New

(* Each detection gets a track of its own, seen now, and each track seen   *)
(* now has its detection.                                                  *)
LEMMA PlacesFit ==
  ASSUME ListInv, NEW n, NEW primary, NEW second, NEW moved,
         Round(n, primary, second, moved)
  PROVE  LET all == After(n, primary, second, moved)
             place(d) == Place(n, primary, second, d)
         IN  /\ \A d \in 1 .. n :
                  /\ place(d) \in DOMAIN all
                  /\ all[place(d)].unseen = 0
                  /\ labels'[d] = all[place(d)].id
             /\ \A d, e \in 1 .. n : place(d) = place(e) => d = e
             /\ \A k \in DOMAIN all : all[k].unseen = 0 =>
                  \E d \in 1 .. n : place(d) = k
<1> DEFINE all == After(n, primary, second, moved)
           place(d) == Place(n, primary, second, d)
           m == Len(trackers)
           c == New(n, primary, second)
           F == Fresh(n, primary, second)
           rank(d) == Rank(d, F)
<1>1. /\ m \in Nat /\ DOMAIN trackers = 1 .. m /\ nextId \in Nat
  BY ListShape
<1>2. /\ c \in Nat
      /\ \A d \in F : rank(d) + 1 \in 1 .. c
      /\ \A d, e \in F : rank(d) = rank(e) => d = e
      /\ \A i \in 1 .. c : \E d \in F : rank(d) + 1 = i
  BY FreshRanks
<1>3. /\ DOMAIN primary \subseteq 1 .. n
      /\ DOMAIN second \subseteq (1 .. n) \ DOMAIN primary
      /\ \A d, e \in DOMAIN primary : primary[d] = primary[e] => d = e
      /\ \A d, e \in DOMAIN second : second[d] = second[e] => d = e
      /\ \A d \in DOMAIN primary : primary[d] \in Matched(primary, second)
      /\ \A d \in DOMAIN second : second[d] \in Matched(primary, second)
  BY RoundMatches DEF Matched
<1>4. /\ \A d \in DOMAIN primary : primary[d] \in 1 .. m
      /\ \A d \in DOMAIN second : second[d] \in 1 .. m
      /\ \A d \in DOMAIN primary, e \in DOMAIN second :
           primary[d] # second[e]
  BY <1>1, AssociationsAreDisjoint
<1>5. DOMAIN all = 1 .. m + c
  BY IdsIncrease
<1>6. \A k \in 1 .. m :
        /\ all[k].id = trackers[k].id
        /\ k \in Matched(primary, second) => all[k].unseen = 0
        /\ k \notin Matched(primary, second) =>
             all[k].unseen = trackers[k].unseen + 1
  BY OldTracks
<1>7. \A i \in 1 .. c : all[m + i].id = nextId + i - 1
                        /\ all[m + i].unseen = 0
  BY NewTracks
<1>8. /\ \A d \in DOMAIN second : place(d) = second[d]
      /\ \A d \in DOMAIN primary : place(d) = primary[d]
      /\ \A d \in F : place(d) = m + (rank(d) + 1)
      /\ \A d \in 1 .. n : \/ d \in DOMAIN second
                           \/ d \in DOMAIN primary
                           \/ d \in F
  BY <1>3 DEF Place, Fresh
<1>9. \A d \in 1 .. n :
        labels'[d] = IF d \in DOMAIN second THEN trackers[second[d]].id
                     ELSE IF d \in DOMAIN primary THEN trackers[primary[d]].id
                     ELSE nextId + rank(d)
  BY DEF Round, Update, Labels
<1>10. F \cap (DOMAIN primary \cup DOMAIN second) = {}
  BY DEF Fresh
<1>11. \A k \in 1 .. m : trackers[k].unseen \in Nat
  BY <1>1 DEF ListInv, Sane, Tracks
<1>12. \A k \in Matched(primary, second) :
         \/ \E d \in DOMAIN primary : primary[d] = k
         \/ \E d \in DOMAIN second : second[d] = k
  BY DEF Matched, Range
<1>13. \A d \in F : rank(d) \in Int
  <2>1. F \in SUBSET Nat /\ IsFiniteSet(F)
    BY RoundMatches, FreshIsFinite
  <2> HIDE DEF F
  <2> QED
    BY <2>1, RankIsSmall
<1> HIDE DEF all, place, m, c, F, rank
<1>14. ASSUME NEW d \in 1 .. n
       PROVE  /\ place(d) \in DOMAIN all
              /\ all[place(d)].unseen = 0
              /\ labels'[d] = all[place(d)].id
  <2>1. CASE d \in DOMAIN second
    BY <1>1, <1>2, <1>3, <1>4, <1>5, <1>6, <1>8, <1>9, <2>1
  <2>2. CASE d \in DOMAIN primary
    BY <1>1, <1>2, <1>3, <1>4, <1>5, <1>6, <1>8, <1>9, <2>2
  <2>3. CASE d \in F
    <3>1. /\ place(d) = m + (rank(d) + 1) /\ rank(d) + 1 \in 1 .. c
          /\ labels'[d] = nextId + rank(d)
      BY <1>2, <1>8, <1>9, <1>10, <2>3
    <3>2. /\ all[place(d)].id = nextId + (rank(d) + 1) - 1
          /\ all[place(d)].unseen = 0
      BY <1>7, <3>1
    <3>3. m + (rank(d) + 1) \in 1 .. m + c
      BY <1>1, <1>2, <3>1
    <3> QED
      BY <1>1, <1>5, <1>13, <2>3, <3>1, <3>2, <3>3
  <2> QED
    BY <1>8, <2>1, <2>2, <2>3
<1>15. ASSUME NEW d \in 1 .. n, NEW e \in 1 .. n, place(d) = place(e)
       PROVE  d = e
  <2>1. \A x \in 1 .. n : x \in F => place(x) \notin 1 .. m
    BY <1>1, <1>2, <1>8
  <2>2. \A x \in 1 .. n : x \notin F => place(x) \in 1 .. m
    BY <1>4, <1>8
  <2>3. CASE d \in F /\ e \in F
    <3>1. /\ m + (rank(d) + 1) = m + (rank(e) + 1)
          /\ rank(d) \in Int /\ rank(e) \in Int
      BY <1>8, <1>13, <1>15, <2>3
    <3>2. rank(d) = rank(e)
      BY <1>1, <3>1
    <3> QED
      BY <1>2, <2>3, <3>2
  <2>4. CASE d \notin F /\ e \notin F
    BY <1>3, <1>4, <1>8, <1>15, <2>4
  <2> QED
    BY <1>15, <2>1, <2>2, <2>3, <2>4
<1>16. ASSUME NEW k \in DOMAIN all, all[k].unseen = 0
       PROVE  \E d \in 1 .. n : place(d) = k
  <2>1. CASE k \in 1 .. m
    <3>1. k \in Matched(primary, second)
      BY <1>6, <1>11, <1>16, <2>1
    <3> QED
      BY <1>3, <1>8, <1>12, <3>1
  <2>2. CASE k \notin 1 .. m
    <3>1. k - m \in 1 .. c /\ k = m + (k - m)
      BY <1>1, <1>2, <1>5, <2>2
    <3>2. PICK d \in F : rank(d) + 1 = k - m
      BY <1>2, <3>1
    <3>3. place(d) = m + (rank(d) + 1)
      BY <1>8
    <3>4. place(d) = k
      BY <3>1, <3>2, <3>3
    <3>5. d \in 1 .. n
      BY DEF F, Fresh
    <3> QED
      BY <3>4, <3>5
  <2> QED
    BY <2>1, <2>2
<1> QED
  BY <1>14, <1>15, <1>16 DEF all, place

(* After an update the labels are the ids of the tracks just seen.         *)
LEMMA RoundLabels ==
  ASSUME ListInv, NEW n, NEW primary, NEW second, NEW moved,
         Round(n, primary, second, moved)
  PROVE  /\ labels' \in UNION {[1 .. i -> 1 .. MaxId] :
                                i \in 0 .. MaxDetections}
         /\ LabelsNameSeenTracks'
<1> DEFINE all == After(n, primary, second, moved)
           place(d) == Place(n, primary, second, d)
           kept == Kept(all)
<1>1. /\ \A k \in DOMAIN all : Sane(all[k])
      /\ \A k, l \in DOMAIN all : k < l => all[k].id < all[l].id
      /\ DOMAIN all \subseteq Nat
  BY IdsIncrease, ListShape
<1>2. /\ \A d \in 1 .. n :
           /\ place(d) \in DOMAIN all
           /\ all[place(d)].unseen = 0
           /\ labels'[d] = all[place(d)].id
      /\ \A d, e \in 1 .. n : place(d) = place(e) => d = e
      /\ \A k \in DOMAIN all : all[k].unseen = 0 =>
           \E d \in 1 .. n : place(d) = k
  BY PlacesFit
<1>3. /\ DOMAIN trackers' = DOMAIN kept
      /\ \A i \in DOMAIN kept :
           /\ kept[i] \in DOMAIN all
           /\ occlusion'[i] \in 0 .. MaxOcclusion
           /\ trackers'[i] = Aged(all[kept[i]], occlusion'[i])
      /\ \A k \in DOMAIN all : ~Erased(all[k]) =>
           \E i \in DOMAIN kept : kept[i] = k
  BY RoundOutcome
<1>4. labels' = [d \in 1 .. n |-> labels'[d]] /\ n \in 0 .. MaxDetections
  BY DEF Round, Update, Labels
<1> HIDE DEF all, place, kept
<1>5. \A k \in DOMAIN all : all[k].id \in 1 .. MaxId
  BY <1>1 DEF Sane, Tracks
<1>6. labels' \in [1 .. n -> 1 .. MaxId]
  <2>1. \A d \in 1 .. n : labels'[d] \in 1 .. MaxId
    BY <1>2, <1>5
  <2> QED
    BY <1>4, <2>1
<1>7. \A k, l \in DOMAIN all : all[k].id = all[l].id => k = l
  <2> SUFFICES ASSUME NEW k \in DOMAIN all, NEW l \in DOMAIN all, k # l
               PROVE  all[k].id # all[l].id
    OBVIOUS
  <2>1. k < l \/ l < k
    BY <1>1
  <2>2. all[k].id \in Int /\ all[l].id \in Int
    BY <1>5
  <2> QED
    BY <1>1, <2>1, <2>2
<1>8. IsInjective(labels')
  <2> SUFFICES ASSUME NEW d \in 1 .. n, NEW e \in 1 .. n,
                      labels'[d] = labels'[e]
               PROVE  d = e
    BY <1>4 DEF IsInjective
  <2>1. place(d) = place(e)
    BY <1>2, <1>7
  <2> QED
    BY <1>2, <2>1
<1>9. \A i \in DOMAIN kept :
        /\ trackers'[i].id = all[kept[i]].id
        /\ trackers'[i].unseen = all[kept[i]].unseen
  <2> SUFFICES ASSUME NEW i \in DOMAIN kept
               PROVE  /\ trackers'[i].id = all[kept[i]].id
                      /\ trackers'[i].unseen = all[kept[i]].unseen
    OBVIOUS
  <2>1. Sane(all[kept[i]]) /\ occlusion'[i] \in Nat
    BY <1>1, <1>3, Ages
  <2> QED
    BY <1>3, <2>1, AgedTrack
<1>10. \A k \in DOMAIN all : all[k].unseen = 0 => ~Erased(all[k])
  BY DormantAgeIsNat DEF Erased
<1>11. ASSUME NEW l \in Range(labels')
       PROVE  \E u \in Range(trackers') : u.unseen = 0 /\ u.id = l
  <2>1. PICK d \in 1 .. n : l = labels'[d]
    BY <1>4 DEF Range
  <2>2. /\ place(d) \in DOMAIN all /\ all[place(d)].unseen = 0
        /\ l = all[place(d)].id
    BY <1>2, <2>1
  <2>3. PICK i \in DOMAIN kept : kept[i] = place(d)
    BY <1>3, <1>10, <2>2
  <2>4. i \in DOMAIN trackers' /\ trackers'[i].unseen = 0
        /\ trackers'[i].id = l
    BY <1>3, <1>9, <2>2, <2>3
  <2> QED
    BY <2>4 DEF Range
<1>12. ASSUME NEW u \in Range(trackers'), u.unseen = 0
       PROVE  u.id \in Range(labels')
  <2>1. PICK i \in DOMAIN kept : u = trackers'[i]
    BY <1>3 DEF Range
  <2>2. /\ kept[i] \in DOMAIN all /\ all[kept[i]].unseen = 0
        /\ all[kept[i]].id = u.id
    BY <1>3, <1>9, <1>12, <2>1
  <2>3. PICK d \in 1 .. n : place(d) = kept[i]
    BY <1>2, <2>2
  <2>4. labels'[d] = u.id
    BY <1>2, <2>2, <2>3
  <2> QED
    BY <1>4, <2>4 DEF Range
<1>13. Range(labels')
         = {t.id : t \in {u \in Range(trackers') : u.unseen = 0}}
  BY <1>11, <1>12
<1> QED
  BY <1>4, <1>6, <1>8, <1>13 DEF LabelsNameSeenTracks

(* The labels of the last frame are in step with the list.                 *)
LabelsInv ==
  /\ labels \in UNION {[1 .. n -> 1 .. MaxId] : n \in 0 .. MaxDetections}
  /\ LabelsNameSeenTracks

(* A frame without detections has no labels.                               *)
LEMMA NoLabels ==
  <<>> \in UNION {[1 .. n -> 1 .. MaxId] : n \in 0 .. MaxDetections}
<1>1. 0 \in 0 .. MaxDetections
  BY MaxDetectionsAssumption
<1>2. <<>> \in [1 .. 0 -> 1 .. MaxId]
  OBVIOUS
<1> QED
  BY <1>1, <1>2

(* There are no labels at first.                                           *)
LEMMA InitLabelsInv == PathInit => LabelsInv
BY NoLabels DEF PathInit, LabelsInv, LabelsNameSeenTracks

(* The labels are in step with the list from frame to frame.               *)
LEMMA NextLabelsInv ==
  ListInv /\ LabelsInv /\ [PathNext]_pathVars => LabelsInv'
<1> SUFFICES ASSUME ListInv, LabelsInv, [PathNext]_pathVars
             PROVE  LabelsInv'
  OBVIOUS
<1>1. ASSUME NEW n, NEW primary, NEW second, NEW moved,
             Round(n, primary, second, moved)
      PROVE  LabelsInv'
  BY <1>1, RoundLabels DEF LabelsInv
<1>2. ASSUME labels' = <<>> PROVE LabelsInv'
  BY <1>2, NoLabels DEF LabelsInv, LabelsNameSeenTracks
<1>3. ASSUME UNCHANGED tracking PROVE LabelsInv'
  BY <1>3 DEF tracking, LabelsInv, LabelsNameSeenTracks
<1> QED
  BY <1>1, <1>2, <1>3, StepsOfTheTracker

(* After every frame the labels are different and are those of the tracks  *)
(* just seen, however the list was associated and what was erased.         *)
THEOREM LabelsAreOfTheSeen == PathSpec => []LabelsNameSeenTracks
<1>1. LabelsInv => LabelsNameSeenTracks
  BY DEF LabelsInv
<1> QED
  BY <1>1, InitListInv, NextListInv, InitLabelsInv, NextLabelsInv, PTL
    DEF PathSpec

(* The steps of the frame path are steps of the degradation.               *)
LEMMA PathIsDegradation == [PathNext]_pathVars => [Next]_vars
BY DEF PathNext, PathMemoryChanges, PathFrame, PathFrameHangs, pathVars,
       vars, Next

(* The types, the increasing ids and the two vectors in step.              *)
THEOREM PathTypes == PathSpec => []PathTypeOK
<1>1. PathInit => QualityInv
  BY InitQualityInv DEF PathInit
<1>2. QualityInv /\ ListInv /\ LabelsInv => PathTypeOK
  <2> SUFFICES ASSUME QualityInv, ListInv, LabelsInv PROVE PathTypeOK
    OBVIOUS
  <2>1. \A k \in DOMAIN trackers : trackers[k] \in Tracks
    BY DEF ListInv, Sane
  <2> QED
    BY <2>1 DEF QualityInv, ListInv, LabelsInv, PathTypeOK
<1> QED
  BY <1>1, <1>2, InitListInv, NextListInv, InitLabelsInv, NextLabelsInv,
     NextQualityInv, PathIsDegradation, PTL DEF PathSpec

(* With the tracker the frames are still those of Degradation, so that     *)
(* what is proved there of the quality and of inference holds here.        *)
THEOREM PathImplementsDegradation == PathSpec => Spec
<1>1. PathInit => Init
  BY DEF PathInit
<1> QED
  BY <1>1, PathIsDegradation, PTL DEF PathSpec, Spec
=============================================================================
