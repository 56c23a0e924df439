SPECIFICATION MCSpec
CONSTANTS
  BaseInterval = 1
  LongestInterval = 2
  FullScale = 2
  LowestScale = 1
  Period = 2
  MaxAge = 1
  MinHits = 2
  OcclusionFrames = 2
  StationaryAge = 3
  StationaryHits = 2
  MaxOcclusion = 2
  MaxId = 2
  MaxDetections = 2
  Gated = 25600000
  Infinite = Infinite
  Significand = 16777216
  Spacings = {1, 2, 4, 8, 16, 32, 64}
  Tables <- MCTables
INVARIANTS PathTypeOK LabelsNameSeenTracks GhostsEnd AssociationFits AssociationIsNearlyBest InferenceNeverStarves
PROPERTIES ConfirmedIsRemembered QualityRecovers
