SPECIFICATION FairSpec
CONSTANTS
  BaseInterval = 1
  LongestInterval = 2
  FullScale = 2
  LowestScale = 1
  IntBits = 8
  FirstDelay = 5
  LongestDelay = 30
  MaxOutage = 1
  SelfJoin = {"hang", "refused"}
PROPERTY PausedStreamResumes
