SPECIFICATION FairSpec
CONSTANTS
  IntBits = 8
  FirstDelay = 5
  LongestDelay = 30
  MaxOutage = 4
INVARIANTS TypeOK OneHandler
PROPERTIES EveryBreakIsReplaced OutageIsReported ReconnectsAfterOutage StopCompletes
