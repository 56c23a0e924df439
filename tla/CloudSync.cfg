SPECIFICATION FairSpec
CONSTANTS
  NumEvents = 3
  BatchSize = 2
  MaxFaults = 2
INVARIANTS TypeOK UploadedIsAccountedFor ResentOnlyWhenForgotten IdNamesOneViolation
PROPERTY EveryRecordSettles
CHECK_DEADLOCK FALSE
