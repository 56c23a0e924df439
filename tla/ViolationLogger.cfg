SPECIFICATION FairSpec
CONSTANTS
  Cameras = {c1, c2}
  Actors = {a1}
  MaxCalls = 3
  QueueFloor = 1
  QueueDefault = 2
  BatchDefault = 1
  RetriesDefault = 1
  QueueRequests <- MCQueueRequests
  BatchRequests <- MCBatchRequests
  RetryRequests <- MCRetryRequests
  Relocks = {"hang", "proceed"}
  Idle = Idle
INVARIANTS TypeOK DatabaseDiscipline RecordsAccountedFor StoredInOrder
PROPERTIES FlushIsABarrier QueueStaysBounded LedgerSpec EveryViolationSettles DestructorDrains
