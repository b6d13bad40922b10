SPECIFICATION FairQueueSpec
CONSTANTS
  QUEUE_CAP = 3
  Calls = 6
INVARIANTS
  QueueTypeOK
  MutualExclusion
  FifoOrder
PROPERTIES
  AcceptedWorkRuns
CHECK_DEADLOCK FALSE
