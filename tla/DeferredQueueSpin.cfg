SPECIFICATION FairQueueSpec
CONSTANTS
  QUEUE_CAP = 3
  Calls = 2
PROPERTY HandlerReturns
CHECK_DEADLOCK FALSE
