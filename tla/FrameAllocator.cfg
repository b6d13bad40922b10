SPECIFICATION Spec
CONSTANTS
  FRAME_SIZE = 4
  MAX_REGIONS = 3
  MAX_RUNS = 3
  Maps <- MCMaps
  floor = 8
INVARIANTS
  NoDoubleHandout
  FramesAreUsable
  Accounting
PROPERTY ImplementsPool
CHECK_DEADLOCK FALSE
