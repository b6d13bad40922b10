CONSTANTS
  IDX = 4
  QSZ = 2
  DiskSize = 2
  DEPTH = 1
  Leftovers <- MCLeftovers
SPECIFICATION Spec
PROPERTY SectorAsAsked
CHECK_DEADLOCK FALSE
