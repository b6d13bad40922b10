CONSTANTS
  SECTOR = 2
  ENTRIES = 4
  EOC = 60
  U32 = 96
  LBA28 = 16
  ROOM = 2
  WALK = 3
  IDX = 4
  QSZ = 2
  DiskSize = 20
  DEPTH = 1
  Leftovers <- MCLeftovers
  Slots = 3
  KEYS = 1
  MOVES = 0
  CAP = 6
  PIECE = 3
  BASE = 10
  TOP = 100
  KSTACK = 200
  Scancodes <- MCScancodes
  Volumes <- MCVolumes
  Buses <- MCBuses
  Chips <- MCChips
  Capacities <- MCCapacities
  Seed <- MCSeed
SPECIFICATION Spec
INVARIANTS FilesExact ListingsHonest RoundTrip
PROPERTIES ImplementsBlockDevice BringUpEnds
CHECK_DEADLOCK FALSE
