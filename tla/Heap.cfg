SPECIFICATION Spec
CONSTANTS
  Base = 8
  Size = 120
  Layouts <- MCLayouts
INVARIANTS
  TypeOK
  BlocksDisjoint
  UsedIsLive
  Conservation
PROPERTY ImplementsAllocator
