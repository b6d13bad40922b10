SPECIFICATION Spec
CONSTANTS
  TOP = 5
  ENTRIES = 2
  FrameCount = 31
  PAGE = 2
  LowHalf = 4
  HeapPages = 3
  VirtioFrames = 2
  BootTops <- MCBootTops
  PoolSizes <- MCPoolSizes
  Elfs <- MCElfs
INVARIANT FaultStackLoaded
