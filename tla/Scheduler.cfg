SPECIFICATION FairSpec
CONSTANTS
  TASKS_CAP = 4
  Spawns = 4
  MinSwitches = 4
  Iterations = 3
  SpinLimit = 3
  SwitchCap = 4
  KickCap = 3
  Boot = Boot
  Wild = Wild
  Null = Null
INVARIANTS TypeOK LiveStack RunningSlot ClosureAtomic MarkerHonest
PROPERTIES RoundRobin BootProceeds BootReacquires
