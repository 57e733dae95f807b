SPECIFICATION FairSpec
CONSTANTS
  r1 = r1
  r2 = r2
  a1 = a1
  a2 = a2
  none = none
  Adapters <- TwoAdapters
  NoAdapter = none
  Requests <- OneRequest
  MaxWorkers = 2
  MinWorkers = 0
  GpuCap = 2
  MaxObjs = 3
  Ahead = {}
  Warm = {1}
  GrowTenths = 7
  Faults <- Crashes
INVARIANTS
  GpuCountExact
PROPERTIES
  Answered
  DeadForgotten
CHECK_DEADLOCK FALSE
