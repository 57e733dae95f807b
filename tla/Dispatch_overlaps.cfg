SPECIFICATION FairSpec
CONSTANTS
  r1 = r1
  r2 = r2
  a1 = a1
  a2 = a2
  none = none
  Adapters <- TwoAdapters
  NoAdapter = none
  Requests <- OneRequest
  MaxWorkers = 1
  MinWorkers = 0
  GpuCap = 1
  MaxObjs = 1
  Ahead = {}
  Warm = {0, 1}
  GrowTenths = 7
  Faults <- Overlaps
PROPERTIES
  Answered
CHECK_DEADLOCK FALSE
