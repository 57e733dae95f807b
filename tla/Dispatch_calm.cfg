SPECIFICATION Spec
CONSTANTS
  r1 = r1
  r2 = r2
  a1 = a1
  a2 = a2
  none = none
  Adapters <- TwoAdapters
  NoAdapter = none
  Requests <- TwoRequests
  MaxWorkers = 2
  MinWorkers = 0
  GpuCap = 3
  MaxObjs = 3
  Ahead = {1}
  Warm = {0, 2}
  GrowTenths = 4
  Faults <- Calm
SYMMETRY Symmetry
INVARIANTS
  TypeOK
  CountsHolders
  OneAtATime
  ServedByItsAdapter
  ReaperSparesHolders
CHECK_DEADLOCK FALSE
