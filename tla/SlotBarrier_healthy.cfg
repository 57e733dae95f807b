SPECIFICATION FairSpec
CONSTANTS
  w1 = w1
  w2 = w2
  w3 = w3
  none = none
  p1 = p1
  p2 = p2
  unset = unset
  Workers <- ThreeWorkers
  NoWorker = none
  NumSlots = 2
  LastOp = 2
  Capacity = 3
  Params <- OneParam
  NoParams = unset
  Shaky <- Nobody
  Faults <- NoFaults
INVARIANTS
  LockStep
PROPERTIES
  RequestsFinish
