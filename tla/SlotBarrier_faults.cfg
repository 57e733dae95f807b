SPECIFICATION Spec
CONSTANTS
  w1 = w1
  w2 = w2
  w3 = w3
  none = none
  p1 = p1
  p2 = p2
  unset = unset
  Workers <- TwoWorkers
  NoWorker = none
  NumSlots = 1
  LastOp = 1
  Capacity = 3
  Params <- OneParam
  NoParams = unset
  Shaky <- JustW1
  Faults <- AllFaults
INVARIANTS
  TypeOK
  SlotExclusive
  NoForeignInput
  ReadyMeansWritten
