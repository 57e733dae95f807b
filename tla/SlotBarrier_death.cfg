SPECIFICATION FairSpec
CONSTANTS
  w1 = w1
  w2 = w2
  w3 = w3
  none = none
  p1 = p1
  p2 = p2
  unset = unset
  Workers <- ThreeWorkers
  NoWorker = none
  NumSlots = 2
  LastOp = 1
  Capacity = 4
  Params <- OneParam
  NoParams = unset
  Shaky <- JustW1
  Faults <- Deaths
INVARIANTS
  RingHasRoom
  FreedSlotsZero
  SurvivorsReadFresh
PROPERTIES
  RequestsFinish
  DeadSlotsReclaimed
