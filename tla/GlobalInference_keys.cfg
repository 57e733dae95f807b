SPECIFICATION KeyedSpec
CONSTANTS
  n1 = n1
  n2 = n2
  r1 = r1
  r2 = r2
  r3 = r3
  k1 = k1
  Nodes <- TwoNodes
  NoNode = NoNode
  Requests <- ThreeRequests
  Keys <- OneKey
  NoKey = NoKey
  NoResult = NoResult
  max_workers <- Uneven
  MaxQueue = 2
  MaxActive = 1
  Attempts = 2
  WaitIters = 1
INVARIANTS
  TypeOK
  CountersExact
PROPERTIES
  NoRerun
  Answered
CHECK_DEADLOCK FALSE
