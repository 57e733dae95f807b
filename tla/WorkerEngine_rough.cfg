SPECIFICATION Spec
CONSTANTS
  r1 = r1
  r2 = r2
  b1 = b1
  b2 = b2
  NoRequest = NoRequest
  Requests <- TwoRequests
  Blocks <- TwoBlocks
  Permits = 1
  NumSlots = 2
  BlockSize = 2
  Chunk = 2
  MaxSeq = 4
  Prompts <- Lengths
  Limits <- Lengths
  Faults <- Rough
INVARIANTS
  TypeOK
  BlocksSound
  NoBlockLeak
  RunsInOwnSlots
PROPERTIES
  UsesPool
CHECK_DEADLOCK FALSE
