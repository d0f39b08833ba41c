SPECIFICATION FairSpec
CONSTANTS
  Vram = 15
  MinHeld = 1
  Wants = {}
  NoWant = NoWant
  Size = 6
  Floor = 4
  Margin = 2
  Buffers = 2
  TokenBytes <- TwoBuffers
  Chunk = 2
  Headroom = 6
  Extra = 2
  WorkMemory = 4
  RegrowReserve = 2
  MaxAlloc = 2
INVARIANTS
  TypeOK
  AllocatedIsBacked
PROPERTIES
  RefusedOnlyAtFloor
  CommitKeepsHeadroom
  IdleKeepsFloorOnly
  HooksReturn
