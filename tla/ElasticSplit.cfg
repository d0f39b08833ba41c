SPECIFICATION Spec
CONSTANTS
  NumLayers = 2
  NumRows = 3
  NumKinds = 2
  OnHost <- SplitOnHost
  Pinned <- SplitPinned
  StartS = 2
  StepRows = 1
  RowBytes <- SplitRowBytes
  Chunk = 4
  Vram = 10
  RegrowReserve = 1
  SizeArgs = {0, 3}
  FillArgs = {1}
  FreeArgs = {4}
  OtherProcesses = {TRUE}
  NoSlot = NoSlot
  Junk = Junk
INVARIANTS
  TypeOK
  ReadsOwnRow
  SlotPartition
  NoLeakedChunks
  NeverExhausted
