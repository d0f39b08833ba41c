SPECIFICATION FairSpec
CONSTANTS
  NumLayers = 2
  NumRows = 4
  NumKinds = 1
  OnHost <- DeepOnHost
  Pinned <- DeepPinned
  StartS = 3
  StepRows = 1
  RowBytes <- DeepRowBytes
  Chunk = 2
  Vram = 5
  RegrowReserve = 1
  SizeArgs = {0, 3}
  FillArgs = {1}
  FreeArgs = {2, 5}
  OtherProcesses = {TRUE, FALSE}
  NoSlot = NoSlot
  NoWant = NoWant
  Junk = Junk
INVARIANTS
  IInv
  FloorIsStable
PROPERTIES
  FreeDelivers
  FillKeepsReserve
  CommandsEnd
  ImplementsLender
