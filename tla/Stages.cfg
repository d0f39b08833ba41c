SPECIFICATION Spec
CONSTANTS
  Keys <- AllKeys
  PleKeys <- PlePart
  Shards = {a, b, c}
  Stacks <- TwoStacks
  Rest <- Others
  Limit = 3
  RewriteCrashes = 1
  Checkpoint = fp8
  ShardRows <- Unequal
  SplitCrashes = 3
  Runs = {r1, r2}
  OutputFiles = {f1, f2}
  Minutes = 1
  Patterns <- Overlapping
  ExpertRules <- ExpertRule
  Linears <- AllLinears
  Listed <- Named
  Match <- Matching
  Odd = {"odd"}
  Vision = {"vision"}
  Outside = {"head"}
  Policies <- UpToThree
  BlockLinears = {x, y, z}
  MaxExpert = 4
  NumGroups = 3
  Blocks = 2
  Jobs = 2
  Versions = 2
  Kills = 2
  None = None
  Torn = Torn
INVARIANTS
  TypeOK
  ShardsGoWhenRead
  WholeMeansComplete
  MapsTheRows
  DoneIsIntact
  TunedAsPlanned
  DistinctIsAccepted
  ConfigMatchesDisk
  TunedOnce
PROPERTIES
  RevertRestores
  SuccessMeansPatched
  StagesEnd
CHECK_DEADLOCK FALSE
