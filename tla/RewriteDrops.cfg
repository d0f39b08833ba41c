SPECIFICATION Spec
CONSTANTS
  Keys <- AllKeys
  PleKeys <- Ple
  Files = {a, b, c}
  Stacks <- TwoStacks
  Rest <- Others
  Limit = 3
  MaxCrashes = 1
INVARIANTS
  WholeMeansComplete
CHECK_DEADLOCK FALSE
