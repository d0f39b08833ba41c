SPECIFICATION Spec
CONSTANTS
  Base <- BaseText
  Edits <- LayerEdits
  News <- LayerNews
  Kernel <- Kernels
  Intact <- IntactEdits
  STEPS <- KvSteps
  Patches <- KvPatches
  Needs <- KvNeeds
  Callers <- KvCallers
  Manual <- Calls
  MaxKills = 1
  None = None
  Down = Down
CONSTRAINT Watched
INVARIANTS
  StackedUnlessUndercut
  RerunHeals
  AcceptedIsServedUnlessRelisted
