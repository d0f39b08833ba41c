SPECIFICATION Spec
CONSTANTS
  Base <- BaseText
  Edits <- LayerEdits
  News <- LayerNews
  Kernel <- Kernels
  Intact <- IntactEdits
  STEPS <- KvSteps
  Patches <- KvPatches
  Needs <- KvNeeds
  Callers <- KvCallers
  Manual = {}
  MaxKills = 0
  None = None
  Down = Down
INVARIANT AcceptedIsServed
