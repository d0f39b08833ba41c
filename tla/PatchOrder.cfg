SPECIFICATION CliSpec
CONSTANTS
  Base <- BaseText
  Edits <- LayerEdits
  News <- LayerNews
  Kernel <- Kernels
  Intact <- IntactEdits
  None = None
INVARIANT StackedWhenIdle
