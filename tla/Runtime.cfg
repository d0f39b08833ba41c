SPECIFICATION Spec
CONSTANTS
  NumLayers = 4
  NumRows = 3
  NumKinds = 2
  StartSizes <- OneToThree
  Budgets <- Pins
  Reserves <- NoneOrOne
  NoSlot = NoSlot
  Junk = Junk
  D = 4
  Tokens <- ThreeTokens
  Wrong = Wrong
  Own = "own"
  Saved = "saved"
  Phys <- Swapped
  Prompt <- TwoTokens
  Interval = 2
  MaxLen = 9
  Commands = 3
  MaxTime = 5
  None = None
INVARIANTS
  PlacedForServing
  Lossless
PROPERTY ControlWorks
CHECK_DEADLOCK FALSE
