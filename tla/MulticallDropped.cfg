CONSTANTS
  Sizes <- UpToEight
  InitialStep = 5
  Capacity = 8
  Errors <- NoErrors
SPECIFICATION Spec
INVARIANT EveryCallAnswered
