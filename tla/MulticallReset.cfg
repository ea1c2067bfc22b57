CONSTANTS
  Sizes <- OneToEight
  InitialStep = 5
  Capacity = 8
  Errors <- Resets
SPECIFICATION Spec
INVARIANT BatchingEnds
