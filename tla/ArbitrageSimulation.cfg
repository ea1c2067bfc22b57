CONSTANTS
  contract = contract  balance = balance  None = None
  Effects <- AllEffects
  Deployment <- Deployed
  Faults <- DbFaults
  MaxJournal = 0
  MaxDepth = 3
  MaxPath = 2
  MaxCount = 3
  BreakIfZero = 2
  Gains <- SmallGains
SPECIFICATION Spec
PROPERTY RunsOnCopies
