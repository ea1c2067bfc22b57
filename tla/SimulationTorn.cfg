CONSTANTS
  contract = contract  funds = funds  None = None
  Effects <- AllEffects
  Deployment <- Deployed
  Faults <- DbFaults
  MaxJournal = 0
  MaxDepth = 4
  MaxPath = 2
  MaxCount = 4
  BreakIfZero = 2
  Revenues <- SmallRevenues
SPECIFICATION FairSpec
INVARIANT BestIsOneProbe
PROPERTIES RunsOnCopies SearchEnds RevertRestores
