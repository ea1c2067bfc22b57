CONSTANTS
  contract = contract  funds = funds  None = None
  Effects <- AllEffects
  Deployment <- NoDeployment
  Faults <- NoFaults
  MaxJournal = 0
  MaxDepth = 4
  MaxPath = 2
  MaxCount = 4
  BreakIfZero = 2
  Revenues <- SmallRevenues
SPECIFICATION Spec
INVARIANT BackGasIsBackRuns
