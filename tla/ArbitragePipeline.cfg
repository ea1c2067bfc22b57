CONSTANTS
  t1 = t1  t2 = t2  w1 = w1  w2 = w2
  Txs <- TwoTxs
  NativeEnd <- TwoTxs
  Validators <- AllValidators
  Faults <- NodeFaults
  Workers <- TwoWorkers
  MaxQueue = 1
  NoTx = NoTx
SPECIFICATION FairSpec
INVARIANTS RunsNeverQueue OneRunPerVictim
PROPERTY QueueDrains
