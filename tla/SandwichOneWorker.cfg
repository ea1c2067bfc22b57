CONSTANTS
  t1 = t1  t2 = t2  w1 = w1  w2 = w2
  Txs <- TwoTxs
  NativeEnd <- OneNative
  Validators <- AllValidators
  Faults <- NoFaults
  Workers <- OneWorker
  MaxQueue = 1
  NoTx = NoTx
SPECIFICATION FairSpec
INVARIANTS TypeOK OpenPositionIsWatched NoNonceGap
PROPERTIES QueueDrains AttackSettles
