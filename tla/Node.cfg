CONSTANTS
  Sizes <- UpToEight
  InitialStep = 5
  Capacity = 2
  Errors <- NodeErrors
  pool = pool  trader = trader  bnb = bnb  usd = usd  Nothing = Nothing
  Addresses <- TwoAddresses
  Pools <- OnePool
  Tokens <- TwoTokens
  Native = bnb
  Hops <- ProperHops
  Values <- SmallValues
  MinNative = 2
  Unset = Nothing
  MaxCalls = 5
SPECIFICATION NodeSpec
INVARIANTS AskedOnce LostIsLast StepStaysPositive OneEventIsTheFlow SwapsAreReported
PROPERTY MulticallEnds
