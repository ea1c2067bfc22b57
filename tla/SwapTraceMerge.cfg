CONSTANTS
  pool = pool  trader = trader  bnb = bnb  usd = usd  Nothing = Nothing
  Addresses <- TwoAddresses
  Pools <- OnePool
  Tokens <- TwoTokens
  Native = bnb
  Hops <- ProperHops
  Values <- OneValue
  MinNative = 2
  Unset = Nothing
  MaxCalls = 6
SPECIFICATION TraceSpec
INVARIANT OneReportPerPool
CHECK_DEADLOCK FALSE
