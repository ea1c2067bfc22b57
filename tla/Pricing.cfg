CONSTANTS
  Fraction = 14
  Resolution = 8
  Factors <- Quarters
  MaxTick = 8
  LogBits = 5
  LogFactor = 4
  LogOne = 32
  LogLow = 1
  LogHigh = 4
  FeeUnit = 1000
  Fee = 30
  TickSpacing = 1
  WordSize = 4
  WordCache = 2
  Positions <- TwoPositions
  Starts <- StartTicks
  Amounts <- SmallAmounts
  Unset = Unset
  MaxHeight = 2
  Pools <- AllPools
  Lots <- TwoLots
  MaxSwaps = 3
  Precision = 100
  FeeDenominator = 1000
  MaxTurns = 50
  CubeRootUnit = 6
  AMultiplier = 1
  GammaRange <- Gammas
  GammaRangeNG <- Gammas
  Tolerance = 200
  LeastDiff = 2
  MaxCubed = 1073741824
  Dividers <- OneDivider
  FeeParts = 1000
  Iterations = 50
  NoQuote = NoQuote
  bnb = bnb
  ta = ta
  tb = tb
  p1 = p1
  p2 = p2
  p3 = p3
  p4 = p4
  p5 = p5
  p6 = p6
  Native = bnb
  Market = {p1, p2, p3, p4, p5, p6}
  TokensOf <- Pairs
  Factories <- ThreeFactories
  Victims <- UpToTwoSwaps
  Holdings <- Balances
  tc = tc
  pancake2a = pancake2a
  pancake2b = pancake2b
  biswap = biswap
  uniswap2 = uniswap2
  thena = thena
  pancake3a = pancake3a
  pancake3b = pancake3b
  fusion = fusion
  sushi3 = sushi3
  bakery = bakery
  Tokens = {bnb, ta, tb, tc}
  PoolAddresses = {pancake2a, pancake2b, biswap, uniswap2, thena, pancake3a, pancake3b, fusion, sushi3, bakery}
  Coins <- PairsOfPools
  Dex <- Ids
  PoolFee <- Fees
  Parts = 20
  FeeKnown = {pancake2a, pancake2b, biswap, uniswap2}
  CommonFee = 1
  Verified = {pancake3a, pancake3b, fusion}
  Tax <- Taxes
  Paths <- AllPaths
  AmountsIn = {60}
  Trades = {30}
  Reserves = 1000
  Holding = 90
  Contract = Contract
  NoAttack = NoAttack
  NoRun = NoRun
  MaxAttacks = 1
  MaxTrades = 2
SPECIFICATION PricingSpec
CHECK_DEADLOCK FALSE
INVARIANTS LiquidityIsThePositions TickIsAtThePrice NoFreeRoundTrip
INVARIANTS NoGain DIsTheRoot FormulaIsWithinOne ClosedFormIsNewtons
INVARIANTS PathsFit DeepestOtherPool NoPoolTwice
INVARIANTS PoolsAreSquare OthersKept SellsWhatItBought
PROPERTY InvariantNeverFalls
