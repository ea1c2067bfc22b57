----------------------------- MODULE MCPricing -----------------------------
(***************************************************************************)
(* Small instances of Pricing for TLC.  A tick is a fourth of a power of   *)
(* two of the square root price, and a word has four bits.  The other      *)
(* pools have balances of two or three figures, one of every kind the code *)
(* tells apart.  The market has three pools for one pair with the native   *)
(* token, one for the other and two for the pair without it; a victim has  *)
(* one event, or two of which the second goes on from the first.           *)
(* Of the tokens the contract swaps ta takes a tax that a swap bears and   *)
(* tc one that it does not; its pools are pairs whose fee it knows and one *)
(* it does not (thena), pools of concentrated liquidity, one of which the  *)
(* callback does not find at its factory (sushi3), and one of BakerySwap.  *)
(***************************************************************************)
EXTENDS Pricing

CONSTANTS
  bnb, ta, tb, tc, p1, p2, p3, p4, p5, p6,
  pancake2a, pancake2b, biswap, uniswap2, thena, pancake3a, pancake3b, fusion, sushi3, bakery

Quarters == <<13777, 11585, 8192, 4096>>
TwoPositions == {[lower |-> -6, upper |-> 3, liquidity |-> 40],
                 [lower |-> -3, upper |-> 6, liquidity |-> 25]}
StartTicks == {-2, 1}
SmallAmounts == {1, 9, 60}

(* Constant product pools, equal and not.                                  *)
V2Pools == {[kind |-> "v2", balances |-> b] : b \in {<<1000, 1000>>, <<100, 450>>}}

(* A base pool.  Its D is 190, which 100 LP tokens stand for.              *)
Base == [balances |-> <<80, 110>>, mul |-> <<1, 1>>, A |-> 20, supply |-> 100,
         fee |-> 4, minusOne |-> TRUE]

StablePool(type, unit) ==
  [kind |-> "stable", type |-> type, balances |-> <<90, 40>>, mul |-> <<1, 1>>, A |-> 20,
   aPrecision |-> unit, fee |-> 4, offpeg |-> 2000, minusOne |-> TRUE,
   exchangeRate |-> <<110, 125>>, supplyRate |-> <<2, 1>>, blocks |-> 3,
   lending |-> <<TRUE, FALSE>>]

MetaPool(expired) ==
  StablePool("BASE_VIRTUAL_PRICE", 10)
    @@ [virtualPrice |-> 190, baseVirtualPrice |-> 192, cacheExpired |-> expired, base |-> Base]

StablePools ==
  {StablePool(t, 1) : t \in {"USE_BALANCES", "USE_RATES", "USE_LENDING", "USE_LENDING_1",
                             "USE_RATE_MULTIPLIERS"}}
    \union {StablePool(t, 10) : t \in {"AAVE", "STORED_RATES"}}
    \union {MetaPool(expired) : expired \in BOOLEAN}

NGPool(offpeg) ==
  [kind |-> "ng", balances |-> <<90, 40>>, rates |-> <<100, 100>>, A |-> 20,
   aPrecision |-> 10, fee |-> 4, offpeg |-> offpeg]

NGPools == {NGPool(1000), NGPool(5000), 
            [NGPool(5000) EXCEPT !.rates = <<100, 190>>] @@ [base |-> Base]}

Volatile ==
  [precisions |-> <<1, 1, 1>>, gamma |-> 10, ramping |-> FALSE, feeGamma |-> 50,
   midFee |-> 3, outFee |-> 30]

TwoCoins ==
  Volatile @@ [kind |-> "crypto", balances |-> <<300, 150>>, priceScale |-> <<432>>,
               A |-> 4, D |-> 600]

ThreeCoins(kind) ==
  Volatile @@ [kind |-> kind, balances |-> <<300, 150, 300>>, priceScale |-> <<432, 216>>,
               A |-> 27, D |-> 900]

VolatilePools ==
  {TwoCoins, ThreeCoins("tri")}
    \union {[p EXCEPT !.ramping = TRUE] : p \in {TwoCoins, ThreeCoins("tring")}}
    \union {ThreeCoins("tring")}

AllPools == V2Pools \union StablePools \union NGPools \union VolatilePools
TwoLots == {3, 20}
Gammas == 4 .. 20
OneDivider == << <<20000, 10>> >>

Pairs ==
  [p \in {p1, p2, p3, p4, p5, p6} |->
     CASE p \in {p1, p2, p3} -> {bnb, ta} [] p = p4 -> {bnb, tb} [] OTHER -> {ta, tb}]

ThreeFactories == <<{p1, p4, p5}, {p2, p6}, {p3}>>

Swaps ==
  {e \in [pool: DOMAIN Pairs, in: {bnb, ta, tb}, out: {bnb, ta, tb}] :
     e.in # e.out /\ Pairs[e.pool] = {e.in, e.out}}

UpToTwoSwaps ==
  {<<e>> : e \in Swaps}
    \union {v \in Swaps \X Swaps : v[1].out = v[2].in /\ v[1].in # v[2].out}

(* What a pool holds more of one token it holds less of the other.         *)
Balances ==
  {[p \in DOMAIN Pairs |-> [t \in Pairs[p] |-> IF t = bnb THEN d[p] ELSE 2 - d[p]]] :
     d \in {c \in [DOMAIN Pairs -> 0 .. 2] : c[p4] = 1 /\ c[p5] < 2 /\ c[p6] < 2}}

PairsOfPools ==
  [p \in PoolAddresses |-> CASE p \in {pancake2a, pancake3a} -> {bnb, ta}
                     [] p \in {uniswap2, thena, fusion} -> {ta, tb}
                     [] p = biswap -> {bnb, tc}
                     [] OTHER -> {bnb, tb}]

Ids ==
  [p \in PoolAddresses |-> CASE p \in {pancake2a, pancake2b} -> 2
                     [] p = uniswap2 -> 0
                     [] p = thena -> 3
                     [] p = biswap -> 4
                     [] p = sushi3 -> 12
                     [] p \in {pancake3a, pancake3b} -> 13
                     [] p = fusion -> 14
                     [] p = bakery -> 15]

Fees == [p \in PoolAddresses |-> IF p = thena THEN 0 ELSE 1]
Taxes == [t \in Tokens |-> CASE t = ta -> 4 [] t = tc -> 10 [] OTHER -> 0]

Along(pools, tokens) == [pools |-> pools, tokens |-> tokens]

AllPaths ==
  {Along(<<pancake2a>>, <<bnb, ta>>)}
    \union {Along(<<p>>, <<bnb, tb>>) : p \in {pancake2b, pancake3b, sushi3, bakery}}
    \union {Along(<<pancake2a, uniswap2>>, <<bnb, ta, tb>>),
            Along(<<pancake3a, thena>>, <<bnb, ta, tb>>)}
    \union {Along(<<biswap>>, <<bnb, tc>>)}
    \union {Along(<<pancake3b, q>>, <<bnb, tb, ta>>) : q \in {uniswap2, fusion}}
    \union {Along(<<pancake3b, pancake2b>>, <<bnb, tb, bnb>>),
            Along(<<pancake2b, pancake3b>>, <<bnb, tb, bnb>>)}
=============================================================================
