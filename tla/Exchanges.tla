----------------------------- MODULE Exchanges -----------------------------
(***************************************************************************)
(* Swaps through the pools that src/src/dex prices, one pool at a time:    *)
(* the constant product pools of UniswapV2 and the pools of Curve.  The    *)
(* amount a pool gives is what calculate_amount_out says, and the reserves *)
(* move as reflect moves them; that Curve's pools, which are external,     *)
(* give just that is what the repository's tests compare.                  *)
(***************************************************************************)
EXTENDS ConstantProduct, StableSwap, CryptoSwap

CONSTANTS
  Pools,     \* pools, with their balances
  Lots,      \* amounts to swap
  MaxSwaps   \* bound: swaps of one pool

(* A pool has its kind and its balances; a constant product pool has two    *)
(* of them, neither empty, and no pool under it.                           *)
ASSUME SwapsAssumption ==
  /\ Lots \subseteq Nat
  /\ \A p \in Pools :
       /\ {"kind", "balances"} \subseteq DOMAIN p
       /\ p.kind = "v2" => /\ p.balances \in (Nat \ {0}) \X (Nat \ {0})
                           /\ "base" \notin DOMAIN p

VARIABLES
  pool,    \* the pool, with what it holds
  swaps    \* what was swapped: coins and amounts

swapVars == <<pool, swaps>>

QuoteOf(p, i, j, amount) ==
  CASE p.kind = "v2"     -> AmountOut(amount, p.balances[i], p.balances[j])
    [] p.kind = "stable" -> StableQuote(p, i, j, amount, FALSE)
    [] p.kind = "ng"     -> NGQuote(p, i, j, amount)
    [] p.kind = "crypto" -> Crypto2Quote(p, i, j, amount)
    [] p.kind = "tri"    -> Crypto3Quote(p, i, j, amount)
    [] p.kind = "tring"  -> CryptoNGQuote(p, i, j, amount)

SwapsInit ==
  /\ pool \in Pools
  /\ swaps = <<>>

Reflected(balances, i, j, in, out) == [balances EXCEPT ![i] = @ + in, ![j] = @ - out]

PaidOut(i, j, amount, out) ==
  /\ out # NoQuote
  /\ out >= 0
  /\ pool' = [pool EXCEPT !.balances = Reflected(@, i, j, amount, out)]
  /\ swaps' = Append(swaps, [from |-> i, to |-> j, in |-> amount, out |-> out])

Swap(i, j, amount) ==
  /\ i # j
  /\ Len(swaps) < MaxSwaps
  /\ PaidOut(i, j, amount, QuoteOf(pool, i, j, amount))

(* A lot, or what the last swap gave.                                      *)
SwapAmounts == Lots \union (IF swaps = <<>> THEN {} ELSE {Last(swaps).out})

SwapsNext ==
  \E i, j \in DOMAIN pool.balances, amount \in SwapAmounts : Swap(i, j, amount)

SwapsSpec == SwapsInit /\ [][SwapsNext]_swapVars

-----------------------------------------------------------------------------
(* Properties.                                                             *)

(* Of the pools whose iterations stop within 1; those of volatile coins stop
   further away, and a small instance has too few places for them.         *)
NothingBackAndForth ==
  (Len(swaps) >= 2 /\ pool.kind \in {"v2", "stable", "ng"}) =>
    LET there == swaps[Len(swaps) - 1]
        back == Last(swaps)
    IN  (back.from = there.to /\ back.to = there.from /\ back.in = there.out)
          => back.out <= there.in

UnderlyingQuote(p, i, j, amount) ==
  IF p.kind = "ng" THEN NGMetaQuote(p, i, j, amount) ELSE MetaQuote(p, i, j, amount)

NothingThroughTheBase ==
  ("base" \in DOMAIN pool) =>
    \A i, j \in 1 .. Len(pool.balances) - 1 + Len(pool.base.balances) :
      \A amount \in Lots :
        i # j => UnderlyingQuote(pool, j, i, UnderlyingQuote(pool, i, j, amount)) <= amount + 2

(***************************************************************************)
(* There is nothing to gain on a way there and back.  Swapping what the    *)
(* last swap gave straight back never gives more than was paid, whatever   *)
(* was swapped before and whichever way it went; and at standing balances  *)
(* an underlying coin turned into another one, through the pool or the     *)
(* base pool under it, and back is no more than it was, but for what the   *)
(* roundings of D, which is within 1 each time, are worth.                 *)
(***************************************************************************)
NoGain == NothingBackAndForth /\ NothingThroughTheBase

(***************************************************************************)
(* What a pool's invariant is of its balances: their product, or D.        *)
(***************************************************************************)
InvariantOf(p) ==
  CASE p.kind = "v2"     -> p.balances[1] * p.balances[2]
    [] p.kind = "stable" -> GetD(ScaledBalances(p), AmpOf(p), UnitOf(p))
    [] p.kind = "ng"     -> GetDNG(ScaledNG(p), p.A * p.aPrecision, p.aPrecision)
    [] OTHER             -> 0

(* No swap takes from the pool's invariant.                                *)
InvariantNeverFalls == [][InvariantOf(pool') >= InvariantOf(pool)]_swapVars

(***************************************************************************)
(* The iteration for D ends at the root of the pool's equation             *)
(*   Ann S + D = Ann D + D^(n + 1) / (n^n prod x)                          *)
(* of two balances, within 2: there the difference of the sides changes    *)
(* its sign.                                                               *)
(***************************************************************************)
DIsTheRoot ==
  (pool.kind = "stable" /\ Len(pool.balances) = 2) =>
    LET xp == ScaledBalances(pool)
        Ann == pool.A * 2
        D == GetD(xp, AmpOf(pool), UnitOf(pool))
        F(d) == (Ann - 1) * d + (((d * d) \div (4 * xp[1])) * d) \div xp[2] - Ann * Total(xp)
    IN  F(D - 2) <= 0 /\ 0 <= F(D + 2)

(***************************************************************************)
(* The formula of formula.py rounds the other way than the pools, and says *)
(* one more than they give, or the same.                                   *)
(***************************************************************************)
FormulaIsWithinOne ==
  pool.kind = "v2" =>
    \A amount \in Lots :
      OptimalAmountOut(amount, 1000, 3, pool.balances[1], pool.balances[2])
        - AmountOut(amount, pool.balances[1], pool.balances[2]) \in {0, 1}

(***************************************************************************)
(* The balance of the closed formula of the NG pools is that of Newton's   *)
(* iteration, as far as the fixed point carries.                           *)
(***************************************************************************)
ClosedFormIsNewtons ==
  pool.kind = "tring" =>
    \A j \in DOMAIN pool.balances :
      LET xp == CryptoScaled(pool, pool.balances)
          Agree(closed, newton) ==
            (closed # NoQuote /\ newton # NoQuote) => Difference(closed, newton) * 25 <= pool.D
      IN  Agree(ClosedY(pool, xp, pool.D, j), NewtonY3(pool, xp, pool.D, j))
=============================================================================
