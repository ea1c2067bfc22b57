-------------------------- MODULE ConstantProduct --------------------------
(***************************************************************************)
(* What a constant product pool gives for an amount: as UniswapV2 of       *)
(* src/src/dex/uniswap_v2.py computes it, which is how the pools do, and   *)
(* as src/src/formula.py does.                                             *)
(***************************************************************************)
EXTENDS Integers

(* calculate_amount_out, with the fee of 0.3%.                             *)
AmountOut(amountIn, reserveIn, reserveOut) ==
  LET withFee == amountIn * 997
  IN  (withFee * reserveOut) \div (reserveIn * 1000 + withFee)

(* A mutation is what a slip in the code would make of the definition that
   follows; no action uses it.                                             *)
OptimalAmountOutFeeOnReserve(amountIn, n, s, reserveIn, reserveOut) ==
  reserveOut - (reserveIn * reserveOut * n) \div (n * (reserveIn + amountIn) - s * reserveIn)

(* _get_optimal_amount_out, with a fee of s parts of n.                    *)
OptimalAmountOut(amountIn, n, s, reserveIn, reserveOut) ==
  LET divisor == n * (reserveIn + amountIn) - s * amountIn
  IN  IF divisor = 0 THEN 0
      ELSE reserveOut - (reserveIn * reserveOut * n) \div divisor
=============================================================================
