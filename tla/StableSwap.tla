----------------------------- MODULE StableSwap -----------------------------
(***************************************************************************)
(* What Curve's stable pools give for an amount, as                        *)
(* src/src/dex/curve_utils.py, curve_stable_swap.py and                    *)
(* curve_stable_swap_ng.py compute it: the invariant D of the balances,    *)
(* the balance that keeps D, and the quotes of the pools by their TYPE.    *)
(*                                                                         *)
(* A pool is a record: what INFORMATION_FOR_POOL and reserve_info hold of  *)
(* it.  Coins are numbered from 1.                                         *)
(***************************************************************************)
EXTENDS Integers, Sequences, SequencesExt

CONSTANTS
  Precision,       \* PRECISION, 10^18
  FeeDenominator,  \* FEE_DENOMINATOR, 10^10
  MaxTurns         \* 255, of each of Newton's iterations

ASSUME StableSwapAssumption ==
  /\ Precision \in Nat \ {0}
  /\ FeeDenominator \in Nat \ {0}
  /\ MaxTurns \in Nat \ {0}

Distance(x, y) == IF x > y THEN x - y ELSE y - x

(* Newton's iterations: until two values are within 1, or the turns are
   over.                                                                   *)
Settle(next(_), start) ==
  LET from[turns \in 1 .. MaxTurns] ==
        [y \in Int |->
           LET z == next(y)
           IN  IF Distance(z, y) <= 1 \/ turns = 1 THEN z ELSE from[turns - 1][z]]
  IN  from[MaxTurns][start]

(* xp with coin i at x.  (A function written out: TLC loses an EXCEPT of one
   that it has not evaluated yet.)                                         *)
With(xp, i, x) == [k \in 1 .. Len(xp) |-> IF k = i THEN x ELSE xp[k]]

Total(xp) == FoldLeft(LAMBDA sum, x : sum + x, 0, xp)

-----------------------------------------------------------------------------
(* get_D.                                                                  *)

(* D_P: D^(n + 1) / (n^n times the product of the balances).               *)
ProductTerm(D, xp) == FoldLeft(LAMBDA p, x : (p * D) \div (x * Len(xp)), D, xp)

(* Mutations, here and below, are what a slip in the code would make of the
   definition that follows; no action uses them.                           *)
NextDUnweighted(D, xp, Ann, unit) ==
  LET p == ProductTerm(D, xp)
  IN  (((Ann * Total(xp)) \div unit + p * Len(xp)) * D)
        \div (((Ann - unit) * D) \div unit + Len(xp) * p)

(* unit is a_precision; without one the code divides by nothing, as by 1.  *)
NextD(D, xp, Ann, unit) ==
  LET p == ProductTerm(D, xp)
  IN  (((Ann * Total(xp)) \div unit + p * Len(xp)) * D)
        \div (((Ann - unit) * D) \div unit + (Len(xp) + 1) * p)

GetD(xp, amp, unit) ==
  IF Total(xp) = 0 THEN 0
  ELSE Settle(LAMBDA D : NextD(D, xp, amp * Len(xp), unit), Total(xp))

-----------------------------------------------------------------------------
(* get_y and get_y_D: the balance of coin j that gives D with the others.  *)

NextY(y, b, c, D) == (y * y + c) \div (2 * y + b - D)

(* c and b of the quadratic equation y^2 + (b - D) y = c, of the balances
   but coin j's.                                                           *)
ConstantTerm(j, xp, D, Ann, unit) ==
  LET product == FoldLeft(LAMBDA p, x : (p * D) \div (x * Len(xp)), D, RemoveAt(xp, j))
  IN  (product * D * unit) \div (Ann * Len(xp))

LinearTerm(j, xp, D, Ann, unit) == Total(RemoveAt(xp, j)) + (D * unit) \div Ann

BalanceFor(j, xp, D, Ann, unit) ==
  LET c == ConstantTerm(j, xp, D, Ann, unit)
      b == LinearTerm(j, xp, D, Ann, unit)
  IN  Settle(LAMBDA y : NextY(y, b, c, D), D)

(* With coin i at x.                                                       *)
GetY(amp, i, j, x, xp, unit) ==
  BalanceFor(j, With(xp, i, x), GetD(xp, amp, unit), amp * Len(xp), unit)

GetYD(amp, i, xp, D) == BalanceFor(i, xp, D, amp * Len(xp), 1)

-----------------------------------------------------------------------------
(* _CurveBase.calculate_amount_out.                                        *)

Proportion(fee, amount) == (fee * amount) \div FeeDenominator

(* The rate of coin i: of a lending token as its borrowers' interest has
   made it by now, or as its pool says, or fixed.                          *)
Accrued(pool, i) ==
  pool.exchangeRate[i]
    + (pool.exchangeRate[i] * pool.supplyRate[i] * pool.blocks) \div Precision

(* base_virtual_price: what the pool keeps, until that expires.            *)
VirtualPrice(pool) == IF pool.cacheExpired THEN pool.baseVirtualPrice ELSE pool.virtualPrice

RateOf(pool, i) ==
  CASE pool.type = "STORED_RATES" -> Accrued(pool, i) * pool.mul[i]
    [] pool.type = "USE_LENDING" ->
         pool.mul[i] * (IF pool.lending[i] THEN Accrued(pool, i) ELSE Precision)
    [] pool.type = "USE_LENDING_1" ->
         pool.mul[i] * (IF pool.lending[i] THEN pool.exchangeRate[i] ELSE Precision)
    [] pool.type = "USE_RATE_MULTIPLIERS" -> pool.exchangeRate[i]
    [] pool.type = "BASE_VIRTUAL_PRICE" ->
         IF i = Len(pool.mul) THEN VirtualPrice(pool) ELSE pool.mul[i] * Precision
    [] pool.type = "USE_BALANCES" -> Precision
    [] OTHER -> pool.mul[i] * Precision

(* Balances as the invariant sees them.                                    *)
Scaled(pool, i, amount) == (RateOf(pool, i) * amount) \div Precision

ScaledBalances(pool) ==
  [i \in 1 .. Len(pool.balances) |-> Scaled(pool, i, pool.balances[i])]

(* What is paid in: the pool's own coin, or what underlies it.             *)
ScaledIn(pool, i, amount, underlying) ==
  IF underlying THEN amount * pool.mul[i] ELSE Scaled(pool, i, amount)

(* The unit of A.  GET_D_PLUS_ONE, passed where it belongs, is 1 at most.  *)
UnitOf(pool) ==
  IF pool.type \in {"AAVE", "STORED_RATES", "BASE_VIRTUAL_PRICE"} THEN pool.aPrecision ELSE 1

AmpOf(pool) == pool.A * UnitOf(pool)

UnscaledByPrecision(pool, j, amount, underlying) == amount \div pool.mul[j]

Unscaled(pool, j, amount, underlying) ==
  IF underlying \/ pool.type \in {"USE_RATES", "AAVE"} THEN amount \div pool.mul[j]
  ELSE (amount * Precision) \div RateOf(pool, j)

(* The fee of a pool off its peg, higher the further the two balances are
   from each other.                                                        *)
DynamicFee(fee, multiplier, xi, xj) ==
  IF multiplier <= FeeDenominator THEN fee
  ELSE (multiplier * fee)
         \div (((multiplier - FeeDenominator) * 4 * xi * xj) \div ((xi + xj) * (xi + xj))
                 + FeeDenominator)

FeeFirst(pool) ==
  pool.type \in {"STORED_RATES", "USE_RATE_MULTIPLIERS", "BASE_VIRTUAL_PRICE"}

(***************************************************************************)
(* What the pool gives in its coin j for an amount of coin i.  Some types  *)
(* take the fee before the balance is turned into an amount, some after;   *)
(* AAVE's takes a fixed fee as it stands, not its part of the amount.      *)
(***************************************************************************)
StableQuote(pool, i, j, amount, underlying) ==
  LET xp == ScaledBalances(pool)
      x == xp[i] + ScaledIn(pool, i, amount, underlying)
      y == GetY(AmpOf(pool), i, j, x, xp, UnitOf(pool))
      gross == xp[j] - y - (IF pool.minusOne THEN 1 ELSE 0)
      given == IF FeeFirst(pool) THEN gross ELSE Unscaled(pool, j, gross, underlying)
      fee == IF pool.type = "AAVE"
             THEN IF pool.offpeg <= FeeDenominator THEN pool.fee
                  ELSE Proportion(DynamicFee(pool.fee, pool.offpeg,
                                             (xp[i] + x) \div 2, (xp[j] + y) \div 2), given)
             ELSE Proportion(pool.fee, given)
  IN  IF FeeFirst(pool) THEN Unscaled(pool, j, given - fee, underlying) ELSE given - fee

-----------------------------------------------------------------------------
(* The base pool under a meta pool: what base_pool_... of reserve_info and
   its entry in INFORMATION_FOR_POOL say.                                  *)

BaseScaled(base) == [i \in 1 .. Len(base.mul) |-> base.mul[i] * base.balances[i]]

MintedForUnscaled(base, i, amount) ==
  GetD(BaseScaled([base EXCEPT !.balances[i] = @ + amount]), base.A, 1)
    - GetD(BaseScaled(base), base.A, 1)

(* calc_token_amount: the LP tokens minted for an amount of one coin.      *)
MintedFor(base, i, amount) ==
  LET before == GetD(BaseScaled(base), base.A, 1)
      after == GetD(BaseScaled([base EXCEPT !.balances[i] = @ + amount]), base.A, 1)
  IN  ((after - before) * base.supply) \div before

(* calc_withdraw_one_coin: the amount of one coin LP tokens are burnt for. *)
Reduced(base, i, D0, D1, new) ==
  LET n == Len(base.mul)
      xp == BaseScaled(base)
      fee == (base.fee * n) \div (4 * (n - 1))
      Expected(k) == IF k = i THEN (xp[k] * D1) \div D0 - new
                     ELSE xp[k] - (xp[k] * D1) \div D0
  IN  [k \in 1 .. n |-> xp[k] - Proportion(fee, Expected(k))]

BurntFor(base, i, tokens) ==
  LET Burnt(D1, reduced) == (reduced[i] - GetYD(base.A, i, reduced, D1) - 1) \div base.mul[i]
      From(D0, D1) ==
        Burnt(D1, Reduced(base, i, D0, D1, GetYD(base.A, i, BaseScaled(base), D1)))
      At(D0) == From(D0, D0 - (tokens * D0) \div base.supply)
  IN  At(GetD(BaseScaled(base), base.A, 1))

BaseQuote(base, i, j, amount) ==
  LET xp == BaseScaled(base)
      y == GetY(base.A, i, j, xp[i] + amount * base.mul[i], xp, 1)
      given == (xp[j] - y - (IF base.minusOne THEN 1 ELSE 0)) \div base.mul[j]
  IN  given - Proportion(base.fee, given)

(***************************************************************************)
(* The underlying coins of a meta pool: its own but the last, then the     *)
(* base pool's.  Between two of the base pool's the base pool quotes; into *)
(* or out of it the amount becomes LP tokens, the meta pool's last coin.   *)
(***************************************************************************)
MetaQuote(pool, i, j, amount) ==
  LET last == Len(pool.mul)
      xp == ScaledBalances(pool)
      baseI == i - last + 1
      baseJ == j - last + 1
      metaI == IF baseI < 1 THEN i ELSE last
      metaJ == IF baseJ < 1 THEN j ELSE last
      lp == (MintedFor(pool.base, baseI, amount) * VirtualPrice(pool)) \div Precision
      x == IF baseI < 1 THEN xp[i] + amount * pool.mul[i]
           ELSE xp[last] + lp - (lp * pool.base.fee) \div (2 * FeeDenominator)
      gross == xp[metaJ] - GetY(AmpOf(pool), metaI, metaJ, x, xp, UnitOf(pool))
                 - (IF pool.minusOne THEN 1 ELSE 0)
      given == gross - Proportion(pool.fee, gross)
  IN  IF baseI >= 1 /\ baseJ >= 1 THEN BaseQuote(pool.base, baseI, baseJ, amount)
      ELSE IF baseJ < 1 THEN given \div pool.mul[metaJ]
      ELSE BurntFor(pool.base, baseJ, (given * Precision) \div VirtualPrice(pool))

-----------------------------------------------------------------------------
(* CurveStableSwapNGBase.                                                  *)

(* _get_D divides by n^n at the end, not by n at each balance.             *)
ProductTermNG(D, xp) ==
  FoldLeft(LAMBDA p, x : (p * D) \div x, D, xp) \div Len(xp) ^ Len(xp)

NextDNG(D, xp, Ann, unit) ==
  LET p == ProductTermNG(D, xp)
  IN  (((Ann * Total(xp)) \div unit + p * Len(xp)) * D)
        \div (((Ann - unit) * D) \div unit + (Len(xp) + 1) * p)

GetDNG(xp, amp, unit) ==
  IF Total(xp) = 0 THEN 0
  ELSE Settle(LAMBDA D : NextDNG(D, xp, amp * Len(xp), unit), Total(xp))

(* From the balances xp with coin i at x, to coin j, less the fee.         *)
NetNG(pool, xp, i, j, x) ==
  LET amp == pool.A * pool.aPrecision
      y == BalanceFor(j, With(xp, i, x), GetDNG(xp, amp, pool.aPrecision),
                      amp * Len(xp), pool.aPrecision)
      gross == xp[j] - y - 1
  IN  gross - Proportion(DynamicFee(pool.fee, pool.offpeg,
                                    (xp[i] + x) \div 2, (xp[j] + y) \div 2), gross)

ScaledNG(pool) ==
  [i \in 1 .. Len(pool.balances) |-> (pool.rates[i] * pool.balances[i]) \div Precision]

(* get_dy.                                                                 *)
NGQuote(pool, i, j, amount) ==
  LET xp == ScaledNG(pool)
      x == xp[i] + (amount * pool.rates[i]) \div Precision
  IN  (NetNG(pool, xp, i, j, x) * Precision) \div pool.rates[j]

(***************************************************************************)
(* The underlying coins of a meta pool: its first, then the base pool's.   *)
(* What goes into the base pool pays no fee there but that of the pool.    *)
(***************************************************************************)
NGMetaQuote(pool, i, j, amount) ==
  LET xp == ScaledNG(pool)
      x == IF i = 1 THEN xp[1] + (amount * pool.rates[1]) \div Precision
           ELSE xp[2] + (MintedFor(pool.base, i - 1, amount) * pool.rates[2]) \div Precision
      net == NetNG(pool, xp, IF i = 1 THEN 1 ELSE 2, IF j = 1 THEN 1 ELSE 2, x)
  IN  IF i # 1 /\ j # 1
      THEN BaseQuote([pool.base EXCEPT !.minusOne = TRUE], i - 1, j - 1, amount)
      ELSE IF j = 1 THEN (net * Precision) \div pool.rates[1]
      ELSE BurntFor(pool.base, j - 1, (net * Precision) \div pool.rates[2])
=============================================================================
