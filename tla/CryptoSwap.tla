----------------------------- MODULE CryptoSwap -----------------------------
(***************************************************************************)
(* What Curve's pools of volatile coins give for an amount, as             *)
(* src/src/dex/curve_crypto_swap.py, curve_three_crypto_swap.py and        *)
(* curve_three_crypto_swap_ng.py compute it.  The widths the Vyper code    *)
(* wraps at are far above what pools reach, and are left out; the code's   *)
(* fixed point is a constant.                                              *)
(*                                                                         *)
(* Coins are numbered from 1.  NoQuote stands for every assertion and      *)
(* every loop that does not converge.                                      *)
(***************************************************************************)
EXTENDS Integers, Sequences, SequencesExt

CONSTANTS
  CubeRootUnit,   \* 10^6: 1 of the fixed point is its cube
  AMultiplier,    \* A_MULTIPLIER, 10000
  GammaRange,     \* MIN_GAMMA .. MAX_GAMMA
  GammaRangeNG,   \* and of the NG pools
  Tolerance,      \* 10^14: one part in it is precise enough
  LeastDiff,      \* and so is a difference below 100
  MaxCubed,       \* 2^256, below which cube roots are taken
  Dividers,       \* get_y's thresholds and what it divides by above them
  FeeParts,       \* 10^10
  Iterations,     \* 255
  NoQuote

Unit == CubeRootUnit ^ 3

ASSUME CryptoSwapAssumption ==
  /\ {CubeRootUnit, AMultiplier, Tolerance, LeastDiff, FeeParts, Iterations} \subseteq Nat \ {0}
  /\ GammaRange \union GammaRangeNG \subseteq Nat \ {0}
  /\ MaxCubed \in Nat
  /\ NoQuote \notin Int

Greater(x, y) == IF x > y THEN x ELSE y

Difference(x, y) == IF x > y THEN x - y ELSE y - x

SumOf(xs) == FoldLeft(LAMBDA s, x : s + x, 0, xs)

(* frac, of a balance in parts of D.                                       *)
IsSafe(frac) == Unit \div 100 <= frac /\ frac <= 100 * Unit

AreSafe(xs, D) == \A k \in DOMAIN xs : IsSafe((xs[k] * Unit) \div D)

(* _fee and _reduction_coefficient: from mid_fee, where the balances are
   equal, to out_fee.  For two coins the powers of n are multiplied first. *)
ProductOf(xp) ==
  LET S == SumOf(xp)
  IN  IF Len(xp) = 2 THEN (((Unit * 4 * xp[1]) \div S) * xp[2]) \div S
      ELSE FoldLeft(LAMBDA k, x : (k * Len(xp) * x) \div S, Unit, xp)

Reduction(xp, feeGamma) ==
  IF feeGamma = 0 /\ Len(xp) = 3 THEN ProductOf(xp)
  ELSE (feeGamma * Unit) \div (feeGamma + Unit - ProductOf(xp))

FeeOf(pool, xp) ==
  LET f == Reduction(xp, pool.feeGamma)
  IN  (pool.midFee * f + pool.outFee * (Unit - f)) \div Unit

-----------------------------------------------------------------------------
(* _newton_y.                                                              *)

(* _g1k0, mul1: how far K0 is from 1, and its weight against A and gamma.  *)
GammaTerm(gamma, K0) == Difference(gamma + Unit, K0) + 1

WeightTerm(pool, D, g) ==
  ((((((Unit * D) \div pool.gamma) * g) \div pool.gamma) * g) * AMultiplier) \div pool.A

(* One turn.  It starts again from half where the step would overshoot,
   and then is not looked at for convergence.                              *)
TurnOfY(D, S, y, K0, mul1, numerator) ==
  LET slope == numerator \div y
      plus == (numerator + Unit * D) \div slope + ((mul1 \div slope) * Unit) \div K0
      minus == mul1 \div slope + (Unit * S) \div slope
  IN  IF numerator < 0 THEN [y |-> y \div 2, checked |-> FALSE]
      ELSE [y |-> IF plus < minus THEN y \div 2 ELSE plus - minus, checked |-> TRUE]

(* numerator: yfprime.                                                     *)
TurnAt(pool, D, S, y, K0, g) ==
  LET mul1 == WeightTerm(pool, D, g)
      mul2 == Unit + (2 * Unit * K0) \div g
  IN  TurnOfY(D, S, y, K0, mul1, Unit * y + S * mul2 + mul1 - D * mul2)

NextCryptoY(pool, n, D, rest, K0i, y) ==
  LET K0 == (K0i * y * n) \div D
  IN  TurnAt(pool, D, rest + y, y, K0, GammaTerm(pool.gamma, K0))

NewtonCryptoY(pool, n, D, rest, K0i, start, limit) ==
  LET from[y \in Int, turns \in 0 .. Iterations] ==
        LET Then(next) ==
              IF next.checked /\ Difference(next.y, y) < Greater(limit, next.y \div Tolerance)
              THEN IF IsSafe((next.y * Unit) \div D) THEN next.y ELSE NoQuote
              ELSE from[next.y, turns - 1]
        IN  IF turns = 0 THEN NoQuote ELSE Then(NextCryptoY(pool, n, D, rest, K0i, y))
  IN  from[start, Iterations]

AssertsHold(pool, n, D, others) ==
  /\ 10 * pool.A >= n ^ n * AMultiplier
  /\ pool.gamma \in GammaRange
  /\ 10 * D >= Unit
  /\ AreSafe(others, D)

Limit(largest, D) == Greater(Greater(largest \div Tolerance, D \div Tolerance), LeastDiff)

(* Of two coins.                                                           *)
NewtonY2(pool, xp, D, j) ==
  LET x == xp[3 - j]
      K0i == (Unit * 2 * x) \div D
  IN  IF AssertsHold(pool, 2, D, <<>>) /\ 2 * (Unit \div 100) <= K0i /\ K0i <= 200 * Unit
      THEN NewtonCryptoY(pool, 2, D, x, K0i, (D * D) \div (x * 4), Limit(x, D))
      ELSE NoQuote

(* sort, _sort: from high to low.                                          *)
Sorted(xs) == SortSeq(xs, LAMBDA x, y : x > y)

(* Of three: the smaller of the others first for y, the larger for K0.     *)
NewtonY3(pool, xp, D, j) ==
  LET others == Sorted(RemoveAt(xp, j))
      start == FoldLeft(LAMBDA y, x : (y * D) \div (x * 3), D \div 3, Reverse(others))
      K0i == FoldLeft(LAMBDA k, x : (k * x * 3) \div D, Unit, others)
  IN  IF ~AssertsHold(pool, 3, D, others) THEN NoQuote
      ELSE NewtonCryptoY(pool, 3, D, SumOf(others), K0i, start, Limit(others[1], D))

-----------------------------------------------------------------------------
(* Quotes.                                                                 *)

(* The scale of coin k's balance: its price in the first coin.             *)
InFirstCoin(pool, k, amount) ==
  IF k = 1 THEN amount * pool.precisions[1]
  ELSE (amount * pool.priceScale[k - 1] * pool.precisions[k]) \div Unit

CryptoScaled(pool, balances) == [k \in DOMAIN balances |-> InFirstCoin(pool, k, balances[k])]

(* Back to amounts: at once for two coins, in two divisions for three.     *)
Given(pool, j, dy) ==
  IF j = 1 THEN dy \div pool.precisions[1]
  ELSE IF Len(pool.balances) = 2 THEN (dy * Unit) \div (pool.priceScale[1] * pool.precisions[2])
  ELSE ((dy * Unit) \div pool.priceScale[j - 1]) \div pool.precisions[j]

NetOf(pool, xp, j, y) ==
  LET dy == Given(pool, j, xp[j] - y - 1)
      fee == FeeOf(pool, [k \in DOMAIN xp |-> IF k = j THEN y ELSE xp[k]])
  IN  IF y = NoQuote THEN NoQuote ELSE dy - (fee * dy) \div FeeParts

(* The balances with the amount paid in.                                   *)
PaidIn(pool, i, amount) == CryptoScaled(pool, [pool.balances EXCEPT ![i] = @ + amount])

(* _geometric_mean of two.                                                 *)
GeometricMean(x1, x2) ==
  LET from[D \in Int, turns \in 0 .. Iterations] ==
        LET next == (D + (x1 * x2) \div D) \div 2
            diff == Difference(next, D)
        IN  IF turns = 0 THEN NoQuote
            ELSE IF diff <= 1 \/ diff * Unit < next THEN next ELSE from[next, turns - 1]
  IN  from[x1, Iterations]

(***************************************************************************)
(* CurveCryptoSwap._newton_D works out the first correction and does not   *)
(* make it: D is that of balances in the proportion of their prices.       *)
(***************************************************************************)
RampD2(pool) ==
  LET x == Sorted(CryptoScaled(pool, pool.balances))
      D == 2 * GeometricMean(x[1], x[2])
  IN  IF AreSafe(x, D) THEN D ELSE NoQuote

Crypto2Quote(pool, i, j, amount) ==
  LET xp == PaidIn(pool, i, amount)
      Net(D) == IF D = NoQuote THEN NoQuote ELSE NetOf(pool, xp, j, NewtonY2(pool, xp, D, j))
  IN  Net(IF pool.ramping THEN RampD2(pool) ELSE pool.D)

Crypto3Quote(pool, i, j, amount) ==
  LET xp == PaidIn(pool, i, amount)
  IN  NetOf(pool, xp, j, NewtonY3(pool, xp, pool.D, j))

-----------------------------------------------------------------------------
(* CurveThreeCryptoSwapNG.                                                 *)

(* _snekmate_log_2, rounded down.                                          *)
LogTwo(x) == IF x = 0 THEN 0 ELSE CHOOSE b \in 0 .. 30 : x \div 2 ^ b = 1

(* A mutation is what a slip in the code would make of the definition that
   follows; no action uses it.                                             *)
NextCubeRootOnce(xx, a) == (a + (IF a = 0 THEN 0 ELSE xx \div (a * a))) \div 3

NextCubeRoot(xx, a) == (2 * a + (IF a = 0 THEN 0 ELSE xx \div (a * a))) \div 3

(* _cbrt: seven turns from a power of the cube root of 2, with as many
   places after the point as there is room for.                            *)
CubeRoot(x) ==
  LET most == MaxCubed \div (Unit * Unit)
      xx == IF x >= most * Unit THEN x ELSE IF x >= most THEN x * Unit ELSE x * Unit * Unit
      log == LogTwo(xx)
      guess == (2 ^ (log \div 3) * 1260 ^ (log % 3)) \div 1000 ^ (log % 3)
      root == FoldLeft(LAMBDA a, k : NextCubeRoot(xx, a), guess, [k \in 1 .. 7 |-> k])
  IN  IF x >= most * Unit THEN root * CubeRootUnit * CubeRootUnit
      ELSE IF x >= most THEN root * CubeRootUnit ELSE root

CubeRootSigned(x) == IF x >= 0 THEN CubeRoot(x) ELSE -CubeRoot(-x)

(* unsafe_div rounds towards 0, and gives 0 for 0.                         *)
DivOf(x, y) ==
  LET magnitude == (IF x < 0 THEN -x ELSE x) \div (IF y < 0 THEN -y ELSE y)
  IN  IF y = 0 THEN 0 ELSE IF (x < 0) = (y < 0) THEN magnitude ELSE -magnitude

SquareRoot(x) == CHOOSE r \in 0 .. 46340 : r * r <= x /\ x < (r + 1) * (r + 1)

(***************************************************************************)
(* One turn of _newton_D.  K0 is the product of the balances against that  *)
(* of equal ones.                                                          *)
(***************************************************************************)
TurnOfD(S, D, K0, mul1, slope) ==
  LET plus == (D * (slope + S)) \div slope
      part == (D * (mul1 \div slope)) \div Unit
      minus == (D * D) \div slope
                 + (IF Unit > K0 THEN (part * (Unit - K0)) \div K0
                    ELSE -((part * (K0 - Unit)) \div K0))
  IN  IF plus > minus THEN plus - minus ELSE (minus - plus) \div 2

(* slope: neg_fprime.                                                      *)
TurnAtD(pool, S, D, K0, g) ==
  LET mul1 == WeightTerm(pool, D, g)
      mul2 == (2 * Unit * 3 * K0) \div g
  IN  TurnOfD(S, D, K0, mul1,
              S + (S * mul2) \div Unit + (mul1 * 3) \div K0 - (mul2 * D) \div Unit)

NextCryptoD(pool, x, D) ==
  LET K0 == FoldLeft(LAMBDA k, b : (k * b * 3) \div D, Unit, x)
  IN  TurnAtD(pool, SumOf(x), D, K0, GammaTerm(pool.gamma, K0))

NewtonD3(pool, xp) ==
  LET x == Sorted(xp)
      start == 3 * CubeRoot((((x[1] * x[2]) \div Unit) * x[3]) \div Unit)
      from[D \in Int, turns \in 0 .. Iterations] ==
        LET Then(next) ==
              IF Difference(next, D) * Tolerance < Greater(LeastDiff * Tolerance, next)
              THEN IF AreSafe(x, next) THEN next ELSE NoQuote
              ELSE from[next, turns - 1]
        IN  IF turns = 0 THEN NoQuote ELSE Then(NextCryptoD(pool, x, D))
  IN  from[start, Iterations]

Divider(d0) ==
  LET above == SelectSeq(Dividers, LAMBDA d : d0 > d[1])
  IN  IF above = <<>> THEN 1 ELSE above[1][2]

(***************************************************************************)
(* _get_y: K0 by the formula of the cubic equation it is a root of, and    *)
(* the balance from it.  The coefficients are first divided by what keeps  *)
(* them in range.                                                          *)
(***************************************************************************)
Coefficients(pool, xj, xk, D) ==
  LET square == pool.gamma * pool.gamma
  IN  [a |-> (Unit * Unit) \div 27,
       b |-> (Unit * Unit) \div 9 + (2 * Unit * pool.gamma) \div 27
               - DivOf(DivOf(DivOf(DivOf(D * D, xj) * square * pool.A, 27 * 27), AMultiplier), xk),
       c |-> (Unit * Unit) \div 9 + (pool.gamma * (pool.gamma + 4 * Unit)) \div 27
               + DivOf(DivOf(DivOf(square * (xj + xk - D), D) * pool.A, 27), AMultiplier),
       d |-> ((Unit + pool.gamma) * (Unit + pool.gamma)) \div 27]

AbsoluteOf(x) == IF x < 0 THEN -x ELSE x

Fitted(of) ==
  LET floor == IF of.b < 0 THEN (-3 * of.a * of.c) \div (-of.b) ELSE (3 * of.a * of.c) \div of.b
      divider == Divider(Difference(floor, of.b))
      Times(extra) == [k \in DOMAIN of |-> DivOf(of[k] * extra, divider)]
      Over(extra) == [k \in DOMAIN of |-> DivOf(DivOf(of[k], extra), divider)]
  IN  IF of.a > AbsoluteOf(of.b) THEN Times(AbsoluteOf(DivOf(of.a, of.b)))
      ELSE Over(AbsoluteOf(DivOf(of.b, of.a)))

(* sqrt_arg, which has to be above 0.                                      *)
Radicand(b, delta0, delta1) ==
  delta1 * delta1 + DivOf(4 * delta0 * delta0, b) * delta0

(* second_cbrt, C1 and 3 K0.                                               *)
SecondRoot(delta1, root) ==
  IF delta1 > 0 THEN CubeRoot((delta1 + root) \div 2) ELSE -CubeRoot(DivOf(root - delta1, 2))

FirstRoot(b, second) ==
  DivOf(DivOf(CubeRootSigned(b) * CubeRootSigned(b), Unit) * second, Unit)

ThriceK0(b, delta0, C1) == b + DivOf(b * delta0, C1) - C1

(* The balance, or NoQuote where the formula has none.                     *)
CubicY(of, xj, xk, D) ==
  LET Root(delta0, delta1) ==
        LET C1 == FirstRoot(of.b, SecondRoot(delta1, SquareRoot(Radicand(of.b, delta0, delta1))))
        IN  IF Radicand(of.b, delta0, delta1) <= 0 THEN NoQuote
            ELSE DivOf(DivOf(DivOf(DivOf(D * D, 27), xk) * D, xj)
                         * DivOf(ThriceK0(of.b, delta0, C1), 3), of.a)
  IN  Root(DivOf(3 * of.a * of.c, of.b) - of.b,
           DivOf(9 * of.a * of.c, of.b) - 2 * of.b - DivOf(DivOf(27 * of.a * of.a, of.b) * of.d, of.b))

ClosedY(pool, xp, D, j) ==
  LET others == RemoveAt(xp, j)
      Checked(root) ==
        IF root = NoQuote THEN NewtonY3(pool, xp, D, j)
        ELSE IF IsSafe((root * Unit) \div D) THEN root ELSE NoQuote
  IN  IF 100 * pool.A < 27 * AMultiplier \/ pool.gamma \notin GammaRangeNG \/ ~AreSafe(others, D)
      THEN NoQuote
      ELSE Checked(CubicY(Fitted(Coefficients(pool, others[1], others[2], D)),
                          others[1], others[2], D))

CryptoNGQuote(pool, i, j, amount) ==
  LET xp == PaidIn(pool, i, amount)
      Net(D) == IF D = NoQuote THEN NoQuote ELSE NetOf(pool, xp, j, ClosedY(pool, xp, D, j))
  IN  Net(IF pool.ramping THEN NewtonD3(pool, CryptoScaled(pool, pool.balances)) ELSE pool.D)
=============================================================================
