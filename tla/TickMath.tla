------------------------------ MODULE TickMath ------------------------------
(***************************************************************************)
(* The arithmetic of a concentrated liquidity pool, as                     *)
(* src/src/dex/uniswap_v3.py does it: the price at a tick, the tick at a   *)
(* price, and one step of a swap.  Every number is an unbounded integer,   *)
(* as in Python; the widths of the fixed points are constants.             *)
(***************************************************************************)
EXTENDS Integers, Sequences, SequencesExt

CONSTANTS
  Fraction,    \* bits after the point while ratios are multiplied, 128
  Resolution,  \* bits after the point of a square root price, 96
  Factors,     \* Factors[i]: the ratio 2^(i - 1) ticks make, 20 of them
  MaxTick,     \* 887272
  LogBits,     \* bits of the logarithm after the point, 14
  LogFactor,   \* ticks per power of two of the price, times LogOne ..
  LogOne,      \* .. for a logarithm in units of its last bit
  LogLow,      \* how far too large the logarithm may be
  LogHigh,     \* how far too small
  FeeUnit      \* parts in which a fee is given, 10^6

ASSUME TickMathAssumption ==
  /\ Resolution \in Nat /\ Fraction \in Nat \ {0} /\ Resolution <= Fraction
  /\ 2 ^ Resolution \in Nat \ {0}
  /\ Factors \in Seq(1 .. 2 ^ Fraction)
  /\ MaxTick \in 1 .. 2 ^ Len(Factors) - 1
  /\ LogBits \in Nat \ {0}
  /\ LogOne \in Nat \ {0}
  /\ FeeUnit \in Nat \ {0, 1}

MinTick == -MaxTick

ShiftRight(x, bits) == x \div 2 ^ bits

(* div_rounding_up.                                                        *)
DivUp(x, y) ==
  IF y = 0 THEN 0 ELSE (x \div y) + (IF x % y > 0 THEN 1 ELSE 0)

(* mul_div_rounding_up.                                                    *)
MulDivUp(a, b, denominator) ==
  ((a * b) \div denominator) + (IF (a * b) % denominator > 0 THEN 1 ELSE 0)

-----------------------------------------------------------------------------
(* Ticks and prices.                                                       *)

Magnitude(tick) == IF tick < 0 THEN -tick ELSE tick

(* The ratio a tick makes of the price: those of the tick's bits
   multiplied, and turned round for a positive tick.                       *)
RatioAtTick(tick) ==
  LET HasBit(i) == (Magnitude(tick) \div 2 ^ (i - 1)) % 2 = 1
      ratio == FoldLeftDomain(LAMBDA r, i :
                 IF HasBit(i) THEN ShiftRight(r * Factors[i], Fraction) ELSE r,
                 2 ^ Fraction, Factors)
  IN  IF tick > 0 THEN (2 ^ (2 * Fraction) - 1) \div ratio ELSE ratio

(* get_sqrt_ratio_at_tick.                                                 *)
SqrtRatioAtTick(tick) == DivUp(RatioAtTick(tick), 2 ^ (Fraction - Resolution))

(* The prices of all ticks, as a table.                                    *)
PriceAt == [t \in MinTick .. MaxTick |-> SqrtRatioAtTick(t)]

MinSqrtRatio == PriceAt[MinTick]

MaxSqrtRatio == PriceAt[MaxTick]

(* The place of the most significant bit.                                  *)
HighBit(x) == CHOOSE b \in 0 .. 2 * Fraction : 2 ^ b <= x /\ x < 2 ^ (b + 1)

(***************************************************************************)
(* The logarithm to the base 2 of a ratio, in units of 2^-LogBits: each    *)
(* bit after the point is whether the square of what is left reaches 2.    *)
(***************************************************************************)
Log2(ratio) ==
  LET msb == HighBit(ratio)
      scaled == IF msb >= Fraction THEN ShiftRight(ratio, msb - Fraction + 1)
                ELSE ratio * 2 ^ (Fraction - 1 - msb)
      Refine(s, i) ==
        LET square == ShiftRight(s.r * s.r, Fraction - 1)
            f == ShiftRight(square, Fraction)
        IN  [r |-> ShiftRight(square, f), log |-> 2 * s.log + f]
  IN  FoldLeft(Refine, [r |-> scaled, log |-> msb - Fraction],
               [i \in 1 .. LogBits |-> i]).log

(* Mutations, here and below, are what a slip in the code would make of the
   definition that follows; no action uses them.                           *)
TickAtSqrtRatioHigh(price) ==
  LET ratio == price * 2 ^ (Fraction - Resolution)
  IN  (Log2(ratio) * LogFactor + LogHigh) \div LogOne

(* The ticks the error of the logarithm leaves.                            *)
LowTick(price) == (Log2(price * 2 ^ (Fraction - Resolution)) * LogFactor - LogLow) \div LogOne

HighTick(price) == (Log2(price * 2 ^ (Fraction - Resolution)) * LogFactor + LogHigh) \div LogOne

(***************************************************************************)
(* get_tick_at_sqrt_ratio: of the two ticks the error of the logarithm     *)
(* leaves, the higher unless its price is above the price.                 *)
(***************************************************************************)
TickAtSqrtRatio(price) ==
  LET low == LowTick(price)
      high == HighTick(price)
  IN  IF low = high \/ SqrtRatioAtTick(high) > price THEN low ELSE high

(* The factors are precise enough for the prices of two ticks to differ.   *)
ASSUME PricesIncrease ==
  /\ \A tick \in MinTick .. MaxTick : PriceAt[tick] \in Nat \ {0}
  /\ \A low, high \in MinTick .. MaxTick : low < high => PriceAt[low] < PriceAt[high]

(* The logarithm is as close as LogLow and LogHigh say: the tick of a      *)
(* price is one of two.                                                    *)
ASSUME LogIsClose ==
  \A tick \in MinTick .. MaxTick - 1 :
    \A price \in PriceAt[tick] .. PriceAt[tick + 1] - 1 :
      /\ LowTick(price) \in Int /\ LowTick(price) <= tick
      /\ HighTick(price) \in {tick, LowTick(price) + 1} /\ tick <= HighTick(price)

-----------------------------------------------------------------------------
(* Amounts between two prices, and the price an amount leads to.           *)

Lower(p, q) == IF p > q THEN q ELSE p

Upper(p, q) == IF p > q THEN p ELSE q

(* get_amount0_delta, get_amount1_delta: rounded up for what is paid, down
   for what is received.                                                   *)
Amount0Delta(p, q, liquidity, up) ==
  LET low == Lower(p, q)
      high == Upper(p, q)
      scaled == liquidity * 2 ^ Resolution
  IN  IF up THEN DivUp(MulDivUp(scaled, high - low, high), low)
      ELSE ((scaled * (high - low)) \div high) \div low

Amount1Delta(p, q, liquidity, up) ==
  LET distance == Upper(p, q) - Lower(p, q)
  IN  IF up THEN MulDivUp(liquidity, distance, 2 ^ Resolution)
      ELSE (liquidity * distance) \div 2 ^ Resolution

(* get_next_sqrt_price_from_amount0_rounding_up, adding.                   *)
PriceAfterAmount0(price, liquidity, amount) ==
  LET scaled == liquidity * 2 ^ Resolution
  IN  IF amount = 0 THEN price
      ELSE MulDivUp(scaled, price, scaled + amount * price)

(* get_next_sqrt_price_from_amount1_rounding_down, adding.                 *)
PriceAfterAmount1(price, liquidity, amount) ==
  price + (amount * 2 ^ Resolution) \div liquidity

(* get_next_sqrt_price_from_output, which adds the amount whatever its
   name says, so that it takes what is paid.                               *)
NextSqrtPrice(price, liquidity, amount, zeroForOne) ==
  IF zeroForOne THEN PriceAfterAmount0(price, liquidity, amount)
  ELSE PriceAfterAmount1(price, liquidity, amount)

-----------------------------------------------------------------------------
(* compute_swap_step.                                                      *)

Paid(zeroForOne, from, to, liquidity) ==
  IF zeroForOne THEN Amount0Delta(from, to, liquidity, TRUE)
  ELSE Amount1Delta(from, to, liquidity, TRUE)

Received(zeroForOne, from, to, liquidity) ==
  IF zeroForOne THEN Amount1Delta(from, to, liquidity, FALSE)
  ELSE Amount0Delta(from, to, liquidity, FALSE)

(***************************************************************************)
(* From a price towards a target, for an amount to pay (or, below 0, to    *)
(* receive).                                                               *)
(***************************************************************************)
SwapStep(from, target, liquidity, remaining, fee) ==
  LET zeroForOne == from >= target
      exactIn == remaining >= 0
      moves == IF exactIn THEN (remaining * (FeeUnit - fee)) \div FeeUnit ELSE -remaining
      needed == IF exactIn THEN Paid(zeroForOne, from, target, liquidity)
                ELSE Received(zeroForOne, from, target, liquidity)
      next == IF moves >= needed THEN target
              ELSE NextSqrtPrice(from, liquidity, moves, zeroForOne)
      paid == Paid(zeroForOne, from, next, liquidity)
      received == Received(zeroForOne, from, next, liquidity)
  IN  [price |-> next,
       in |-> paid,
       out |-> IF ~exactIn /\ received > -remaining THEN -remaining ELSE received,
       fee |-> IF exactIn /\ next # target THEN remaining - paid
               ELSE MulDivUp(paid, fee, FeeUnit - fee)]
=============================================================================
