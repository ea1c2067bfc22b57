------------------------------ MODULE TickWalk ------------------------------
(***************************************************************************)
(* Quotes from a concentrated liquidity pool: UniswapV3's                  *)
(* calculate_amount_out in src/src/dex/uniswap_v3.py, which walks from     *)
(* tick to tick over the bitmap words and the tick data that               *)
(* UniswapV3Bitmap keeps between quotes and asks of the node where they    *)
(* are missing or older than the block of the quote.  The chain goes on    *)
(* between any two requests.                                               *)
(*                                                                         *)
(* The pool of the chain is external: its price stands still and only its  *)
(* positions come and go.  A word of the bitmap is the set of its bits.    *)
(***************************************************************************)
EXTENDS TickMath

CONSTANTS
  Fee,          \* of the pool, in parts of FeeUnit
  TickSpacing,  \* which goes with the fee
  WordSize,     \* bits of a bitmap word, 256
  WordCache,    \* words asked for at once, word_cache_size
  Positions,    \* positions the chain may have: from a tick to a tick
  Starts,       \* ticks at which the pool may stand
  Amounts,      \* amounts to quote
  Unset,        \* Python's None, and what a dictionary does not hold
  MaxHeight     \* bound: blocks

ASSUME WalkAssumption ==
  /\ Fee \in 0 .. FeeUnit - 1
  /\ TickSpacing \in Nat \ {0}
  /\ WordSize \in Nat \ {0}
  /\ WordCache \in Nat \ {0}
  /\ IsFiniteSet(Positions)
  /\ \A p \in Positions :
       /\ {p.lower, p.upper} \subseteq MinTick .. MaxTick
       /\ p.lower < p.upper
       /\ p.lower % TickSpacing = 0 /\ p.upper % TickSpacing = 0
       /\ p.liquidity \in Nat \ {0}
  /\ Starts \subseteq MinTick .. MaxTick - 1
  /\ Amounts \subseteq Nat
  /\ MaxHeight \in Nat
  /\ Unset \notin [bits : SUBSET (0 .. WordSize - 1), block : Nat]

VARIABLES
  height,    \* of the chain
  minted,    \* the positions that exist on it
  start,     \* the tick its price is at
  info,      \* pool_info.reserve_info: price, tick and liquidity
  infoAt,    \* the height it was fetched at
  bitmap,    \* tick_bitmap: the words, with their block numbers
  tickData,  \* tick_data: the net liquidity of ticks
  pc,        \* what the quote does next
  walk,      \* its variables
  reading,   \* update_tick_data_at_word's block number, and the words it read
  quotes     \* the quotes from info: what was paid for what, which way

chainVars == <<height, minted, start>>
cacheVars == <<bitmap, tickData>>
vars == <<chainVars, info, infoAt, cacheVars, pc, walk, reading, quotes>>

-----------------------------------------------------------------------------
(* The chain.                                                              *)

Ends == {p.lower : p \in Positions} \union {p.upper : p \in Positions}

Liquidity(S) == MapThenSumSet(LAMBDA p : p.liquidity, S)

LiquidityNet(tick) ==
  Liquidity({p \in minted : p.lower = tick}) - Liquidity({p \in minted : p.upper = tick})

LiquidityAt(tick) == Liquidity({p \in minted : p.lower <= tick /\ tick < p.upper})

IsInitialized(tick) == \E p \in minted : tick \in {p.lower, p.upper}

(* A block, in which a position may be added or removed.                   *)
Mine ==
  /\ height < MaxHeight
  /\ height' = height + 1
  /\ \/ UNCHANGED minted
     \/ \E p \in Positions : minted' = (minted \union {p}) \ (minted \intersect {p})
  /\ UNCHANGED <<start, info, infoAt, cacheVars, pc, walk, reading, quotes>>

-----------------------------------------------------------------------------
(* Ticks, words and bits.                                                  *)

(* position.                                                               *)
WordOf(compressed) == compressed \div WordSize

BitOf(compressed) == compressed % WordSize

(* mostSignificantBit, leastSignificantBit.                                *)
MostSignificantBit(bits) == Max(bits)

LeastSignificantBit(bits) == Min(bits)

Words == {WordOf(c) : c \in MinTick \div TickSpacing .. MaxTick \div TickSpacing + 1}

(* tickBitmap of the pool.                                                 *)
BitsOnChain(word) ==
  {b \in 0 .. WordSize - 1 : IsInitialized((word * WordSize + b) * TickSpacing)}

(* getPopulatedTicksInWord of the lens.                                    *)
TicksOnChain(word) ==
  {t \in Ends : IsInitialized(t) /\ WordOf(t \div TickSpacing) = word}

(* The compressed tick from which the next one is looked for.              *)
First(w) ==
  IF w.reverse THEN w.tick \div TickSpacing + 1 ELSE w.tick \div TickSpacing

Masked(w, bits) ==
  {b \in bits : IF w.reverse THEN b >= BitOf(First(w)) ELSE b <= BitOf(First(w))}

(* The next tick that is initialized, or else the last of the word.        *)
NextTick(w, bits) ==
  LET masked == Masked(w, bits)
      bit == IF w.reverse
             THEN IF masked # {} THEN LeastSignificantBit(masked) ELSE WordSize - 1
             ELSE IF masked # {} THEN MostSignificantBit(masked) ELSE 0
  IN  (First(w) + (bit - BitOf(First(w)))) * TickSpacing

Clamped(tick) ==
  IF tick < MinTick THEN MinTick ELSE IF tick > MaxTick THEN MaxTick ELSE tick

-----------------------------------------------------------------------------
(* A quote.                                                                *)

Idle == [reverse |-> FALSE, left |-> 0, out |-> 0, paid |-> 0,
         price |-> 0, tick |-> 0, liquidity |-> 0]

Init ==
  /\ height = 0
  /\ minted \in SUBSET Positions
  /\ start \in Starts
  /\ info = Unset
  /\ infoAt = 0
  /\ bitmap = [w \in Words |-> Unset]
  /\ tickData = [t \in Ends |-> Unset]
  /\ pc = "idle"
  /\ walk = Idle
  /\ reading = Unset
  /\ quotes = <<>>

(* fetch_pools_reserve_info, before the quotes at a height.                *)
FetchInfo ==
  /\ pc = "idle"
  /\ info' = [price |-> PriceAt[start], tick |-> start,
              liquidity |-> LiquidityAt(start)]
  /\ infoAt' = height
  /\ quotes' = <<>>
  /\ UNCHANGED <<chainVars, cacheVars, pc, walk, reading>>

Begin(amount, reverse) ==
  /\ pc = "idle"
  /\ info # Unset
  /\ Len(quotes) < 2
  /\ pc' = "loop"
  /\ walk' = [reverse |-> reverse, left |-> amount, out |-> 0, paid |-> amount,
              price |-> info.price, tick |-> info.tick, liquidity |-> info.liquidity]
  /\ UNCHANGED <<chainVars, info, infoAt, cacheVars, reading, quotes>>

InRange(price) == MinSqrtRatio < price /\ price < MaxSqrtRatio

Continues(w) == w.left # 0 /\ InRange(w.price)

(* Mutations, here and below, are what a slip in the code would make of the
   definition that follows; no action uses them.                           *)
IsMissing(word) == bitmap[word] = Unset

(* The word is not there, or older than the block of the quote.            *)
IsMissingOrOld(word) == bitmap[word] = Unset \/ bitmap[word].block < infoAt

(* update_tick_data_at_word: the block number first.                       *)
Lookup ==
  /\ pc = "loop"
  /\ Continues(walk)
  /\ LET word == WordOf(First(walk))
     IN  IF IsMissingOrOld(word)
         THEN /\ pc' = "bitmap"
              /\ reading' = [block |-> height, word |-> word]
         ELSE /\ pc' = "step"
              /\ UNCHANGED reading
  /\ UNCHANGED <<chainVars, info, infoAt, cacheVars, walk, quotes>>

WordsRead ==
  {w \in Words : LET i == IF walk.reverse THEN w - reading.word ELSE reading.word - w
                 IN  0 <= i /\ i < WordCache}

(* get_tick_bitmap.                                                        *)
ReadBitmap ==
  /\ pc = "bitmap"
  /\ bitmap' = [w \in Words |->
                  IF w \in WordsRead THEN [bits |-> BitsOnChain(w), block |-> reading.block]
                  ELSE bitmap[w]]
  /\ pc' = "ticks"
  /\ UNCHANGED <<chainVars, info, infoAt, tickData, walk, reading, quotes>>

(* get_single_tick_data, for the words that were not empty.  What was known
   of a tick is kept when it is not among them.                            *)
ReadTicks ==
  /\ pc = "ticks"
  /\ tickData' = [t \in Ends |->
                    IF \E w \in WordsRead : bitmap[w].bits # {} /\ t \in TicksOnChain(w)
                    THEN LiquidityNet(t) ELSE tickData[t]]
  /\ pc' = "step"
  /\ reading' = Unset
  /\ UNCHANGED <<chainVars, info, infoAt, bitmap, walk, quotes>>

CrossedForgettingWay(w, net) == w.liquidity + net

(* The liquidity beyond a tick: what is added going up goes going down.    *)
Crossed(w, net) == w.liquidity + (IF w.reverse THEN net ELSE -net)

TickBeyond(w, next) == IF w.reverse THEN next ELSE next - 1

(***************************************************************************)
(* The rest of the loop's body.  That an initialized tick has no data (it  *)
(* was removed between the requests) raises, and the quote is over.        *)
(***************************************************************************)
StepTo(next, initialized) ==
  LET target == PriceAt[next]
      s == SwapStep(walk.price, target, walk.liquidity, walk.left, Fee)
      reached == s.price = target
      moved == [walk EXCEPT !.price = s.price, !.left = @ - (s.in + s.fee), !.out = @ + s.out]
  IN  IF reached /\ initialized /\ tickData[next] = Unset
      THEN pc' = "raised" /\ walk' = Idle
      ELSE /\ walk' = [moved EXCEPT
                !.liquidity = IF reached /\ initialized THEN Crossed(walk, tickData[next])
                              ELSE @,
                !.tick = IF reached THEN TickBeyond(walk, next)
                         ELSE IF s.price # walk.price THEN TickAtSqrtRatio(s.price)
                         ELSE @]
           /\ pc' = "loop"

Step ==
  /\ pc = "step"
  /\ LET bits == bitmap[WordOf(First(walk))].bits
     IN  StepTo(Clamped(NextTick(walk, bits)), Masked(walk, bits) # {})
  /\ UNCHANGED <<chainVars, info, infoAt, cacheVars, reading, quotes>>

(***************************************************************************)
(* The amount out, when the loop is over or its time is.  With reflect the *)
(* pool's information is moved to where the walk got.                      *)
(***************************************************************************)
Return(timedOut) ==
  /\ pc = "loop"
  /\ IF Continues(walk) THEN timedOut /\ walk.left # walk.paid ELSE ~timedOut
  /\ info' = [price |-> walk.price, tick |-> walk.tick, liquidity |-> walk.liquidity]
  /\ quotes' = Append(quotes, [in |-> walk.paid, out |-> walk.out, reverse |-> walk.reverse])
  /\ pc' = "idle"
  /\ walk' = Idle
  /\ UNCHANGED <<chainVars, infoAt, cacheVars, reading>>

Restart ==
  /\ pc = "raised"
  /\ pc' = "idle"
  /\ info' = Unset
  /\ quotes' = <<>>
  /\ UNCHANGED <<chainVars, infoAt, cacheVars, walk, reading>>

(* Amounts to quote first, and then back what the first quote gave.        *)
Quote ==
  \/ quotes = <<>> /\ \E amount \in Amounts, reverse \in BOOLEAN : Begin(amount, reverse)
  \/ quotes # <<>> /\ \E reverse \in BOOLEAN : Begin(quotes[1].out, reverse)

Walk == Lookup \/ ReadBitmap \/ ReadTicks \/ Step \/ Return(FALSE) \/ Restart

Next == Mine \/ FetchInfo \/ Quote \/ Walk \/ Return(TRUE)

Spec == Init /\ [][Next]_vars

-----------------------------------------------------------------------------
(* Properties.                                                             *)

(* What the walk, or the pool's information, says the liquidity is.        *)
Belief == IF pc = "idle" THEN info ELSE walk

(***************************************************************************)
(* While the chain stands where the pool was fetched, the liquidity a      *)
(* quote reckons with is that of the positions its tick is in, whatever    *)
(* words and ticks are left in the cache from before.                      *)
(***************************************************************************)
LiquidityIsThePositions ==
  (infoAt = height /\ info # Unset /\ pc # "raised") => Belief.liquidity = LiquidityAt(Belief.tick)

(***************************************************************************)
(* And the tick is the last one whose price is not above the walk's,       *)
(* unless the walk has just come down to that price.                       *)
(***************************************************************************)
TickIsAtThePrice ==
  (info # Unset /\ pc # "raised" /\ InRange(Belief.price)) =>
    \/ /\ PriceAt[Belief.tick] <= Belief.price
       /\ Belief.price < PriceAt[Belief.tick + 1]
    \/ Belief.price = PriceAt[Belief.tick + 1]

(***************************************************************************)
(* Swapping an amount and swapping back what it gave never gives more than *)
(* the amount, by the quotes of a chain that stands still.                 *)
(***************************************************************************)
NoFreeRoundTrip ==
  (infoAt = height /\ Len(quotes) = 2 /\ quotes[1].reverse # quotes[2].reverse)
    => quotes[2].out <= quotes[1].in
=============================================================================
