------------------------- MODULE PricingInvariants -------------------------
(***************************************************************************)
(* The inductive invariants on which the theorems of PricingProofs rest,   *)
(* and what they are stated with.                                          *)
(***************************************************************************)
EXTENDS Pricing

-----------------------------------------------------------------------------
(* Candidate paths.                                                        *)

(* What a path is made of is what was found, and each pool found trades    *)
(* the pair it is found for: that is the invariant.                        *)
FoundFits == \A r \in found : TokensOf[r.pool] = {r.token0, r.token1}

PathsInv ==
  /\ search \in {"arbitrage", "sandwich"}
  /\ victim \in Victims
  /\ FoundFits
  /\ PathsFit

(* The search remembers its answers, and what it made of them.             *)
SearchInv ==
  /\ search \in {"arbitrage", "sandwich"}
  /\ victim \in Victims
  /\ held \in Holdings
  /\ found \subseteq Answers
  /\ candidates = IF stage = "done" THEN [n \in DOMAIN victim |-> PathsOf(victim[n])] ELSE <<>>

-----------------------------------------------------------------------------
(* Whose tokens the contract has.                                          *)

(* The way a transaction takes: a back run the path backwards.             *)
Forwards == run.kind # "back"

TokenAt(path, forward, i) ==
  IF forward THEN path.tokens[i] ELSE path.tokens[Len(path.tokens) + 1 - i]

(* What the last swap brought and the next one is to spend.                *)
InFlight(h, t) ==
  IF /\ run # NoRun
     /\ h = run.from
     /\ t = TokenAt(attack.path, Forwards, run.leg)
  THEN run.amount ELSE 0

Middle(path) == Tokens \ {Start(path), Target(path)}

ContractTypes ==
  /\ balance \in Ledgers /\ book \in Books
  /\ attack \in Attacks \union {NoAttack}
  /\ run \in Runs \union {NoRun}
  /\ aside \in [Tokens -> Int]

(* Nobody takes all a pool has.                                            *)
Solvent(known) == \A p \in PoolAddresses : \A t \in Coins[p] : known[p][t] > 0

Square(owned, known) == \A p \in PoolAddresses, t \in Tokens : owned[p][t] = known[p][t]

(* What is on its way lies at the contract, or at the pool it is for.      *)
OnItsWay ==
  run # NoRun =>
    /\ attack # NoAttack
    /\ run.leg \in 1 .. Len(attack.path.pools) + 1
    /\ run.from # Contract =>
         /\ run.leg <= Len(attack.path.pools)
         /\ run.from = LegsOfRun[run.leg].pool
         /\ Dex[run.from] \in PossibleFrom

SquareButForIt ==
  \A p \in PoolAddresses, t \in Tokens : balance[p][t] = book[p][t] + InFlight(p, t)

KeptButForIt ==
  attack # NoAttack =>
    \A t \in Middle(attack.path) : balance[Contract][t] = aside[t] + InFlight(Contract, t)

SavedIsSound ==
  run # NoRun =>
    /\ Solvent(run.saved.book)
    /\ Square(run.saved.balance, run.saved.book)
    /\ \A t \in Middle(attack.path) : run.saved.balance[Contract][t] = aside[t]

ContractInv ==
  /\ ContractTypes
  /\ Solvent(book)
  /\ OnItsWay
  /\ SquareButForIt
  /\ KeptButForIt
  /\ SavedIsSound

-----------------------------------------------------------------------------
(* What a swap brings, and what a front run has bought.                    *)

(* What a single pool with reserves a and b brings for an amount.          *)
AskedOf(p, a, b, g) ==
  IF p \in FeeKnown
  THEN b - DivideUp(DivideUp(a * b * Parts * Parts, (a + g) * Parts - g * PoolFee[p]), Parts)
  ELSE (g * (Parts - CommonFee) * b) \div (a * Parts + g * (Parts - CommonFee))

GivenBy(p, a, b, n) ==
  (n * (Parts - PoolFee[p]) * b) \div (a * Parts + n * (Parts - PoolFee[p]))

Brings(p, in, out, a, b, amount) ==
  Arriving(out, IF Dex[p] \in UniswapV2Ids THEN AskedOf(p, a, b, Arriving(in, amount))
                ELSE GivenBy(p, a, b, amount))

Swapped(p, from, to, in, out, amount, swap) ==
  LET got == swap.balance[to][out] - balance[to][out]
  IN  /\ swap.balance \in Ledgers
      /\ swap.book \in Books
      /\ Solvent(swap.book)
      /\ got \in Nat
      /\ from = Contract => got = Brings(p, in, out, book[p][in], book[p][out], amount)
      /\ \A q \in PoolAddresses, t \in Tokens :
           swap.balance[q][t] = swap.book[q][t] + (IF q = to /\ t = out THEN got ELSE 0)
      /\ \A t \in Tokens :
           swap.balance[Contract][t] =
             balance[Contract][t] - (IF from = Contract /\ t = in THEN amount ELSE 0)
                                  + (IF to = Contract /\ t = out THEN got ELSE 0)

(* How much more of the target token the contract has than its owner left. *)
Excess(ledger) == ledger[Contract][Target(attack.path)] - aside[Target(attack.path)]

OnePool == Len(attack.path.pools) = 1

Exactly(excess, least) == excess >= least /\ (OnePool => excess = least)

StagesAgree ==
  attack # NoAttack =>
    /\ run = NoRun => attack.stage # "probed"
    /\ run # NoRun =>
         /\ run.kind = "probe" => attack.stage = "probed"
         /\ run.kind = "front" => attack.stage = "planned"
         /\ run.kind = "back" => attack.stage \in {"open", "missed"}
    /\ attack.stage \in {"probed", "planned", "missed"} => ~attack.bought

(* Before the front run there is nothing; then what was planned, or more;
   and in a back run what is on its way, or more.                          *)
BoughtInv ==
  (attack # NoAttack /\ ~Circular(attack.path)) =>
    /\ attack.stage \in {"probed", "planned"} =>
         /\ Excess(balance) = InFlight(Contract, Target(attack.path))
         /\ run # NoRun => Excess(run.saved.balance) = 0
    /\ (attack.stage = "open" /\ attack.guarded) =>
         /\ run = NoRun => Exactly(Excess(balance), attack.out)
         /\ run # NoRun =>
              /\ Exactly(Excess(run.saved.balance), attack.out)
              /\ Exactly(Excess(balance), InFlight(Contract, Target(attack.path)))
    /\ (attack.stage = "closed" /\ attack.guarded /\ attack.bought) =>
         Exactly(Excess(balance), 0)

BringsNow(known) ==
  LET p == LastPool(attack.path)
      s == Start(attack.path)
      t == Target(attack.path)
  IN  Brings(p, s, t, known[p][s], known[p][t], attack.in)

(* The plan is what reserves would bring whose product has not fallen since. *)
PlanIsFrom(known) ==
  LET p == LastPool(attack.path)
      s == Start(attack.path)
      t == Target(attack.path)
  IN  \E a \in Nat \ {0} :
        /\ attack.poolBalance > 0
        /\ a * attack.poolBalance <= known[p][s] * known[p][t]
        /\ attack.out = Brings(p, s, t, a, attack.poolBalance, attack.in)

PricedInv ==
  (attack # NoAttack /\ OnePool) =>
    /\ (attack.stage = "planned" /\ run = NoRun) => PlanIsFrom(book)
    /\ (run # NoRun /\ run.kind # "back") =>
         /\ run.leg = 1 =>
              /\ balance = run.saved.balance /\ book = run.saved.book
              /\ run.amount = attack.in /\ run.from = Contract
         /\ run.leg > 1 => run.amount = BringsNow(run.saved.book)
         /\ run.kind = "front" =>
              /\ PlanIsFrom(run.saved.book)
              /\ attack.guarded =>
                   run.saved.book[LastPool(attack.path)][Target(attack.path)] = attack.poolBalance

TradeInv == ContractInv /\ StagesAgree /\ BoughtInv /\ PricedInv

-----------------------------------------------------------------------------
(* Pairs.                                                                  *)

V2 == pool.kind = "v2"

OneSwap == [from : 1 .. 2, to : 1 .. 2, in : Nat, out : Nat]

(* A pair never gives all it has.                                          *)
PairHolds == pool.balances \in (Nat \ {0}) \X (Nat \ {0})

(* Before its last swap a pair's reserves were worth no more.              *)
LastSwapWasFair ==
  swaps # <<>> =>
    LET last == swaps[Len(swaps)]
        X == pool.balances[last.from]
        Y == pool.balances[last.to]
    IN  (X - last.in) * (Y + last.out) <= X * Y

PairInv ==
  /\ {"kind", "balances"} \subseteq DOMAIN pool
  /\ V2 => /\ "base" \notin DOMAIN pool
           /\ PairHolds
           /\ swaps \in Seq(OneSwap)
           /\ LastSwapWasFair

-----------------------------------------------------------------------------
(* The walk through a concentrated pool, and what it keeps.                *)

Minted == minted \in SUBSET Positions

(* The bits of a word that ends of positions have.                         *)
EndBits(word) ==
  {b \in 0 .. WordSize - 1 : (word * WordSize + b) * TickSpacing \in Ends}

WalkTypes ==
  /\ height \in Nat /\ infoAt \in Nat /\ infoAt <= height
  /\ Minted
  /\ start \in MinTick .. MaxTick - 1
  /\ info # Unset => info.price \in Int /\ info.liquidity \in Int
  /\ \A w \in Words : bitmap[w] \in [bits : SUBSET EndBits(w), block : Nat] \union {Unset}
  /\ \A t \in Ends : tickData[t] \in Int \union {Unset}
  /\ pc \in {"idle", "loop", "bitmap", "ticks", "step", "raised"}
  /\ walk \in [reverse : BOOLEAN, left : Int, out : Int, paid : Int,
               price : Int, tick : {walk.tick}, liquidity : Int]
  /\ quotes \in Seq([in : Int, out : Int, reverse : BOOLEAN])

Walking == pc \notin {"idle", "raised"}

(* A tick is that of the price, or the one before when the price is a      *)
(* tick's own.                                                             *)
Placed(b) ==
  InRange(b.price) =>
    /\ b.tick \in MinTick .. MaxTick - 1
    /\ PriceAt[b.tick] <= b.price /\ b.price <= PriceAt[b.tick + 1]

(* The word the walk is in.                                                *)
WordOfWalk == WordOf(First(walk))

(* What a reply belongs to, and that it is not older than the pool.        *)
ReadingIsTheWalks ==
  /\ pc \in {"bitmap", "ticks", "step"} => Continues(walk)
  /\ pc \in {"bitmap", "ticks"} =>
       /\ reading.word = WordOfWalk
       /\ reading.block \in Nat /\ infoAt <= reading.block /\ reading.block <= height
  /\ pc \in {"ticks", "step"} =>
       bitmap[WordOfWalk] # Unset /\ infoAt <= bitmap[WordOfWalk].block

TickInv ==
  /\ WalkTypes
  /\ info # Unset => Placed(info)
  /\ Walking => Placed(walk)
  /\ ReadingIsTheWalks

WordsAreTheChains ==
  \A w \in Words : bitmap[w] # Unset =>
    /\ bitmap[w].block <= height
    /\ bitmap[w].block = height => bitmap[w].bits = BitsOnChain(w)

(* Once the ticks of a word are read, too.                                 *)
TicksAreTheChains ==
  \A w \in Words :
    (bitmap[w] # Unset /\ bitmap[w].block = height /\ ~(pc = "ticks" /\ w \in WordsRead)) =>
      \A t \in TicksOnChain(w) : tickData[t] = LiquidityNet(t)

LiquidityIsKnown ==
  infoAt = height =>
    /\ \A n \in DOMAIN quotes : quotes[n].out \in Nat
    /\ info # Unset => info.liquidity = LiquidityAt(info.tick)
    /\ Walking => /\ walk.left \in Nat /\ walk.out \in Nat
                  /\ walk.liquidity = LiquidityAt(walk.tick)

CacheInv == TickInv /\ WordsAreTheChains /\ TicksAreTheChains /\ LiquidityIsKnown

-----------------------------------------------------------------------------
(* There and back through a concentrated pool.                             *)

(***************************************************************************)
(* What prices are between is reckoned without fractions: in parts of a    *)
(* number that all prices divide.                                          *)
(***************************************************************************)
Shown == 1 .. MaxSqrtRatio

IsCommon(n, S) == n \in Nat \ {0} /\ \A p \in S : \E k \in Nat \ {0} : n = k * p

Common == CHOOSE n : IsCommon(n, Shown)

Part(p) == CHOOSE k : k \in Nat \ {0} /\ Common = k * p

One == 2 ^ Resolution

Around(M, t) == {p \in M : p.lower <= t /\ t < p.upper}

(* No position of M ends between two ticks.                                *)
Even(M, a, b) == \A x \in M : \A v \in a + 1 .. b - 1 : x.lower # v /\ x.upper # v

(***************************************************************************)
(* What a pool holds as a function of its price, in parts: of token 1 it   *)
(* rises by the liquidity times the price, of token 0 it falls by the      *)
(* liquidity times one over the price, and where one of them stands still  *)
(* so does the other.                                                      *)
(***************************************************************************)
Follows(c, L, p, q) ==
  /\ c.one[q] - c.one[p] = L * (q - p)
  /\ c.zero[p] - c.zero[q] = L * (One * (Part(p) - Part(q)))

Tilts(c, p, q) ==
  /\ c.one[p] <= c.one[q] /\ c.zero[q] <= c.zero[p]
  /\ c.one[p] = c.one[q] <=> c.zero[p] = c.zero[q]

IsCurve(M, c) ==
  /\ c \in [one : [Shown -> Int], zero : [Shown -> Int]]
  /\ \A p, q \in Shown : p <= q => Tilts(c, p, q)
  /\ \A a, b \in MinTick .. MaxTick, p, q \in Shown :
       (a < b /\ Even(M, a, b) /\ PriceAt[a] <= p /\ p <= q /\ q <= PriceAt[b])
         => Follows(c, Liquidity(Around(M, a)), p, q)

Curve(M) == CHOOSE c : IsCurve(M, c)

(* What was paid and what was given, when that covers the way between two  *)
(* prices along a curve.                                                   *)
Booked(c, reverse, p, q, in, out) ==
  /\ reverse => /\ p <= q
                /\ c.one[q] - c.one[p] <= in * One
                /\ out * Common <= c.zero[p] - c.zero[q]
  /\ ~reverse => /\ q <= p
                 /\ c.zero[q] - c.zero[p] <= in * Common
                 /\ out * One <= c.one[p] - c.one[q]

(***************************************************************************)
(* While the chain is where the pool was fetched, a walk is booked from    *)
(* the price its quote began at, and the first quote from some price to    *)
(* the pool's.                                                             *)
(***************************************************************************)
PricesAreShown ==
  /\ (info # Unset \/ Walking \/ quotes # <<>>) => info.price \in Shown
  /\ Walking => walk.price \in Shown

WalkIsBooked ==
  Walking => /\ Booked(Curve(minted), walk.reverse, info.price, walk.price,
                       walk.paid - walk.left, walk.out)
             /\ Len(quotes) < 2
             /\ quotes # <<>> => walk.paid = quotes[1].out

QuoteIsBooked ==
  Len(quotes) = 1 =>
    \E p \in Shown : Booked(Curve(minted), quotes[1].reverse, p, info.price,
                            quotes[1].in, quotes[1].out)

RoundTripInv ==
  /\ CacheInv
  /\ NoFreeRoundTrip
  /\ infoAt = height => PricesAreShown /\ WalkIsBooked /\ QuoteIsBooked
=============================================================================
