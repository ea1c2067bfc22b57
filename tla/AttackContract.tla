--------------------------- MODULE AttackContract ---------------------------
(***************************************************************************)
(* contract/contracts: the front run and the back run of one path through  *)
(* several pools, as a ledger of who holds what between two swaps.         *)
(*                                                                         *)
(* An attack is probed on a copy of the chain, planned with what the probe *)
(* got, and run while others trade.  A transaction is a sequence of steps, *)
(* one for each call of SwapRouter.swap, that nothing else interrupts; one *)
(* that reverts restores the ledger it began with.                         *)
(***************************************************************************)
EXTENDS Integers, Sequences

CONSTANTS
  Tokens, PoolAddresses,
  Coins,          \* the two tokens of a pool
  Dex,            \* the id of a pool's exchange in dex2id.json
  PoolFee,        \* what a pool takes of Parts parts
  Parts,
  FeeKnown,       \* the pools whose fee getNandS knows by their factory
  CommonFee,      \* the fee it assumes for the others
  Verified,       \* the pools that the callback finds at their factory
  Tax,            \* percentage of a transfer that a token keeps
  Paths, AmountsIn,    \* paths and first amounts of attacks
  Trades,         \* amounts others trade, deposit or withdraw
  Reserves,       \* what a pool begins with of either token
  Holding,        \* what the contract begins with of every token
  Contract, NoAttack, NoRun,
  MaxAttacks, MaxTrades

(* A pair computes with products of four factors, which uint256 holds and
   TLC's integers hold for small reserves and few parts.                   *)
ASSUME PoolsAreTwoTokens ==
  /\ Parts \in Nat \ {0} /\ CommonFee \in 0 .. Parts - 1
  /\ \A p \in PoolAddresses : \E t, u \in Tokens : t # u /\ Coins[p] = {t, u}
  /\ \A p \in PoolAddresses : PoolFee[p] \in 0 .. Parts - 1
  /\ \A p \in PoolAddresses \ FeeKnown : PoolFee[p] <= CommonFee

ASSUME AmountsAreUnsigned ==
  /\ Reserves \in Nat \ {0} /\ Holding \in Nat
  /\ AmountsIn \subseteq Nat /\ Trades \subseteq Nat
  /\ \A t \in Tokens : Tax[t] \in 0 .. 100

(* One token more than pools; a pool swaps the two it stands between.      *)
ASSUME PathsAreRoutes ==
  \A path \in Paths :
    /\ path.pools \in Seq(PoolAddresses) /\ path.tokens \in Seq(Tokens)
    /\ Len(path.pools) > 0 /\ Len(path.tokens) = Len(path.pools) + 1
    /\ \A i \in 1 .. Len(path.pools) :
         /\ path.tokens[i] # path.tokens[i + 1]
         /\ Coins[path.pools[i]] = {path.tokens[i], path.tokens[i + 1]}

Books == [PoolAddresses -> [Tokens -> Int]]
Ledgers == [PoolAddresses \union {Contract} -> [Tokens -> Int]]

(* The attack under way, with what was planned for it.                     *)
Attacks ==
  [path: Paths, in: AmountsIn, out: Nat, poolBalance: Int, guarded: BOOLEAN,
   stage: {"probed", "planned", "open", "missed", "closed"}, bought: BOOLEAN, failed: BOOLEAN]

(* A call of the contract between two swaps.                               *)
Runs ==
  [kind: {"probe", "front", "back"}, guarded: BOOLEAN, leg: Nat, amount: Nat,
   from: PoolAddresses \union {Contract}, saved: [balance: Ledgers, book: Books]]

ASSUME ContractIsNoPool ==
  Contract \notin PoolAddresses /\ NoAttack \notin Attacks /\ NoRun \notin Runs

VARIABLES
  balance,        \* holder -> token -> amount, of pools and the contract
  book,           \* pool -> token -> what the pool knows it holds
  attack,         \* the attack under way and what was planned for it
  run,            \* the transaction under way, or the probe
  aside,          \* what the contract holds apart from the attack
  attacks, trades

contractVars == <<balance, book, attack, run, aside, attacks, trades>>

ContractInit ==
  /\ book = [p \in PoolAddresses |-> [t \in Tokens |-> IF t \in Coins[p] THEN Reserves ELSE 0]]
  /\ balance = [h \in PoolAddresses \union {Contract} |->
                  IF h = Contract THEN [t \in Tokens |-> Holding] ELSE book[h]]
  /\ attack = NoAttack
  /\ run = NoRun
  /\ aside = [t \in Tokens |-> Holding]
  /\ attacks = 0
  /\ trades = 0

-----------------------------------------------------------------------------
(* Tokens.                                                                 *)

Arriving(t, amount) == amount - (amount * Tax[t]) \div 100

Transferred(holdings, t, from, to, amount) ==
  [holdings EXCEPT ![from][t] = @ - amount, ![to][t] = @ + Arriving(t, amount)]

-----------------------------------------------------------------------------
(* Exchanges, by the numbers of Utils.sol.                                 *)

UniswapV2Ids == 0 .. 10
UniswapV3Ids == 11 .. 14
PossibleFrom == UniswapV2Ids \union {15}
PossibleTo == UniswapV3Ids

DivideUp(a, b) == (a + b - 1) \div b

(* What a pool without a remainder of its own gives: external.             *)
PoolGives(p, in, out, amount) ==
  LET net == amount * (Parts - PoolFee[p])
  IN  (net * book[p][out]) \div (book[p][in] * Parts + net)

(* The pair's own test after it has paid: external.                        *)
PairAccepts(holdings, p, in, out, paid) ==
  LET got == holdings[p][in] - book[p][in]
  IN  /\ got > 0 /\ paid < book[p][out]
      /\ (holdings[p][in] * Parts - got * PoolFee[p]) * (holdings[p][out] - paid)
           >= book[p][in] * book[p][out] * Parts

(* getAmountOut takes for its input what the pair has beyond its reserve.  *)
GetAmountOut(holdings, p, in, out) ==
  LET got == holdings[p][in] - book[p][in]
      product == book[p][in] * book[p][out] * Parts * Parts
      left == DivideUp(product, holdings[p][in] * Parts - got * PoolFee[p])
  IN  IF p \in FeeKnown THEN book[p][out] - DivideUp(left, Parts)
      ELSE (got * (Parts - CommonFee) * book[p][out])
             \div (book[p][in] * Parts + got * (Parts - CommonFee))

Reverted(why) == [error |-> why, balance |-> balance, book |-> book]

(* Mutations, here and below, are what a slip in the code would make of the
   definition that follows; no action uses them.                           *)
PaysAlways(from) == TRUE

(* Whether the contract pays the pair itself: not if the pool before did.  *)
PaysPair(from) == from = Contract

(* uniswapV2Swap: pay the pair if that is to do, ask for what it owes, and
   be content with 95% of that.                                            *)
UniswapV2Swap(p, from, in, out, amount) ==
  LET paid == IF PaysPair(from) THEN Transferred(balance, in, Contract, p, amount)
              ELSE balance
      owed == GetAmountOut(paid, p, in, out)
      after == Transferred(paid, out, p, Contract, owed)
      received == after[Contract][out] - paid[Contract][out]
  IN  CASE paid[Contract][in] < 0 -> Reverted("transfer")
        [] owed = 0 -> Reverted("nothing")
        [] ~PairAccepts(paid, p, in, out, owed) -> Reverted("pair")
        [] received * 100 < owed * 95 -> Reverted("slippage")
        [] OTHER -> [error |-> "none", balance |-> after,
                     book |-> [book EXCEPT ![p] = after[p]]]

(* uniswapV3Swap: the pool pays, and calls back for its input, which the
   contract pays only to a pool it finds at the factory.  The pool reverts
   if it did not get it all.                                               *)
UniswapV3Swap(p, to, in, out, amount) ==
  LET owed == PoolGives(p, in, out, amount)
      paid == Transferred(balance, out, p, to, owed)
      after == Transferred(paid, in, Contract, p, amount)
  IN  CASE p \notin Verified -> Reverted("unpaid")
        [] after[Contract][in] < 0 -> Reverted("transfer")
        [] after[p][in] - balance[p][in] < amount -> Reverted("unpaid")
        [] OTHER -> [error |-> "none", balance |-> after,
                     book |-> [book EXCEPT ![p][in] = @ + amount, ![p][out] = @ - owed]]

(* SwapRouter.swap.  Its branch for 13, which calls bakerySwap, comes after
   the one that has taken 13 for UniswapV3.                                *)
RouterSwap(p, from, to, in, out, amount) ==
  CASE Dex[p] \in UniswapV2Ids -> UniswapV2Swap(p, from, in, out, amount)
    [] Dex[p] \in UniswapV3Ids -> UniswapV3Swap(p, to, in, out, amount)
    [] OTHER -> Reverted("Invalid dexId")

-----------------------------------------------------------------------------
(* The two loops over the pools, one forwards and one backwards.           *)

Legs(path, forward) ==
  LET n == Len(path.pools)
  IN  [i \in 1 .. n |->
         IF forward THEN [pool |-> path.pools[i], in |-> path.tokens[i], out |-> path.tokens[i + 1]]
         ELSE [pool |-> path.pools[n + 1 - i], in |-> path.tokens[n + 2 - i], out |-> path.tokens[n + 1 - i]]]

ToAddressWithoutFrom(legs, i) ==
  IF i < Len(legs) /\ Dex[legs[i].pool] \in PossibleTo THEN legs[i + 1].pool ELSE Contract

(* The pool of the next leg, if this one can pay it and it can be paid.    *)
ToAddress(legs, i) ==
  IF /\ i < Len(legs)
     /\ Dex[legs[i].pool] \in PossibleTo
     /\ Dex[legs[i + 1].pool] \in PossibleFrom
  THEN legs[i + 1].pool ELSE Contract

Start(path) == path.tokens[1]
Target(path) == path.tokens[Len(path.tokens)]
LastPool(path) == path.pools[Len(path.pools)]
Circular(path) == Start(path) = Target(path)

-----------------------------------------------------------------------------
(* A transaction.                                                          *)

InLegs == run # NoRun /\ run.leg <= Len(attack.path.pools)
AtEnd == run # NoRun /\ run.leg > Len(attack.path.pools)

LegsOfRun == Legs(attack.path, run.kind # "back")

(* What becomes of an attack one of whose transactions reverted.           *)
Fails(kind) ==
  CASE kind = "probe" -> NoAttack
    [] kind = "front" -> [attack EXCEPT !.stage = "missed"]
    [] kind = "back" -> IF attack.failed THEN NoAttack ELSE [attack EXCEPT !.failed = TRUE]

Revert ==
  /\ balance' = run.saved.balance
  /\ book' = run.saved.book
  /\ run' = NoRun
  /\ attack' = Fails(run.kind)
  /\ UNCHANGED <<aside, attacks, trades>>

(* One turn of the loop.  What the swap brought, and the next one is to
   spend, is measured where it was sent.                                   *)
Hop ==
  /\ InLegs
  /\ LET leg == LegsOfRun[run.leg]
         to == ToAddress(LegsOfRun, run.leg)
         swap == RouterSwap(leg.pool, run.from, to, leg.in, leg.out, run.amount)
     IN  IF swap.error = "none"
         THEN /\ run' = [run EXCEPT !.leg = @ + 1, !.from = to,
                                    !.amount = swap.balance[to][leg.out] - balance[to][leg.out]]
              /\ balance' = swap.balance
              /\ book' = swap.book
              /\ UNCHANGED <<attack, aside, attacks, trades>>
         ELSE Revert

(* A function that reverts before its first swap.                          *)
Refuse(kind) ==
  /\ attack' = Fails(kind)
  /\ UNCHANGED <<balance, book, run, aside, attacks, trades>>

Call(kind, guarded, amount) ==
  /\ run' = [kind |-> kind, guarded |-> guarded, leg |-> 1, amount |-> amount,
             from |-> Contract, saved |-> [balance |-> balance, book |-> book]]
  /\ UNCHANGED <<balance, book, trades>>

-----------------------------------------------------------------------------
(* The search tries a front run on the fork, reverts it, and plans with what
   it got and with what the last pool holds.                               *)

Probe(path, amount) ==
  /\ run = NoRun /\ attack = NoAttack /\ attacks < MaxAttacks
  /\ attack' = [path |-> path, in |-> amount, out |-> 0, poolBalance |-> 0,
                guarded |-> FALSE, stage |-> "probed", bought |-> FALSE, failed |-> FALSE]
  /\ aside' = balance[Contract]
  /\ attacks' = attacks + 1
  /\ Call("probe", FALSE, amount)

EndProbe(guarded) ==
  /\ AtEnd /\ run.kind = "probe"
  /\ balance' = run.saved.balance
  /\ book' = run.saved.book
  /\ run' = NoRun
  /\ attack' = [attack EXCEPT !.stage = "planned", !.out = run.amount, !.guarded = guarded,
                  !.poolBalance = run.saved.balance[LastPool(attack.path)][Target(attack.path)]]
  /\ UNCHANGED <<aside, attacks, trades>>

-----------------------------------------------------------------------------
(* sandwichFrontRun and, when guarded, sandwichFrontRunDifficult.          *)

PoolAsPlanned ==
  attack.guarded => balance[LastPool(attack.path)][Target(attack.path)] = attack.poolBalance

FrontRun ==
  /\ run = NoRun /\ attack # NoAttack /\ attack.stage = "planned"
  /\ IF PoolAsPlanned
     THEN /\ Call("front", attack.guarded, attack.in)
          /\ UNCHANGED <<attack, aside, attacks>>
     ELSE Refuse("front")

SufficesNearly(got) == attack.guarded => got * 100 >= attack.out * 95

Suffices(got) == attack.guarded => got >= attack.out

EndFrontRun ==
  /\ AtEnd /\ run.kind = "front"
  /\ IF Suffices(run.amount)
     THEN /\ run' = NoRun
          /\ attack' = [attack EXCEPT !.stage = "open", !.bought = TRUE]
          /\ UNCHANGED <<balance, book, aside, attacks, trades>>
     ELSE Revert

-----------------------------------------------------------------------------
(* Back runs.                                                              *)

Held == balance[Contract][Target(attack.path)]

CanRunBack == run = NoRun /\ attack # NoAttack /\ attack.stage \in {"open", "missed"}

BackRunWithBloxroute ==
  /\ CanRunBack /\ ~attack.guarded /\ attack.bought /\ ~attack.failed
  /\ Call("back", FALSE, attack.out)
  /\ UNCHANGED <<attack, aside, attacks>>

(* sandwichBackRun, as a bundle's last transaction or to recover.          *)
BackRun ==
  /\ CanRunBack /\ attack.bought
  /\ attack.failed = attack.guarded
  /\ ~(attack.guarded /\ Circular(attack.path))
  /\ IF Held >= attack.out
     THEN Call("back", FALSE, attack.out) /\ UNCHANGED <<attack, aside, attacks>>
     ELSE Refuse("back")

(* The account's next nonce is the back run's, also after a front run that
   reverted.                                                               *)
BackRunDifficult(onTime) ==
  /\ CanRunBack /\ attack.guarded /\ ~attack.failed
  /\ IF onTime /\ Held >= attack.out
     THEN Call("back", TRUE, attack.out) /\ UNCHANGED <<attack, aside, attacks>>
     ELSE Refuse("back")

HeldBefore == run.saved.balance[Contract][Target(attack.path)]

EndBackRun ==
  /\ AtEnd /\ run.kind = "back"
  /\ IF run.guarded /\ Circular(attack.path) /\ Held < HeldBefore
     THEN Revert
     ELSE /\ run' = NoRun
          /\ attack' = [attack EXCEPT !.stage = "closed"]
          /\ UNCHANGED <<balance, book, aside, attacks, trades>>

(* The worker goes on to its next transaction.                             *)
GiveUp ==
  /\ run = NoRun /\ attack # NoAttack
  /\ attack' = NoAttack
  /\ UNCHANGED <<balance, book, run, aside, attacks, trades>>

-----------------------------------------------------------------------------
(* Others trade with a pool, the victim among them; the owner puts tokens
   into the contract and takes them out (Balance.sol); during an attack.   *)

Meanwhile ==
  /\ run = NoRun /\ attack # NoAttack /\ trades < MaxTrades
  /\ trades' = trades + 1

OthersSwap(p, in, out, amount) ==
  LET paid == PoolGives(p, in, out, Arriving(in, amount))
      after == [book[p] EXCEPT ![in] = @ + Arriving(in, amount), ![out] = @ - paid]
  IN  /\ Meanwhile
      /\ Dex[p] \in UniswapV3Ids => Tax[in] = 0
      /\ book' = [book EXCEPT ![p] = after]
      /\ balance' = [balance EXCEPT ![p] = after]
      /\ UNCHANGED <<attack, run, aside, attacks>>

deposit(t, amount) ==
  /\ Meanwhile
  /\ balance' = [balance EXCEPT ![Contract][t] = @ + Arriving(t, amount)]
  /\ aside' = [aside EXCEPT ![t] = @ + Arriving(t, amount)]
  /\ UNCHANGED <<book, attack, run, attacks>>

withdraw(t, amount) ==
  /\ Meanwhile /\ balance[Contract][t] >= amount
  /\ balance' = [balance EXCEPT ![Contract][t] = @ - amount]
  /\ aside' = [aside EXCEPT ![t] = @ - amount]
  /\ UNCHANGED <<book, attack, run, attacks>>

ContractNext ==
  \/ Hop
  \/ \E path \in Paths, amount \in AmountsIn : Probe(path, amount)
  \/ \E guarded \in BOOLEAN : EndProbe(guarded)
  \/ FrontRun \/ EndFrontRun
  \/ BackRunWithBloxroute \/ BackRun
  \/ \E onTime \in BOOLEAN : BackRunDifficult(onTime)
  \/ EndBackRun \/ GiveUp
  \/ \E p \in PoolAddresses, amount \in Trades :
       \E in \in Coins[p] : \E out \in Coins[p] \ {in} : OthersSwap(p, in, out, amount)
  \/ \E t \in Tokens, amount \in Trades : deposit(t, amount)
  \/ \E t \in Tokens, amount \in Trades : withdraw(t, amount)

ContractSpec == ContractInit /\ [][ContractNext]_contractVars

-----------------------------------------------------------------------------
(* Between transactions every pool knows all it holds: no swap was paid for
   in a pool that does not look at what it was sent, whichever exchanges
   follow each other (isPossibleToAddress, isPossibleFromAddress).         *)
PoolsAreSquare ==
  run = NoRun => \A p \in DOMAIN book : balance[p] = book[p]

(* A path spends of the tokens between its ends only what its own swaps
   brought: what the contract holds of them otherwise is as before, also
   when a transfer takes a tax or the pools pay each other.                *)
OthersKept ==
  (run = NoRun /\ attack # NoAttack) =>
     \A t \in Tokens \ {Start(attack.path), Target(attack.path)} :
        balance[Contract][t] = aside[t]

Undone ==
  attack # NoAttack /\ attack.stage = "closed" /\ attack.guarded /\ attack.bought
    /\ ~Circular(attack.path)

(* The back run of a guarded front run, at once or as a recovery, sells no
   tokens but those the front run bought, whoever traded in between.  With
   a single pool it sells all of them: the two tests that
   sandwichFrontRunDifficult makes, of the amount and of the pool's balance,
   let a front run pass only where it buys exactly what was planned.       *)
SellsWhatItBought ==
  Undone =>
    LET left == balance[Contract][Target(attack.path)] - aside[Target(attack.path)]
    IN  left >= 0 /\ (Len(attack.path.pools) = 1 => left = 0)
=============================================================================
