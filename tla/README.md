# A formal model of the BSC attack bots

The repository watches the mempool of BNB Smart Chain through a feed, traces each transaction, searches a sandwich
(`main_sandwich.py`) or an arbitrage (`main.py`) on it by simulation on a forked chain, and sends the attack by one of
several routes. This directory holds TLA+ modules of the parts where processes, blocks, failures and retries meet, and
of the integer algorithms the decisions are computed with; TLC configurations that check them on small instances; and
proofs for the TLA+ proof system (TLAPS).

## 1. Inventory

| Component | Source | State it keeps | Operations | Interacts with |
|---|---|---|---|---|
| Transaction stream | `src/apis/subscribe.py` 104-202 | the notification in hand | receive, test the queue, trace, put; reconnect on any exception or timeout | feed, node, queue |
| Validator stream | `subscribe.py` 205-271 | the shared value | store a height, -1 or 0 | feed, workers |
| Sandwich workers | `main_sandwich.py` 43-183 | their idea of the latest block and its time, the transaction and attack in hand | take, wait for a block, search, test, route, send, wait, recover | queue, shared value, node, relays |
| Arbitrage workers | `main.py` 43-120 | the transaction and attack in hand | take, search, test, route, send | queue, shared value, node, relays |
| Sending | `src/apis/transaction.py` | none; the nonce is read anew each time | nonce, bundles, single run, front and back run, recovery | node, 48 Club, bloXroute |
| Node queries | `src/apis/simple.py` | none | block number, pending, successful, delay | node |
| Candidate paths | `sandwich/search.py` 18-87, `arbitrage/search.py` 19-204, `apis/contract.py` 273-389 | none | ask for pools, ask for balances, choose | multicall |
| Search and simulation | `src/sandwich/*.py`, `src/arbitrage/*.py` | iterator, best figures | paths, amounts, the calls of a probe | fork |
| Fork | `src/evm.py`, `pyrevm/src/*.rs` | snapshot, commit count; journal, depth, checkpoints | set, revert, counted and uncounted calls | node behind the fork |
| Swap events | `src/apis/trace_tx.py`, `src/types.py` | list of events | swap call, transfer call, filter, sort | node (trace) |
| Multicall | `src/multicall/*.py` | the step of the process, the fetches of a multicall | batch, fetch, rebatch, gather | node |
| Prices | `src/dex/*.py`, `src/formula.py` | bitmap words and ticks of concentrated pools; a table of prices | quotes of every kind of pool, Newton iterations | multicall |
| Optima | `sandwich/optimization.py` | none | closed forms in floating point | search |
| Contract | `contract/contracts` | the tokens it holds | front run, back run, swaps, callbacks, deposit, withdraw | exchanges, workers, fork |

(Paths are below `src/` of the repository root or, for `src/apis` and the like, below its `src/src/`.)

Six workers, one transaction stream and one validator stream are processes that share a queue of 40 and one integer.
They also share, less visibly, the *account* whose nonce each of them reads on its own, and the *chain*, which moves
between any two of their calls.

What is hard here:

* **Concurrency.** `empty()` and `get()`, `full()` and `put()` are pairs of calls with time between them. The shared
  value is read up to three times for one decision. Six workers use one nonce.
* **Order and age.** An attack is good for one block. Whether a block is the latest is read, then used. Bitmap words
  are kept from block to block and fetched again only where they are older than the quote.
* **Partial failure.** A front run without its back run leaves tokens in the contract; any exception in between ends
  in one handler around the whole loop body. A call on the fork that the node tears leaves its journal level open. One
  of many concurrent fetches fails and changes the step of all. An answer is missing from a multicall.
* **Waiting.** For a newer block, for the back run to leave the pool, for the next transaction.
* **Integer arithmetic.** Roundings, scalings and iterations that stop within 1, each of which still gives a
  plausible figure when it is wrong.

What should hold, by component:

* pipelines: a transaction has one owner; the stream never waits behind its own queue; a recovery is sent only when it
  is due; tokens left behind are somebody's business, or at least in the log; attacks, and arbitrage runs, replace each
  other instead of queueing up behind a nonce; nothing is attacked twice, by whatever route; what was bought is sold once;
  nonces are dense; transactions and attacks come to an end;
* candidate paths: connected, from the native token, through the victim's pool the right way, by the deepest pools;
* fork: a revert restores what `set` made; the checkpoint is never lost; the journal accounts for the state;
* simulations: every probe starts clean; the best attack was measured in one probe; the search ends;
* swap events: what is reported is what moved, once per pool;
* multicall: every call is asked once and answered; batches shrink to what the node takes;
* contract: no pool is left with tokens it did not book; only the tokens at the ends of a path change; a back run sells
  what its front run bought;
* prices: the walk's liquidity and tick are the chain's; no swap takes from an invariant and no way there and back
  gains; the iterations end at the root; two ways to compute one thing agree.

## 2. Modules

| Module | What it is | Checked with | Proved in |
|---|---|---|---|
| `Chain` | the node, the relays and the chain as the code sees them | (part of the next two) | `ChainProofs` (lemmas) |
| `SandwichPipeline` | streams, queue, shared value, sandwich workers (EXTENDS `Chain`) | `MCSandwichPipeline` | `SandwichPipelineProofs` |
| `ArbitragePipeline` | queue, shared value, arbitrage workers (EXTENDS `Chain`) | `MCArbitragePipeline` | `ArbitragePipelineProofs` |
| `ForkEvm` | `EVM` over pyrevm | (part of the next two) | `ForkEvmProofs` |
| `SandwichSimulation` | the sandwich search on the fork (EXTENDS `ForkEvm`) | `MCSandwichSimulation` | `SandwichSimulationProofs` |
| `ArbitrageSimulation` | the arbitrage search on the fork (EXTENDS `ForkEvm`) | `MCArbitrageSimulation` | `ArbitrageSimulationProofs` |
| `PrivateCopies` | abstract promise of both: a copy of the chain per probe | refined by the two above | the same |
| `SwapTrace` | from calls to swap events | `MCSwapTrace`, `MCNode` | `NodeProofs` |
| `Multicall` | batches, failures, rebatching | `MCMulticall`, `MCNode` | `NodeProofs` |
| `CandidatePaths` | which paths an attack is tried along | `MCPricing` | `PricingProofs` |
| `TickMath`, `TickWalk` | a concentrated liquidity pool: its arithmetic; the walk and the cache | `MCPricing` | `PricingProofs` |
| `ConstantProduct` | Uniswap V2 quotes, and the formula the search uses | `MCPricing` | `PricingProofs` |
| `StableSwap` | Curve's stable pools, plain, lending, rated, meta and NG | `MCPricing` | `PricingProofs` |
| `CryptoSwap` | Curve's volatile pools of two and three coins, old and NG | `MCPricing` | |
| `Exchanges` | swaps one after the other on any pool of the three modules above | `MCPricing` | `PricingProofs`, for pairs |
| `AttackContract` | what the contract and the pools hold, swap by swap, through front runs and back runs | `MCPricing` | `PricingProofs` |
| `Pricing` | `TickWalk`, `Exchanges`, `CandidatePaths` and `AttackContract` side by side | `MCPricing` | |
| `PricingInvariants` | the inductive invariants of `PricingProofs` and what they are stated with | | `PricingProofs` |

### SandwichPipeline and Chain

`pc[w]` is where worker `w` is in the body of `main()`; each state is named for the call it is about to make, and there
is one action per call to the node or relay, per access to the queue and per read of the shared value, because between
two of these everything else may move. `CheckEmpty`/`Get` are lines 62-65, `CheckAge`/`AwaitBlock` 67-76,
`StartSearch`/`EndSearch` 78, `CheckHead` 80-89, `CheckVictim` 90, `Route`/`ReadTarget`/`SendBundle` the bloXroute branch,
`Route2` and the `club` states the 48 Club branch, `Delay`, `SendFront`, `SendBack`, `Wait`, `Result` and
`SendRecover` the general one. The stream has four states: receive, test the queue, trace, put.

Abstractions. *Heights* are relative: `isHead[w]` says whether the block number a worker remembers is the latest one,
and a transaction pinned to a height, or the shared value, is `due` while that height is the next block's; a new block
makes all of them old (`ViewsAge`). *Clocks, prices and profits* are choices at the tests that use them. *Attacks*
are named by their victim, and each ends in a token of its own, so that `position` says for which attacks the contract
holds the output of a front run. The node accepts a transaction whose nonce is not used and lets it replace one of the
same nonce, or refuses it. A block takes any dense run of the account's transactions, each with an outcome the contract
allows: a pinned back run outside its block fails (`sandwichBackRunDifficult`), and so does one without tokens to
sell. A bundle is taken as a whole by a validator of its relay.

`Result` reads the two receipts as line 159 does: the second only after a good first one, and either of them may be
missing, which raises. Every exception ends in the one handler around the loop body (`Raise`), which logs it and goes on
with the next transaction, whatever has been sent. `recovered` and `raised` are what the log then says: attacks a recovery
was sent for, and attacks that were given up by an exception after their front run. `misread` is what the log does not say:
receipts that were asked for while the node was indexing, which `Result` then reads as failures.

`Faults` names what may go wrong outside: `rpc` (a call of a worker raises anywhere), `drop` (the pool evicts), `index`
(receipts read as failures, `simple.py:45`).

### ArbitragePipeline

The workers of `main.py` on the same chain. `Search` is `search_arbitrage`, `CheckVictim` line 71, `CheckProfit` and
`Route` lines 75-85, `CheckFees` 87-103, `ReadTarget` 105, and then the two ways to send: `send_arbitrage_attack_single`
(nonce, transaction) and `send_arbitrage_attack` (nonce, simulation of the bundle, bundle). A round trip ends in the
token it began with, so there is no position, no recovery and no wait. The stream is the one `SandwichPipeline` has in
detail; here `Receive` delivers to the queue or loses.

### ForkEvm

The state of the fork is the set of `Effects` it shows, the journal the sequence of what each level would undo.
`CountedCall` is a call wrapped by `update_commit_count_decorator`, `UncountedCall` one that is not (`transfer`,
`put_balance`, `call_deposit`), `FailedCall` one that reverts, and `TornCall` one during which the database fails:
`run_evm` then returns before the frame is closed, and the decorator counts nothing. `Revert` is `EVM.revert` with its
test of the count; `RevertToSnapshot` is pyrevm's `revert` followed by `snapshot`. Only torn calls leave the depth
behind, which is how `Untorn` tells whether there was one.

### SandwichSimulation, ArbitrageSimulation and PrivateCopies

`simulate_sandwich` inside `search_sandwich`, and `simulate_arbitrage` inside `search_arbitrage`, one action per call to
the fork. Amounts, outputs and gas figures are the number of the probe they were measured in, because the question is
whether figures that are kept together belong together. An arbitrage probe is the victim's call, which is counted, then
`put_balance`, which is not, when the victim's receiver is the contract, then the round trip; the gas is kept by the
loop and the amount by the iterator, which is why `BestIsOneProbe` is about the two together.

`PrivateCopies` is what a reader expects: each probe has its own copy of the chain, on which its calls happen in the
order `Before` gives. `RunsOnCopies` is the refinement of both searches, with the store of the abstract specification
mapped to what the fork shows beyond its deployment until a call is torn.

### SwapTrace

Events are records as in `types.py`. `SwapCall`, `TransferCall` and `RevertedTransferCall` are the calls that matter, in
the order the recursion visits them; `WithSwap` and `WithTransfer` are `set_swap_event` and `set_transfer_event`. `flow`
is what the calls really moved: the code does not keep it, the properties compare against it. Addresses that a
reverted transfer touched are kept apart in `faked`.

### Multicall

The calls of a multicall are numbers and a fetch is an interval of them. `Chunks` is `batch_calls` literally: there is a
next chunk while the last one ends before `len(calls) - 1`. `Halves` is `split_calls`, `Rebatch` the two branches of
`rebatch`, `Raises` the decision of `_raise_or_proceed`, `Finish` the end of `gather`, which waits for all and raises if
one did. `step` outlives the multicall, as the module-level `batcher` does. With `NUM_PROCESSES` at its default of 1 no
other coroutine runs between the failure of a fetch and the asking of its pieces, so `Rebatch` is one step.

### CandidatePaths

`QueryPools` and `QueryBalances` are the two queries, which may raise or come back without an answer (the multicall's
dropped call); `BuildPaths` is the choice for every event of the victim. `found` keeps with each pool the pair it was
asked by, whose first token is the one its balance is read of, and when it was come upon: of pools that hold the same
the first wins, and `BestBefore` is what the loop calls the second front pool, the best up to the best. A balance that
is looked at and is not there raises, as `None["balance"]` does.

### TickMath and TickWalk

`calculate_amount_out` of `uniswap_v3.py` is a loop over ticks with requests to the node inside it: `Lookup` finds the
word and, if it is missing or older than the block, goes to `ReadBitmap` and `ReadTicks`, between which the chain may go
on (`Mine`); `Step` is the rest of the turn, from the price at the next tick to the crossing, and `Return` writes price,
tick and liquidity back to the pool's information as the code does, so that the next quote starts there. `TickMath` has
the functions below it with the same shifts and roundings, the widths being constants: MaxTick 8 instead of 887272, a
logarithm of 5 bits instead of 14. The bitmap's words are sets of bits. `LowTick` and `HighTick` are the two ticks
`get_tick_at_sqrt_ratio` chooses from. Two facts about the widths are assumptions, which TLC evaluates for the small
widths: the prices of ticks rise (`PricesIncrease`), and a price's tick is one of the two (`LogIsClose`). For the widths
in `uniswap_v3.py` both were computed with its functions, for every tick from -887272 to 887272, the second at the first
and at the last price of each: they hold.

### ConstantProduct, StableSwap, CryptoSwap and Exchanges

The quotes, as operators on a record of what the code reads of a pool; iterations are recursive functions or folds.
`StableQuote` goes by the pool's TYPE as `_CurveBase.calculate_amount_out` does, `MetaQuote` and `NGMetaQuote` are the
underlying swaps through a base pool, `Crypto2Quote`, `Crypto3Quote` and `CryptoNGQuote` the volatile pools, with
`ClosedY` the closed formula of the NG pools and `NewtonY2`/`NewtonY3` the iterations. `NoQuote` stands for assertions
and for loops that do not converge. `Exchanges` swaps on one pool up to three times, reflecting each swap in the
balances. The operators were compared with the Python functions on some 2000 random quotes at the small constants (840 of
stable and meta pools, 800 of stable NG pools, 450 of volatile pools): they agree on each.

### AttackContract

A ledger of who holds what (`balance`) and of what each pool knows it holds (`book`). An attack is probed on a copy of
the ledger, planned from what the probe got (`search.py:162-221`), and then run as the bot does. A *guarded* attack is
the general route: `sandwichFrontRunDifficult`, `sandwichBackRunDifficult`, and after a failed back run a
`sandwichBackRun`, as `main_sandwich.py:159` decides; one that is not is a bundle, with `sandwichFrontRun` and either of
the other back runs. A transaction is a `run`: one step (`Hop`) per turn of the loop over the pools, nothing else in
between, and a revert restores the ledger that `run.saved` keeps. `RouterSwap` is `SwapRouter.swap` with its dispatch on the
number of the exchange, `UniswapV2Swap` and `UniswapV3Swap` are its branches, the second with the callback
(`Verified` are the pools whose exchange's callback finds them at the factory it asks). `aside` is what the contract holds apart
from the attack: the code does not keep it, the properties compare against it.

Abstractions. A concentrated pool is a constant product over its whole range (`Given`), since what it gives is the
subject of `TickWalk`. Fees are in twentieths, so that products fit TLC's integers. The victim is one of the others who
trade, and others trade only during an attack. A probe ends with the front run: whether the back run would have paid is
the search's subject. Only the general route's guards promise that a back run sells what was bought: after a bundle's front
run, or a front run that was missed, it may sell older holdings of the contract, which is why
`SellsWhatItBought` is about guarded attacks that bought something.

## 3. Runs

| Run | Instance | Shows |
|---|---|---|
| `sandwich_one_worker` | 2 victims, 1 worker, queue of 1, all validators, no faults, fair | `TypeOK`, `OpenPositionIsWatched`, `NoNonceGap`, `QueueDrains`, `AttackSettles` |
| `sandwich_two_workers` | 2 victims, 2 workers, queue of 1, all validators, all faults | `PutNeverWaits`, `SingleOwner`, `RecoveryJustified`, `AttacksNeverQueue`, `OneFrontRunPerVictim`, `NoSilentLoss`, `SoldOnce` |
| `sandwich_bundle_target` | 2 victims, 1 worker | `BundleNamesBloxrouteBlock` does **not** hold (finding 1) |
| `arbitrage_pipeline` | 2 victims, 2 workers, queue of 1, all validators, calls fail, the pool evicts, fair | `RunsNeverQueue`, `OneRunPerVictim`, `QueueDrains` |
| `simulation_torn` | 2 paths, 4 amounts, torn calls, fair | `BestIsOneProbe`, `RunsOnCopies`, `SearchEnds`, `RevertRestores` |
| `back_run_gas` | the same without faults | `BackGasIsBackRuns` does **not** hold (finding 2) |
| `arbitrage_simulation` | 2 paths, 3 amounts, torn calls | `RunsOnCopies` |
| `node_answers` | a multicall of 0 to 8 calls, step 5, capacity 2, fair; or a trace of 5 calls on 1 pool and 1 trader, 2 tokens, 2 values | `AskedOnce`, `LostIsLast`, `StepStaysPositive`, `MulticallEnds`; `OneEventIsTheFlow`, `SwapsAreReported` |
| `swap_trace_merge` | such traces, 1 value, 6 calls | `OneReportPerPool` does **not** hold (finding 3) |
| `multicall_dropped` | 0 to 8 calls, step 5, no errors | `EveryCallAnswered` does **not** hold (finding 4) |
| `multicall_reset` | 1 to 8 calls, step 5, connections are reset | `BatchingEnds` does **not** hold (finding 5) |
| `pricing` | 17 ticks, 2 overlapping positions that come and go over 2 blocks; 19 pools of every kind, 3 swaps; a market of 6 pools, 3 factories, victims of 1 or 2 events, a lost answer; for the contract 10 pools of 8 exchanges, 4 tokens of which 2 take a tax, 12 paths of one or two pools, 2 trades of others | `LiquidityIsThePositions`, `TickIsAtThePrice`, `NoFreeRoundTrip`; `NoGain`, `InvariantNeverFalls`, `DIsTheRoot`, `FormulaIsWithinOne`, `ClosedFormIsNewtons`; `PathsFit`, `DeepestOtherPool`, `NoPoolTwice`; `PoolsAreSquare`, `OthersKept`, `SellsWhatItBought` |

Why the bounds are enough. Every hazard of the pipelines needs two actors: two workers racing for one transaction, one
worker behind its own earlier attack, the stream and a worker at the queue; two victims and two workers make all of
them happen, a queue of one is full as soon as it holds anything, and one of the two attacks ends in the native token.
The run of two workers has all faults at once, some 2.8 million states, and what it shows is proved for any number of workers,
victims and places. The one property of theirs that eviction breaks, `NoNonceGap`, is checked with one worker
and proved for any number as long as nothing is evicted. The searches need a path
that is given up early (2 amounts without a revenue), one that is not, and a second path after it. Five calls are what it takes for
the two sides of an event to change and change amounts after it. Eight calls with a step of five give chunks, halves,
halves that are cut by a step another fetch made smaller, and one call too many; the step only falls, so multicalls may
follow each other without a bound. Seventeen ticks with words of four bits make a walk cross words, positions and zero
both ways and leave and enter the range of the cache; a second block makes every word old once. Two positions overlap,
so that the liquidity takes four values. Three pools for one pair are what it takes for the deepest not to be the first
or the last, and a lost answer to leave two. The pools have two or three figures: enough for every rounding to matter by
more than it may, and too few for the iterations of the volatile pools to say anything about gains, which is why
the part of `NoGain` that goes there and back leaves those out.
In the contract, two pools in a row are every case of paying each other (the loop knows only the next pool), and the paths
have each kind of exchange before each other kind, forwards and, in the back run, backwards. Two trades are what it takes for the
pools to move between plan and front run and again before the back run.

`swap_trace_merge` and `pricing` run without the deadlock check: a trace, the swaps, the choice of paths and an attack end, and
the model with them. In all other runs the system can always move (in `node_answers`, a trace that has been read stays as it is).

### Fairness

* Pipelines (`FairSpec`): the operating system schedules each process (`WF` on `Work(w)` and on the stream's own steps,
  but not on `Receive`: no transaction has to come); and, for the sandwich workers, blocks keep coming that take what
  transactions of the account can execute (`FullBlock`). The second is about the chain: without it the wait of line 156
  is endless. An arbitrage worker waits for nobody, so nothing is assumed of the chain there. Nothing is
  assumed of validators, bundles or the validator stream.
* Search: one thread that runs on (`WF` on `Step`).
* Multicall: each request is answered or fails in the end, which the HTTP timeout (`AIOHTTP_TIMEOUT`) enforces.

## 4. Findings

1. **The block of a bundle** (`main_sandwich.py:110`). The branch is taken on one read of the shared value and the
   bundle's block is a second read. In between the stream may have stored 0 or -1. `BundleNamesBloxrouteBlock`.
2. **The back run's gas** (`sandwich/simulation.py:174`). The front run's maximum is returned in both places; the back
   run's is measured and dropped. The fee of a bundle is computed from it. `BackGasIsBackRuns`.
3. **Two reports for one pool** (`trace_tx.py:70`). A pool that first sends two different tokens gets two events, and
   what comes back is then booked on both. The project's README (line 424) says that swaps of one pool are merged into
   one event. `OneReportPerPool`.
4. **The dropped call** (`multicall.py:206`). With one call more than a multiple of the step the last is in no batch.
   With the initial step of 10000 this is rare, but every failure makes the step smaller. `EveryCallAnswered`.
5. **The step of 0** (`multicall.py:233`). A batch of a single call that fails by a timeout or a reset goes on to
   `rebatch`, which makes the step of the process 0; `batch_calls` then never ends for any two calls. The docstring of the
   class promises a batch size that is reasonable for the node. `BatchingEnds`; `StepStaysPositive` and `MulticallEnds` say when
   this cannot happen: single calls are answered (`Capacity` is at least 1) and connections are not reset.

Seen while modelling, and not the subject of a run of its own:

Pipelines and searches
* Attacks of two workers displace each other's transactions, since `_get_nonce` reads the latest block
  (`transaction.py:518`): a front run may be mined while its back run has lost its place to another attack. The worker's
  `is_successful_tx` then raises for the back run that has no receipt, and the tokens stay in the contract, with a line in the log
  (`NoSilentLoss`). `OpenPositionIsWatched`, that somebody still deals with them, is therefore a claim about one worker without
  faults.
* An evicted back run ends in the same way: no receipt, an exception, no recovery (`main_sandwich.py:159`). And an evicted
  front run leaves its back run above a nonce that nobody uses, until the next attack takes it: `NoNonceGap` is about a node that
  evicts nothing.
* While the node indexes transactions, a front run that succeeded reads as a failed one (`simple.py:45`). The worker
  then takes the attack for finished: tokens stay in the contract and nothing is logged. This is the one silent loss that
  `NoSilentLoss` admits, and it names the attack it happened to (`misread`). A back run that succeeded and reads as a failed one
  gets a recovery, which `RecoveryJustified` admits in the same way; it fails, as nothing is left to sell (`SoldOnce`).
* A recovery is sent and forgotten (`main_sandwich.py:168`): the next front run of any worker may have its nonce and take its
  place. Nothing is claimed about recoveries being mined.
* A torn call before any counted one of its probe is not taken back by `EVM.revert`, whose count is 0 (`evm.py:106`): the
  probes after it run on a fork that is not clean. `RunsOnCopies` is about searches without torn calls.
* The route is not always that of the next block: the shared value may change right after it is read, and between the
  tests of lines 94 and 114.
* Calls that were reverted inside a successful trace are booked as if they had not been (`trace_tx.py:130`): of addresses
  they touched nothing is claimed.
* The arbitrage worker's first test of the shared value is for 0 only (`main.py:77`): with -1, a block of 48 Club, it
  takes the bundle path and names the block `hex(-1)`; with a value that turned 0 in between, `hex(0)`. The model
  has both as bundles nobody takes.
* The middle pool of a path of four may be the event's own pool (`arbitrage/search.py:174-190` do not leave it out as line 55
  does), so that the path takes the pool there and back; and such a path takes the place of the path of three.
* With several events one pool is asked for under two names and may be both the front pool and the second front pool.
* Which balances are compared depends on the order the pair was asked in: one pool's of one token, another's of the
  other. An arbitrage reads them at the latest block, a sandwich at the block of the search.

Contract
* The branch of `swap` that calls `bakerySwap` is for 13 (`SwapRouter.sol:43`), which the branch before takes as PancakeSwap
  V3; `dex2id.json` says 15, which no branch knows. The search takes BakerySwap's pools (`labels.json:14`), and an attack
  through one reverts, in the probe already. The test of BakerySwap calls the adapter and not `swap`. In the instance the
  path through `bakery` shows it.
* `sandwichBackRunDifficult` compares balances only on a circular path, and nothing tells whether its own front run went
  through: with older holdings of the token a back run whose front run was refused sells those (`ArbitrageSwap.sol:117`).
* The Sushi V3 pools of BSC call `uniswapV3SwapCallback`, which asks Uniswap's factory only: their swaps are never paid.
  On Ethereum (`ETH.sol`) no factory is set at all.

Prices
* `formula.py:61` calls `prod`, which is not defined: for two pools and more the name error is caught by the caller, and
  paths of Uniswap V2 pools only are passed over. The formula rounds the other way than the pools
  (`FormulaIsWithinOne` states by how much).
* `_newton_D` of `curve_crypto_swap.py` never changes `D`: for a ramping pool of two coins it returns n times the
  geometric mean, and swaps there and back by the quotes gain (20 gives 38 gives 22 in the small instance).
* The AAVE branch of `curve_stable_swap.py` subtracts the fee itself, not the fee's part of the amount, when
  `offpeg_fee_multiplier` is not above the denominator; the `USE_BALANCES` branch passes what is meant as plus-one as
  `a_precision`.
* `uniswap_v3.py` never forgets ticks that are no longer initialized (harmless: the bitmap is asked first), and the only
  caller of its quotes is the module `src/src/arbitrage.py`, which cannot be imported.
* `memoize` (`utils.py:19`) keys a price by the pool's address and the arguments, not by the block: a price is never
  computed again within a process.
* `get_pool_price` looks a V3 pool up in a table that does not hold it; `get_reserve_by_pool_address` falls back to
  arithmetic on `None`; `calculate_slippage` divides by the wrong token's decimals.

## 5. What is proved

All theorems are about every value of the constants allowed by the named assumptions.

**Sandwich pipeline** (`SandwichPipelineProofs`).
* `TypeCorrect`. `TypeOK` is strengthened to `TypeInv` by `Occupied`: a worker past `get` has a transaction, and the
  stream has one unless it is receiving. Without it `wtx[w]` could not be used as a victim.
* `PutFindsRoom` (`PutNeverWaits`), by `RoomKept`: the room the stream saw is still there when it traces and when it
  puts, since workers only take.
* `NoSharedTransaction` (`SingleOwner`), by `FreshIsUnheld`: a transaction the feed has not announced is nowhere.
* `RecoveriesAreJustified` (`RecoveryJustified`), under any faults, by `RecoveryDecided`: a worker on its way to send a recovery has
  receipts that justify it, or asked for the back run's while it was being indexed; and receipts stay.
* `BackRunsAreAwaited` (`NoAbandonedBackRun`), assuming that calls of the workers do not fail (`"rpc" \notin Faults`),
  by `BackRunIsWatched`: every back run in the pool has a worker that waits for it.
* `AttacksReplaceEachOther` (`AttacksNeverQueue`), under any faults, by `NonceInv`: a nonce that a worker has read is never above the
  account's (`NoncesRead`), so that what the chain accepts has the account's nonce, or is a back run with the one after, and takes the
  place of what has it already.
* `NoGapWithoutEviction` (`NoNonceGap`), if nothing is evicted, by `PlacesKept`: while a back run is above
  the account's nonce, or about to be sent there, that nonce has a transaction, its front run or what took its place.
* `VictimsAreFrontRunOnce` (`OneFrontRunPerVictim`), under any faults, by `AttackInv`: what was never sent has no trace
  (`UnsentIsUntraced`), and bundles and front runs of one victim are one (`BundlesApart`, `FrontsApart`). It rests on `OwnerInv`, since
  two workers with one victim would send two, and on `NonceInv`, since a block could otherwise take one of two and leave the other.
* `NoLossIsSilent` (`NoSilentLoss`), under any faults, by `TokensTraced` (tokens in the contract
  are those of a front run that succeeded, and are gone once they are sold) and `FrontsAreWatched` (a front run in the pool, or with its tokens in
  the contract, has a worker past sending it, a recovery that was sent, a line in the log, or a receipt that was misread).
* `TokensAreSoldOnce` (`SoldOnce`), under any faults, by `SaleInv`: tokens are gone once they are sold
  (`TokensTraced`), so that the second sale finds none; and a recovery and its back run are never taken together by one block, as the
  back run of a front run that is mined does not stand above the account's nonce any more (`BackRunsFollow`).

**Arbitrage pipeline** (`ArbitragePipelineProofs`; what the chain's steps keep is in `ChainProofs`, for both pipelines).
* `TypeCorrect`, as above.
* `RunsReplaceEachOther` (`RunsNeverQueue`), by `NoncesAreRead`: the nonce a worker has read is never above the
  account's. What the chain accepts then has exactly the account's nonce, as all that is in the pool has, so that it
  replaces it; and a block that takes a transaction leaves nothing of that nonce.
* `VictimsAreAttackedOnce` (`OneRunPerVictim`), by `OnceInv`: a victim is in one place of the bot (`OnePlace`), nothing was
  sent for one that is still somewhere in it (`NotYetSent`), and what was sent is in the pool, with a relay or mined, in one
  of them (`SentOnce`). The step of a block needs the theorem before it: with two transactions in the pool a block could
  take one and leave the other.

**Fork** (`ForkEvmProofs`). `EvmInv`: the snapshot is level 1, the first level is the deployment, the depth is positive,
the later levels are disjoint from the deployment, and the state is the union of all levels. From it `ForkTypeCorrect`,
`CheckpointIsAlive`, `RevertGoesBack`; with the levels pairwise disjoint, `JournalIsSound`. These are about the fork under
any client (`EvmSpec`); TLC sees the fork under its two clients.

**Searches** (`SandwichSimulationProofs`, `ArbitrageSimulationProofs`). `BaseInv` joins `EvmInv` with what ties the fork to
the present probe: what it shows beyond the deployment was done by probes up to this one, so each call is new. From it
`SimulationTypeCorrect`, `ArbitrageTypeCorrect` and `SearchReverts`; with the figures of a probe being that probe's,
`AttackIsOneProbe`, `PathsAreGivenUp` and `ArbitrageIsOneProbe`, torn calls included. While no call has been torn, which calls the fork
shows is known exactly at each place, hence `ProbesAreIsolated` and `SearchRefinesCopies`, and for the arbitrage
`ArbitrageProbesAreIsolated` and `ArbitrageRefinesCopies`: the initial state maps to the initial state of `PrivateCopies` and
every step to one of its steps or to a stutter. For the arbitrage the point is that `put_balance` comes only after a counted
call, so that a fork that shows it is a fork that `revert` takes back.

**Candidate paths** (`PricingProofs`). `CandidatesFit` (`PathsFit`), for any market, factories, victims and lost
answers: each pool found trades the pair it is found for (`FoundFits`), and the choice only chooses among those. By
`SearchInv` (what is found are answers, and the paths are made of them), for victims of one event, `PoolsAreTakenOnce`
(`NoPoolTwice`) and `DeepestIsTaken` (`DeepestOtherPool`): the pool that holds most of a finite set of answers exists,
and what comes first among equals is chosen. `MarketAssumption` says what a factory guarantees: a pool has two
tokens, is of one factory, and is its factory's only one for them.

**Multicall** (`NodeProofs`). Chunks and halves cut an interval into pieces that do not overlap (`ChunksCut`,
`HalvesCut`); so fetches stay intervals of their multicall (`TypeCorrect`), no call is asked twice
(`NothingAskedTwice`), and, unless connections are reset, only batches of two calls and more make the step smaller
(`StepNeverVanishes`). `OnlyLastCallsAreLost` (`LostIsLast`): the chunks reach all calls but, at most, the last, and what
replaces a fetch has its calls.

**Swap events** (`NodeProofs`), for any calls, addresses, tokens and values, at any depth. `TraceInv` says that an
address without events moved nothing, that one with one event moved what the event says, in each token (`FlowIsBooked`),
and that no event has an amount without its token or both amounts below zero (`Sound`). It is inductive because
`set_transfer_event` looks at every event of an address before it makes a new one, and because an event is turned as soon as
it would be unsound. From it `TraceTypesHold`, `OneEventIsWhatMoved` (`OneEventIsTheFlow`) and `NoSwapIsMissed`
(`SwapsAreReported`). The last two are about addresses with exactly one event that no reverted transfer touched, and the last one
about pools of a known exchange that took one token for one other and not too little of a native one: a pool with two events may
well be misreported (finding 3).

**Contract** (`PricingProofs`), for any pools, taxes, fees, holdings, paths of any length, attacks and trades.
* `NothingIsLeftInAPool` (`PoolsAreSquare`) and `OnlyItsOwnIsSpent` (`OthersKept`) by `ContractInv`: balances and books are
  natural numbers, a pool has what its book says but for the one the amount is on its way to (`OnItsWay`,
  `SquareButForIt`), the contract has what it had aside but for the amount in flight (`KeptButForIt`), and the ledger
  that a revert goes back to is sound in the same way (`SavedIsSound`).
* `BackRunsSellWhatWasBought` (`SellsWhatItBought`), for guarded attacks that bought something along a path with two
  different ends: their back run sells no more of the target than was bought, and with a single pool just that. By `TradeInv`: at each stage of an attack, what the contract holds of the
  target beyond the rest is nothing, or what was planned, or what the run in hand carries (`BoughtInv`); the stages of
  attack and run agree, and a plan is priced by the probe (`PricedInv`).
* Assumed: `AmountsAreUnsigned`, `ContractIsNoPool`, and of a path only that a pool trades the tokens of its hop
  (`PathsAreRoutes`), which is what `CandidatesFit` shows of the paths that are found.

**Pairs** (`PricingProofs`). `FormulaIsThePairs` (`FormulaIsWithinOne`) for any amounts and reserves swaps lead to; and if
all pools are constant products, as the hypothesis of both theorems says, `PairsNeverLose` (`InvariantNeverFalls`) and
`PairsGiveNothingAway` (`NoGain`): `PairInv` keeps of the last swap that it was fair, and two inequalities between products
give the way back. No bound is put on the figures: Python's integers have none.

**Concentrated pools** (`PricingProofs`), for any spacing, size of words and cache, amounts, fee and finite set of positions,
which come and go with each of any number of blocks.
* `TicksAreAtPrices` (`TickIsAtThePrice`) by `TickInv`: the walk and the pool's information are *placed*, that is, their price is
  between that of their tick and that of the next (`Placed`). A step of the swap stops at the target or
  before it, so it never passes a tick; the tick it is given is the price's by `LogIsClose`, and the bit that was found is of
  a tick on the right side of the price, by quotients that round down for negative ticks as well.
* `StaleWordsDoNoHarm` (`LiquidityIsThePositions`) by `CacheInv`: a word of the present block is the chain's
  (`WordsAreTheChains`), so are the ticks it names, unless they are just being fetched (`TicksAreTheChains`), and the walk's
  liquidity is that of the positions its tick is in (`LiquidityIsKnown`). Between a tick and the next that was found there is no
  end of a position (older words are fetched again before they are asked), so that liquidity changes only at
  crossings, by the sums the pool keeps there; the sums over positions are taken apart by induction on finite sets.
* `NothingForFree` (`NoFreeRoundTrip`): what comes back for what a quote gave is no more than was paid, through any number of
  ticks. A liquidity between two prices is worth an amount of token 1 (its length in prices) and one of token 0 (its
  length in reciprocals of prices, counted in parts of a common multiple of all prices, so that all stays in
  whole numbers). `StepGoesUp` and `StepGoesDown` say that a step pays for its way at least, and is given no more than it,
  because `Amount0Delta`, `Amount1Delta` and the next prices round against the caller. Liquidity is that of the
  positions there (the theorem before), so ways add up over ticks along one curve of the chain. `RoundTripInv` books the
  ways of both quotes from where each began, and a way back over the curve that takes no more than the first quote gave
  returns no more than was paid (`NothingGained`). The bitmap's age does not matter: a quote that finds a step fewer goes the same curve.
* Assumed: `TickMathAssumption`, `WalkAssumption`, `PricesIncrease` and `LogIsClose`.

**Curve's stable pools** (`PricingProofs`), for any balances, amplification and number of turns `MaxTurns`: what
`GetD` and `GetY` of the plain, lending, rated and meta pools compute. `BalanceIsTheRoot` is of what the NG pools share
with them; their own D (`GetDNG`) is only checked.
* `NewBalanceIsTheRoot`, of `get_y` for any number of coins, and `BalanceIsTheRoot` for any D: the balance `y` has
  `c < (y + 1)(y + 1 + b - D)`, so that it is not a unit below the root, and what a pool gives beyond its `- 1` never
  comes out of the invariant; and `y (y + b - D) <= c + 1`, or no turn of all came within 1 of the one before (`Restless`).
  A turn of Newton's from any number leads above the root (a square is not negative), but for the unit that the
  division rounds away (`BalanceTurn`); at a number that may be reached without settling the divisor is positive.
* `InvariantIsNoLower`, of `get_D` for two coins: D is not a unit below the root of `Ann S + D = Ann D + D^3 / (4 a b)`
  (`AboveTheInvariant`, with the unit of A). The cubic is below its chord by `(w - D)^2 (w + 2 D)` (`CubesMeet`). That D is
  positive, so that no division by zero follows, is shown for any number of coins (`InvariantIsPositive`).
* The functions that `Settle` and the folds over coins are recursive in exist by induction on the turns (`TurnsExist`) and on
  the coins (`FoldsExist`); what turns make true is true of where they end (`TurnsEndIn`). `Settle` recurs on the turns alone
  for this: with the numbers in its domain it could only be reasoned about where every turn stays whole.
* Assumed: balances above zero, and that A is at least 1.

**Only proved**, since a run's properties already say more at its bounds: `NoAbandonedBackRun` (a worker that turned away from its back
run would break `OpenPositionIsWatched`), `ProbeIsolated` of both searches (`RunsOnCopies`), and `BestIsOneProbe` of the
arbitrage search, whose exception path differs from the sandwich search's and whose bookkeeping does not.

**Only model-checked**:
* Liveness (`QueueDrains`, `AttackSettles`, `SearchEnds`, `MulticallEnds`), which is beyond the prover.
* `DIsTheRoot` and `ClosedFormIsNewtons`, because they are not true of every constant: for pools far out of balance
  the divisions by the smaller balance, in `get_D` and in the property, round by more than it allows (for balances of
  876563873 and 3 and A = 104, say), and the closed form is within its margin only for the pools at hand.
  The theorems on the stable pools are what remains of them for every pool.
* `NoGain` and `InvariantNeverFalls` for Curve's pools: they compare two values of D, each of which may be off by what its
  turns round, which leaves no bound that is true of every pool. For the volatile pools (`CryptoSwap`) nothing is proved.
* `OpenPositionIsWatched`, which is about one worker and no faults: what holds of any number and under faults is
  `NoSilentLoss`, which is proved.

## 6. What is not modelled

* The callbacks of flash swaps in `SwapCallBack.sol`, which the contract's own functions never ask a pool for, and the adapters to
  Curve and BakerySwap, which no branch of `swap` reaches. In the pipelines a transaction of the contract is one step.
* Which amount is tried next, revenues and gas prices: choices.
* The queries of `apis/contract.py` for decimals, rates, reserves and prices, and the encoding of calls.
* Floating point: `sandwich/optimization.py` and the closed-form optimum of `formula.py`. On the integers a model checker
  can enumerate nothing of a square root over 112-bit reserves is left.
* The widths at which the NG pools' Vyper original would wrap; pools do not reach them.
* revm itself, the fork's caches, receipts and gas.
* `src/src/arbitrage.py`, which the package of the same name shadows.
* Infrastructure, containers, tools, configuration, crawling: no state of interest.

## 7. Plan

Done: the two pipelines on one chain, the fork with its two searches and their abstract specification, the swap trace,
the multicall, the candidate paths, the quotes of every kind of pool, the contract. Next, in this order:

1. Proofs: that D is not above the root by more than its turns round, for two coins and then for more; the same two
   sides for the NG pools, which divide by n^n once; the type invariant of the contract as a theorem of its own.
2. `ContractQueries`: what the rest of `apis/contract.py` makes of a multicall that lacks an answer.
3. The price table of `memoize` over blocks, as a cache beside the pools of `Exchanges`.
