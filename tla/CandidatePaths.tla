--------------------------- MODULE CandidatePaths ---------------------------
(***************************************************************************)
(* Which paths an attack is tried along: search_arbitrage_candidate_path   *)
(* of src/src/arbitrage/search.py and search_sandwich_candidate_path of    *)
(* src/src/sandwich/search.py, with the two queries they build on,         *)
(* get_pool_from_token_pair and get_addresses_balance_by_token_address of  *)
(* src/src/apis/contract.py.  Either query may come back without one of    *)
(* its answers (see Multicall).                                            *)
(*                                                                         *)
(* The market is external.  A set of at most one path stands for a path    *)
(* or none; exchanges go with their pools.                                 *)
(***************************************************************************)
EXTENDS Integers, Sequences

CONSTANTS
  Native,      \* the wrapped native token
  Market,      \* pools
  TokensOf,    \* the two tokens of each
  Factories,   \* a sequence: the pools each factory names, by fee tier if it has them
  Victims,     \* swap events a victim may have, in their order
  Holdings     \* what each pool may hold of its tokens

(* A pool is of one factory and one tier, which has one pool for a pair:   *)
(* each call of get_pool_from_token_pair has one address for its answer.   *)
ASSUME MarketAssumption ==
  /\ \A p \in Market : \E t, u \in TokensOf[p] : t # u /\ TokensOf[p] = {t, u}
  /\ Factories \in Seq(SUBSET Market)
  /\ \A f, g \in DOMAIN Factories : \A p \in Factories[f], q \in Factories[g] :
       /\ p = q => f = g
       /\ (f = g /\ TokensOf[p] = TokensOf[q]) => p = q
  /\ \A v \in Victims :
       /\ v \in Seq({v[n] : n \in DOMAIN v})
       /\ \A n \in DOMAIN v :
            /\ v[n].pool \in Market
            /\ v[n].in # v[n].out
            /\ TokensOf[v[n].pool] = {v[n].in, v[n].out}
  /\ \A h \in Holdings : \A p \in Market : \A t \in TokensOf[p] : h[p][t] \in Nat

VARIABLES
  search,      \* for an arbitrage or a sandwich
  victim,      \* its swap events
  held,        \* what each pool holds of its tokens
  stage,       \* what the search does next
  found,       \* token_pair_pools: each with the pair it was asked by, and when
  answered,    \* token_balance_pools: the balances there are
  candidates   \* candidate_paths, by the number of the event

pathVars == <<search, victim, held, stage, found, answered, candidates>>

-----------------------------------------------------------------------------
(* The queries.                                                            *)

IsNative(e) == Native \in {e.in, e.out}

(* find_link_pool_candidate: the pairs asked for an event.  A pair asked
   twice is one key of the answer; here the later one never matters.       *)
PairsOf(e) ==
  IF search = "sandwich"
  THEN IF e.in = Native THEN <<>> ELSE <<<<Native, e.in>>>>
  ELSE IF IsNative(e) THEN <<<<e.in, e.out>>>>
       ELSE <<<<Native, e.out>>, <<e.in, Native>>, <<e.in, e.out>>, <<Native, e.out>>>>

(* Events, pairs and factories are gone through in this order.             *)
Order(n, k, f) == (n * 5 + k) * (Len(Factories) + 1) + f

AnswersTo(n, k) ==
  LET pair == PairsOf(victim[n])[k]
  IN  UNION {{[at |-> Order(n, k, f), pool |-> p, token0 |-> pair[1], token1 |-> pair[2]] :
                p \in {q \in Factories[f] : TokensOf[q] = {pair[1], pair[2]}}} :
             f \in DOMAIN Factories}

Answers == UNION {UNION {AnswersTo(n, k) : k \in DOMAIN PairsOf(victim[n])} :
                  n \in DOMAIN victim}

PathsInit ==
  /\ search \in {"arbitrage", "sandwich"}
  /\ victim \in Victims
  /\ held \in Holdings
  /\ stage = "pools"
  /\ found = {}
  /\ answered = {}
  /\ candidates = <<>>

(* get_pool_from_token_pair, which may raise.                              *)
QueryPools ==
  /\ stage = "pools"
  /\ \/ /\ found' = Answers
        /\ stage' = "balances"
     \/ /\ \E lost \in Answers : found' = Answers \ {lost}
        /\ stage' = "balances"
     \/ /\ stage' = "raised"
        /\ UNCHANGED found
  /\ UNCHANGED <<search, victim, held, answered, candidates>>

(* get_addresses_balance_by_token_address: of the first token of each.  If
   it raises, its decorator returns nothing.                               *)
QueryBalances ==
  LET asked == {<<r.token0, r.pool>> : r \in found}
  IN  /\ stage = "balances"
      /\ \/ answered' = asked
         \/ \E lost \in asked : answered' = asked \ {lost}
         \/ answered' = {}
      /\ stage' = "paths"
      /\ UNCHANGED <<search, victim, held, found, candidates>>

-----------------------------------------------------------------------------
(* The choice of pools.                                                    *)

Depth(r) == held[r.pool][r.token0]

(* Mutations, here and below, are what a slip in the code would make of the
   definition that follows; no action uses them.                           *)
BestNotKept(S) == {r \in S : Depth(r) > 0 /\ \A s \in S : Depth(s) > 0 => s.at <= r.at}

(* The first of those that hold most, if they hold anything.               *)
Best(S) ==
  {r \in S : /\ Depth(r) > 0
             /\ \A s \in S : Depth(s) < Depth(r) \/ (Depth(s) = Depth(r) /\ r.at <= s.at)}

(* front_second_pool: what was the best when the best was come upon.       *)
BestBefore(S) == UNION {Best({s \in S : s.at < r.at}) : r \in Best(S)}

Asked(a, b) == {r \in found : r.token0 = a /\ r.token1 = b}

Between(a, b) == Asked(a, b) \union Asked(b, a)

OthersUnchecked(e, S) == S

Others(e, S) == {r \in S : r.pool # e.pool}

-----------------------------------------------------------------------------
(* The paths.                                                              *)

PathOf(pools, tokens) == [pools |-> pools, tokens |-> tokens]

(* Out of the victim's pool and back by another, or the other way round,
   whichever starts with the native token.                                 *)
NativeRoundTrips(e) ==
  {IF e.in = Native THEN PathOf(<<r.pool, e.pool>>, <<e.in, e.out, e.in>>)
   ELSE PathOf(<<e.pool, r.pool>>, <<e.out, e.in, e.out>>) :
     r \in Best(Others(e, Asked(e.in, e.out)))}

ThreeHopsTurned(e) ==
  {PathOf(<<c[1].pool, e.pool, c[2].pool>>, <<Native, e.in, e.out, Native>>) :
     c \in Best(Between(Native, e.in)) \X Best(Between(e.out, Native))}

ThreeHops(e) ==
  {PathOf(<<c[1].pool, e.pool, c[2].pool>>, <<Native, e.out, e.in, Native>>) :
     c \in Best(Between(Native, e.out)) \X Best(Between(e.in, Native))}

(* The middle pool may be any between the event's tokens.                  *)
FourHops(e) ==
  {PathOf(<<c[1].pool, c[2].pool, e.pool, c[3].pool>>, <<Native, e.in, e.out, e.in, Native>>) :
     c \in Best(Between(Native, e.in)) \X Best(Between(e.in, e.out))
             \X BestBefore(Between(Native, e.in))}

(* The path of four pools takes the place of that of three.                *)
ArbitragePaths(e) ==
  IF IsNative(e) THEN NativeRoundTrips(e)
  ELSE IF FourHops(e) # {} THEN FourHops(e) ELSE ThreeHops(e)

(* A sandwich buys what the victim buys, if need be with what it first
   buys for the native token.                                              *)
SandwichPaths(e) ==
  IF e.in = Native THEN {PathOf(<<e.pool>>, <<e.in, e.out>>)}
  ELSE {PathOf(<<r.pool, e.pool>>, <<Native, e.in, e.out>>) :
          r \in Best(Others(e, Between(Native, e.in)))}

PathsOf(e) == IF search = "arbitrage" THEN ArbitragePaths(e) ELSE SandwichPaths(e)

(* The pools whose balances are looked at for an event.                    *)
LookedAt(e) ==
  IF search = "sandwich"
  THEN IF e.in = Native THEN {} ELSE Others(e, Between(Native, e.in))
  ELSE IF IsNative(e) THEN Others(e, Asked(e.in, e.out))
       ELSE Between(Native, e.out) \union Between(e.in, Native) \union Between(e.in, e.out)

(* A balance that is not there raises, and the search is over.             *)
BuildPaths ==
  /\ stage = "paths"
  /\ IF \A n \in DOMAIN victim : \A r \in LookedAt(victim[n]) : <<r.token0, r.pool>> \in answered
     THEN /\ candidates' = [n \in DOMAIN victim |-> PathsOf(victim[n])]
          /\ stage' = "done"
     ELSE /\ stage' = "raised"
          /\ UNCHANGED candidates
  /\ UNCHANGED <<search, victim, held, found, answered>>

PathsNext == QueryPools \/ QueryBalances \/ BuildPaths

PathsSpec == PathsInit /\ [][PathsNext]_pathVars

-----------------------------------------------------------------------------
(* Properties.                                                             *)

Hops(path) == DOMAIN path.pools

HopIs(path, h, p, from, to) ==
  path.pools[h] = p /\ path.tokens[h] = from /\ path.tokens[h + 1] = to

FitsArbitrage(path, e) ==
  /\ path.tokens[Len(path.tokens)] = Native
  /\ \E h \in Hops(path) : HopIs(path, h, e.pool, e.out, e.in)

FitsSandwich(path, e) == HopIs(path, Len(path.pools), e.pool, e.in, e.out)

Fits(path, e) ==
  /\ path.tokens[1] = Native
  /\ \A h \in Hops(path) : TokensOf[path.pools[h]] = {path.tokens[h], path.tokens[h + 1]}
  /\ IF search = "arbitrage" THEN FitsArbitrage(path, e) ELSE FitsSandwich(path, e)

(***************************************************************************)
(* A path starts with the native token and each of its pools trades the    *)
(* two tokens of its hop.  An arbitrage comes back to the native token and *)
(* takes the victim's pool the way the victim does not; a sandwich ends in *)
(* the victim's pool the way the victim takes it.                          *)
(***************************************************************************)
PathsFit == \A n \in DOMAIN candidates : \A path \in candidates[n] : Fits(path, victim[n])

(***************************************************************************)
(* The paths of a victim with one event in a pair with the native token    *)
(* use another pool than the victim's: of all its factories name, the one  *)
(* that holds most of what the victim pays with.                           *)
(***************************************************************************)
DeepestOtherPool ==
  (stage = "done" /\ search = "arbitrage" /\ Len(victim) = 1 /\ IsNative(victim[1])) =>
    LET e == victim[1]
        others == {r.pool : r \in found} \ {e.pool}
    IN  /\ candidates[1] = {} => \A p \in others : held[p][e.in] = 0
        /\ \A path \in candidates[1] :
             \E h \in Hops(path) :
               /\ path.pools[h] \in others
               /\ \A p \in others : held[p][e.in] <= held[path.pools[h]][e.in]

(***************************************************************************)
(* No path takes a pool twice, if the victim has one event.  (The one      *)
(* exception is that the middle pool of four may be the event's own, which *)
(* the code does not leave out there as it does for pairs with the native  *)
(* token.  With several events a pool may be asked for under two names,    *)
(* and be both the best and the one before.)                               *)
(***************************************************************************)
NoPoolTwice ==
  Len(victim) = 1 =>
    \A n \in DOMAIN candidates : \A path \in candidates[n] : \A g, h \in Hops(path) :
      (g # h /\ path.pools[g] = path.pools[h]) => Len(path.pools) = 4 /\ {g, h} = {2, 3}
=============================================================================
